-------------------------- MODULE StraceMainProofs ---------------------------
(***************************************************************************)
(* The safety properties of StraceMain hold for a ring buffer of any size   *)
(* and any number of turns of the poll loop.                                *)
(***************************************************************************)
EXTENDS StraceMain, TLAPS

BeforeOpen == {"args", "find", "open"}
BeforeLoad == BeforeOpen \cup {"rodata"}
BeforeAttach == BeforeLoad \cup {"load"}
Polling == {"loop", "wait", "consume"}

(* What main holds and what err is worth at every label.                    *)
Held ==
  /\ AttachedIsFiltered
  /\ pc \in BeforeOpen => skel = "null" /\ ~failed
  /\ pc \in BeforeAttach \cup {"attach_enter"} => links = {}
  /\ pc \in {"rodata", "load"} => skel = "open" /\ ~failed
  /\ pc \notin BeforeLoad \cup {"done"} => rodata = Pid
  /\ pc \in {"attach_enter", "attach_exit", "new_ring"} \cup Polling =>
       skel = "loaded" /\ ~failed /\ err # "unset"
  /\ pc = "attach_exit" => links = {"enter"}
  /\ pc \in {"new_ring"} \cup Polling => links = Both
  /\ rb => pc \in Polling \cup {"free_ring"}
  /\ pc \in {"free_ring", "destroy"} =>
       err # "unset" /\ (failed => err = "negative") /\ skel # "null"
  /\ pc # "done" => status = "running"
  /\ EverythingReleased
  /\ pc = "done" /\ failed => status = "1"

MainInv == TypeOK /\ Held

(* Nothing is held when main starts.                                        *)
LEMMA MainInit == Init => MainInv
<1> SUFFICES ASSUME Init PROVE TypeOK /\ Held
  BY DEF MainInv
<1>1. TypeOK
  <2>1. avail \in 0..RingMax
    BY MainAssumption DEF Init
  <2> QED
    BY <2>1, Zenon DEF Init, TypeOK, Labels, Errs, Statuses
<1>2. Held
  BY DEF Init, Held, AttachedIsFiltered, EverythingReleased, BeforeOpen, BeforeLoad,
     BeforeAttach, Polling
<1> QED
  BY <1>1, <1>2

(* Every statement of main, the handler and the process keep the types.     *)
LEMMA MainTypes == TypeOK /\ [Next]_vars => TypeOK'
<1> SUFFICES ASSUME TypeOK, [Next]_vars PROVE TypeOK'
  OBVIOUS
<1> USE DEF Next, Main, Args, Find, Open, Rodata, Filter, Load, AttachEnter, AttachExit, Attach,
        NewRing, RingErr, Loop, LoopEnds, Wait, Consume, Readable, FreeRing, Freed, Destroy,
        sig_handler, Process, Return, Fail, lib, env, vars, Pid
<1>1. avail' \in 0..RingMax
  BY MainAssumption DEF TypeOK
<1>2. pc' \in Labels
  BY DEF TypeOK, Labels
<1>3. err' \in Errs /\ status' \in Statuses
  BY DEF TypeOK, Errs, Statuses, ExitStatus
<1>4. skel' \in {"null", "open", "loaded"} /\ rodata' \in {0, 1}
  BY DEF TypeOK
<1>5. links' \subseteq Both
  BY DEF TypeOK, Both
<1>6. proc' \in {"absent", "alive"}
  BY DEF TypeOK
<1>7. exiting' \in BOOLEAN /\ rb' \in BOOLEAN /\ failed' \in BOOLEAN
  <2>1. exiting' = exiting \/ exiting' = TRUE
    OBVIOUS
  <2>2. rb' = rb \/ rb' = TRUE \/ rb' = FALSE
    OBVIOUS
  <2>3. failed' = failed \/ failed' = TRUE
    OBVIOUS
  <2> QED
    BY <2>1, <2>2, <2>3, Zenon DEF TypeOK
<1> QED
  BY <1>1, <1>2, <1>3, <1>4, <1>5, <1>6, <1>7, Zenon DEF TypeOK

(* ... and what main holds.                                                 *)
LEMMA MainHolds == TypeOK /\ Held /\ [Next]_vars => Held'
<1> SUFFICES ASSUME TypeOK, Held, [Next]_vars PROVE Held'
  OBVIOUS
<1> USE DEF Held, AttachedIsFiltered, EverythingReleased, BeforeOpen, BeforeLoad,
        BeforeAttach, Polling, Both, Pid, lib, env, Return, Fail
<1>1. CASE Args
  BY <1>1 DEF Args
<1>2. CASE Find
  BY <1>2 DEF Find
<1>3. CASE Open
  BY <1>3 DEF Open
<1>4. CASE Rodata
  BY <1>4 DEF Rodata, Filter
<1>5. CASE Load
  BY <1>5 DEF Load
<1>6. CASE AttachEnter
  BY <1>6 DEF AttachEnter, Attach
<1>7. CASE AttachExit
  BY <1>7 DEF AttachExit, Attach
<1>8. CASE NewRing
  BY <1>8 DEF NewRing, RingErr
<1>9. CASE Loop
  BY <1>9 DEF Loop, LoopEnds
<1>10. CASE Wait
  BY <1>10 DEF Wait
<1>11. CASE Consume
  BY <1>11 DEF Consume, Readable
<1>12. CASE FreeRing
  BY <1>12 DEF FreeRing, Freed
<1>13. CASE Destroy
  BY <1>13 DEF Destroy, ExitStatus
<1>14. CASE sig_handler
  BY <1>14 DEF sig_handler
<1>15. CASE Process
  BY <1>15 DEF Process
<1>16. CASE UNCHANGED vars
  BY <1>16 DEF vars
<1> QED
  BY <1>1, <1>2, <1>3, <1>4, <1>5, <1>6, <1>7, <1>8, <1>9, <1>10, <1>11, <1>12, <1>13, <1>14, <1>15, <1>16 DEF Next, Main

(* All reachable states satisfy the inductive invariant.                    *)
LEMMA MainInvariant == Spec => []MainInv
<1>1. MainInv /\ [Next]_vars => MainInv'
  BY MainTypes, MainHolds DEF MainInv
<1> QED
  BY <1>1, MainInit, PTL DEF Spec

(* Every variable of main keeps its type.                                   *)
THEOREM MainTyped == Spec => []TypeOK
<1>1. MainInv => TypeOK
  BY DEF MainInv
<1> QED
  BY <1>1, MainInvariant, PTL

(* main releases everything it has acquired, whichever call fails and       *)
(* whenever signals come.                                                   *)
THEOREM MainCleansUp == Spec => []EverythingReleased
<1>1. MainInv => EverythingReleased
  BY DEF MainInv, Held
<1> QED
  BY <1>1, MainInvariant, PTL

(* Every failed call shows in the exit status, and the status is never      *)
(* computed from an err that was not assigned.                              *)
THEOREM MainReports == Spec => []FailureReported
<1>1. MainInv => FailureReported
  BY DEF MainInv, Held, FailureReported
<1> QED
  BY <1>1, MainInvariant, PTL

(* A program is attached only to a skeleton whose filter was written.       *)
THEOREM MainFilters == Spec => []AttachedIsFiltered
<1>1. MainInv => AttachedIsFiltered
  BY DEF MainInv, Held
<1> QED
  BY <1>1, MainInvariant, PTL

-----------------------------------------------------------------------------
(***************************************************************************)
(* The safety half of StatusOfLastPoll.                                     *)
(***************************************************************************)

(* The flag is set and no poll is in progress.                              *)
PollsOver == exiting /\ pc \in {"loop", "free_ring", "destroy", "done"}

(* What a main that has ended returned: 0 only for an err of 0.             *)
StatusIsErr ==
  /\ pc \in BeforeLoad \cup {"load"} => err = "unset"
  /\ pc \in {"free_ring", "destroy"} => err # "unset"
  /\ pc = "done" =>
       \/ err = "unset" /\ status \in {"1", "killed"}
       \/ err = "zero" /\ status = "0"
       \/ err \notin {"unset", "zero"} /\ status = "1"

(* No step of main and no further signal starts another poll or assigns err *)
(* once the polls are over.                                                 *)
LEMMA PollsOverStep == [Next]_vars => [PollsOver => PollsOver' /\ err' = err]_vars
<1> SUFFICES ASSUME [Next]_vars, PollsOver PROVE PollsOver' /\ err' = err
  OBVIOUS
<1> USE DEF PollsOver, lib, env, Fail, Return
<1>1. CASE Args \/ Find \/ Open \/ Rodata \/ Load
  BY <1>1 DEF Args, Find, Open, Rodata, Load
<1>2. CASE AttachEnter \/ AttachExit \/ NewRing
  BY <1>2 DEF AttachEnter, AttachExit, Attach, NewRing
<1>3. CASE Loop \/ Wait \/ Consume
  BY <1>3 DEF Loop, LoopEnds, Wait, Consume
<1>4. CASE FreeRing \/ Destroy
  BY <1>4 DEF FreeRing, Destroy
<1>5. CASE sig_handler \/ Process
  BY <1>5 DEF sig_handler, Process
<1>6. CASE UNCHANGED vars
  BY <1>6 DEF vars
<1> QED
  BY <1>1, <1>2, <1>3, <1>4, <1>5, <1>6 DEF Next, Main

(* Every step keeps what relates the status to err.                         *)
LEMMA StatusIsErrStep == Held /\ StatusIsErr /\ [Next]_vars => StatusIsErr'
<1> SUFFICES ASSUME Held, StatusIsErr, [Next]_vars PROVE StatusIsErr'
  OBVIOUS
<1> USE DEF StatusIsErr, BeforeOpen, BeforeLoad, lib, env, Fail, Return
<1>1. CASE Args \/ Find \/ Open \/ Rodata \/ Load
  BY <1>1 DEF Args, Find, Open, Rodata, Load
<1>2. CASE AttachEnter \/ AttachExit \/ NewRing
  BY <1>2 DEF AttachEnter, AttachExit, Attach, NewRing, RingErr
<1>3. CASE Loop \/ Wait \/ Consume
  BY <1>3 DEF Loop, Wait, Consume, Held, Polling
<1>4. CASE FreeRing \/ Destroy
  BY <1>4 DEF FreeRing, Destroy, ExitStatus
<1>5. CASE sig_handler \/ Process
  BY <1>5 DEF sig_handler, Process
<1>6. CASE UNCHANGED vars
  BY <1>6 DEF vars
<1> QED
  BY <1>1, <1>2, <1>3, <1>4, <1>5, <1>6 DEF Next, Main

(* Once the flag is set outside a poll, main polls no more and err keeps    *)
(* what the last poll returned, be it an interruption, a timeout or a count *)
(* of records; and the status of a main that has ended is 0 for an err of 0 *)
(* and 1 for any other.                                                     *)
THEOREM LastPollKept ==
  Spec => [][PollsOver => PollsOver' /\ err' = err]_vars /\ []StatusIsErr
<1>1. Init => StatusIsErr
  BY DEF Init, StatusIsErr, BeforeOpen, BeforeLoad
<1>2. MainInv => Held
  BY DEF MainInv
<1> QED
  BY <1>1, <1>2, PollsOverStep, StatusIsErrStep, MainInvariant, PTL DEF Spec
=============================================================================
