-------------------------- MODULE FindTargetProofs ---------------------------
(* Proofs about FindTarget for any number of pids and any images.           *)
EXTENDS FindTarget, TLAPS

(* Where the search stands tells what its locals hold: the pid being looked *)
(* at is one, nothing was found before the loop ends, and the history knows *)
(* every process that bears the name now.                                   *)
Scanning == pc \in {"readdir", "cmdline", "comm"}

SearchInv ==
  /\ TypeOK
  /\ pc \in {"cmdline", "comm"} => v \in Pids
  /\ pc \notin {"found", "open", "done"} => target_pid = 0
  /\ Scanning => \A p \in Pids : Bears(proc[p]) => p \in seen
  /\ FoundBoreName
  /\ TracesOnePid

(* The initial states satisfy the invariant.                                *)
LEMMA FindInit == Init => SearchInv
<1> SUFFICES ASSUME Init PROVE SearchInv
  OBVIOUS
<1>1. 0 \in 0..IntMax
  BY FindAssumption
<1>2. TypeOK
  BY <1>1, Zenon DEF Init, TypeOK
<1> QED
  BY <1>2 DEF Init, SearchInv, Scanning, FoundBoreName, TracesOnePid

(* A name that process_name_match accepts is one a process bears.           *)
LEMMA MatchBears ==
  ASSUME NEW p \in Pids,
         process_name_match(proc[p].cmdline) \/ process_name_match(proc[p].comm)
  PROVE  Bears(proc[p])
  BY DEF process_name_match, Bears

(* Every step of the search, of a signal and of the processes keeps it.     *)
LEMMA FindStep == SearchInv /\ [Next]_vars => SearchInv'
<1> SUFFICES ASSUME SearchInv, [Next]_vars PROVE SearchInv'
  OBVIOUS
<1> USE FindAssumption
<1> USE DEF SearchInv, TypeOK, Scanning, FoundBoreName, TracesOnePid, Pids, scan
<1>1. CASE Args
  BY <1>1 DEF Args, parse_pid
<1>2. CASE Opendir
  BY <1>2 DEF Opendir
<1>3. CASE OpendirFails
  BY <1>3 DEF OpendirFails
<1>4. CASE LeaveLoop
  BY <1>4 DEF LeaveLoop
<1>5. CASE Readdir
  <2>1. dir' \subseteq 0..IntMax /\ pos' \in 0..IntMax /\ v' \in 0..IntMax
    <3>1. CASE \E e \in dir : dir' = dir \ {e} /\ v' = e /\ pos' = pos
      BY <3>1
    <3>2. ASSUME NEW last \in Pids, dir' = {p \in pos + 1..last : Alive(p)},
                 pos' = last, v' = v
          PROVE  dir' \subseteq 0..IntMax /\ pos' \in 0..IntMax /\ v' \in 0..IntMax
      <4>1. \A p \in pos + 1..last : p \in 0..IntMax
        OBVIOUS
      <4> QED
        BY <3>2, <4>1
    <3> QED
      BY <1>5, <3>1, <3>2 DEF Readdir
  <2>2. pc' = "readdir" \/ (pc' = "cmdline" /\ v' \in Pids)
    BY <1>5 DEF Readdir, is_pid
  <2>3. pc = "readdir" /\ UNCHANGED <<arg, proc, target_pid, exiting, seen>>
    BY <1>5 DEF Readdir
  <2> QED
    BY <2>1, <2>2, <2>3
<1>6. CASE Closedir
  BY <1>6 DEF Closedir
<1>7. CASE Cmdline
  <2>1. process_name_match(proc[v].cmdline) => v \in seen
    BY <1>7, MatchBears DEF Cmdline
  <2> QED
    BY <1>7, <2>1 DEF Cmdline, Found
<1>8. CASE Comm
  <2>1. process_name_match(proc[v].comm) => v \in seen
    BY <1>8, MatchBears DEF Comm
  <2> QED
    BY <1>8, <2>1 DEF Comm, Found
<1>9. CASE Sleep
  BY <1>9 DEF Sleep
<1>10. CASE Check
  BY <1>10 DEF Check, GivenUp
<1>11. CASE sig_handler
  BY <1>11 DEF sig_handler
<1>12. ASSUME NEW p \in Pids, Process(p) PROVE SearchInv'
  <2>1. \A q \in Pids : q # p => proc'[q] = proc[q]
    BY <1>12 DEF Process
  <2>2. proc' \in [Pids -> Images \cup {Gone}]
    BY <1>12 DEF Process
  <2>3. seen \subseteq seen' /\ seen' \subseteq Pids /\ (Bears(proc'[p]) => p \in seen')
    BY <1>12 DEF Process
  <2>4. Scanning' => \A q \in Pids : Bears(proc'[q]) => q \in seen'
    BY <1>12, <2>1, <2>3 DEF Process
  <2> QED
    BY <1>12, <2>2, <2>3, <2>4 DEF Process
<1>13. CASE UNCHANGED vars
  BY <1>13 DEF vars
<1> QED
  BY <1>1, <1>2, <1>3, <1>4, <1>5, <1>6, <1>7, <1>8, <1>9, <1>10, <1>11, <1>12, <1>13, SMTT(30)
  DEF Next, Main

(* The invariant holds throughout.                                          *)
LEMMA FindInvariant == Spec => []SearchInv
  BY FindInit, FindStep, PTL DEF Spec

(* Whatever the processes do during a scan, the pid that find_pid_by_name   *)
(* returns bore the name during it.                                         *)
THEOREM SearchCorrect == Spec => [](TypeOK /\ FoundBoreName)
<1>1. SearchInv => TypeOK /\ FoundBoreName
  BY DEF SearchInv
<1> QED
  BY FindInvariant, <1>1, PTL

(* main goes on with a real pid only, never with 0, which the two programs  *)
(* take for every process.                                                  *)
THEOREM SearchGivesPid == Spec => []TracesOnePid
<1>1. SearchInv => TracesOnePid
  BY DEF SearchInv
<1> QED
  BY FindInvariant, <1>1, PTL
-----------------------------------------------------------------------------
(* The loop is left with a pid or after a signal: the second test of the    *)
(* check after it, target_pid <= 0, never decides.                          *)
LeftForAReason == pc = "found" => target_pid # 0 \/ exiting

(* A step of the search and of a signal keeps it.                           *)
LEMMA LeftStep == SearchInv /\ LeftForAReason /\ [Next]_vars => LeftForAReason'
<1> SUFFICES ASSUME SearchInv, LeftForAReason, [Next]_vars PROVE LeftForAReason'
  OBVIOUS
<1> USE FindAssumption DEF SearchInv, TypeOK, LeftForAReason, Pids
<1>1. CASE Cmdline \/ Comm
  BY <1>1 DEF Cmdline, Comm, Found
<1>2. CASE Args \/ Opendir \/ OpendirFails \/ LeaveLoop \/ Sleep \/ Check
  BY <1>2 DEF Args, Opendir, OpendirFails, LeaveLoop, LoopEnds, Sleep, Check
<1>3. CASE Readdir \/ Closedir
  BY <1>3 DEF Readdir, Closedir
<1>4. CASE sig_handler \/ \E p \in Pids : Process(p)
  BY <1>4 DEF sig_handler, Process
<1>5. CASE UNCHANGED vars
  BY <1>5 DEF vars
<1> QED
  BY <1>1, <1>2, <1>3, <1>4, <1>5 DEF Next, Main

(* A step of the detailed search is a step of main, of the signal handler   *)
(* or of the traced process in StraceMain, or none of its steps.            *)
LEMMA SearchStep ==
  SearchInv /\ LeftForAReason /\ [Next]_vars => [SM!Next]_(SM!vars)
<1> SUFFICES ASSUME SearchInv, LeftForAReason, [Next]_vars PROVE [SM!Next]_(SM!vars)
  OBVIOUS
<1> USE FindAssumption DEF SearchInv, TypeOK, Pids, SM!vars, SM!lib, SM!env
<1>1. CASE Args
  <2>1. MainPc' = MainPc /\ exiting' = exiting /\ target_pid = 0
    BY <1>1 DEF Args, MainPc, parse_pid
  <2>2. pc # "done" /\ pc' # "done"
    BY <1>1 DEF Args
  <2> QED
    BY <2>1, <2>2 DEF SM!Next, SM!Process
<1>2. CASE Cmdline \/ Comm
  <2>1. MainPc = "find" /\ MainPc' = "find" /\ exiting' = exiting /\ target_pid = 0
    BY <1>2 DEF Cmdline, Comm, Found, MainPc
  <2>2. pc # "done" /\ pc' # "done"
    BY <1>2 DEF Cmdline, Comm, Found
  <2> QED
    BY <2>1, <2>2 DEF SM!Next, SM!Process
<1>3. CASE Check
  <2>1. MainPc = "find" /\ exiting' = exiting /\ target_pid' = target_pid /\ pc # "done"
    BY <1>3 DEF Check, MainPc
  <2>2. pc' = IF exiting THEN "done" ELSE "open"
    BY <1>3 DEF Check, GivenUp, LeftForAReason
  <2>3. ~exiting => target_pid # 0
    BY <1>3 DEF Check, LeftForAReason
  <2>4. MainPc' = pc'
    BY <2>2 DEF MainPc
  <2> QED
    BY <2>1, <2>2, <2>3, <2>4 DEF SM!Next, SM!Main, SM!Find, SM!Return
<1>4. CASE Opendir \/ OpendirFails \/ LeaveLoop \/ Readdir \/ Closedir \/ Sleep
  <2>1. MainPc' = MainPc /\ exiting' = exiting /\ target_pid' = target_pid
    BY <1>4 DEF Opendir, OpendirFails, LeaveLoop, Readdir, Closedir, Sleep, MainPc
  <2>2. pc # "done" /\ pc' # "done"
    BY <1>4 DEF Opendir, OpendirFails, LeaveLoop, Readdir, Closedir, Sleep
  <2> QED
    BY <2>1, <2>2
<1>5. CASE sig_handler
  <2>1. MainPc' = MainPc /\ MainPc \in {"find", "open"} /\ target_pid' = target_pid
    BY <1>5 DEF sig_handler, MainPc
  <2>2. exiting' = TRUE /\ pc' = pc
    BY <1>5 DEF sig_handler
  <2> QED
    BY <2>1, <2>2 DEF SM!Next, SM!sig_handler
<1>6. CASE \E p \in Pids : Process(p)
  BY <1>6 DEF Process, MainPc
<1>7. CASE UNCHANGED vars
  BY <1>7 DEF vars, MainPc
<1> QED
  BY <1>1, <1>2, <1>3, <1>4, <1>5, <1>6, <1>7 DEF Next, Main

(* Scanning /proc entry by entry implements the single step that StraceMain *)
(* takes for it, so that what is shown of main holds with the real search.  *)
THEOREM SearchImplementsFind == Spec => ImplementsFind
<1>1. Init => MainPc \in {"find", "open"} /\ LeftForAReason
  BY DEF Init, MainPc, LeftForAReason
<1> QED
  BY <1>1, LeftStep, SearchStep, FindInvariant, PTL DEF Spec, ImplementsFind

(* With the real search main leaves it with a pid when no signal has come   *)
(* and ends when one has, also one between the hit and the check after the  *)
(* loop: the flag alone decides there.                                      *)
THEOREM RealSearchEnds ==
  Spec => [][MainPc = "find" /\ MainPc' # "find" => (MainPc' = "done" <=> exiting)]_(SM!vars)
<1> DEFINE A == MainPc = "find" /\ MainPc' # "find" => (MainPc' = "done" <=> exiting)
<1>1. SearchInv /\ LeftForAReason /\ [Next]_vars => [A]_(SM!vars)
  <2> SUFFICES ASSUME SearchInv, LeftForAReason, [SM!Next]_(SM!vars) PROVE [A]_(SM!vars)
    BY SearchStep
  <2> QED
    BY DEF SM!Next, SM!Main, SM!Args, SM!Find, SM!Return, SM!Open, SM!Rodata,
       SM!Load, SM!AttachEnter, SM!AttachExit, SM!Attach, SM!NewRing, SM!Loop, SM!Wait,
       SM!Consume, SM!FreeRing, SM!Destroy, SM!sig_handler, SM!Process
<1>2. Init => LeftForAReason
  BY DEF Init, LeftForAReason
<1> QED
  BY <1>1, <1>2, LeftStep, FindInvariant, PTL DEF Spec
=============================================================================
