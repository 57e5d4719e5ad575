--------------------------- MODULE LibbpfSoProofs ----------------------------
(***************************************************************************)
(* The safety properties of LibbpfSo for any threads, any size of the ring  *)
(* and any number of calls.  The argument has two halves: what main holds   *)
(* at every label (MainHeld), and which record belongs to which call        *)
(* (Records).                                                               *)
(***************************************************************************)
EXTENDS LibbpfSo, SequenceTheorems, TLAPS

Record == [by : Threads, busy : BOOLEAN, of : 0..MaxCalls, name : {"none", "filename", "<failed>"}]

BeforeRing == {"setrlimit", "load", "attach", "new_ring"}
Polling == {"sigint", "sigterm", "loop", "wait", "consume"}

(* What main holds at every label, and what err can be there.               *)
MainHeld ==
  /\ pc \in {"setrlimit", "load"} => held = {}
  /\ pc = "attach" => held = {"skel"}
  /\ pc = "new_ring" => held = {"skel", "link"}
  /\ pc \in Polling => held = Resources
  /\ pc \in {"free_link", "free_skel"} => "rb" \notin held
  /\ pc = "free_skel" => "link" \notin held
  /\ ReleasedInReverse
  /\ pc \in BeforeRing => err = "unset" /\ failed = "no" /\ cons = 0
  /\ pc \in Polling => failed = "no"
  /\ pc \in Polling \ {"consume"} /\ err = "unset" => cons = 0
  /\ UnsetOnlyKnownCases

(* A busy record belongs to the one thread that is filling it, and a call   *)
(* has at most one record.                                                  *)
Records ==
  /\ log \in Seq(Record)
  /\ \A t \in Threads : call[t] <= calls
  /\ \A t \in Threads : at[t] # "user" => call[t] # 0
  /\ \A t, u \in Threads : at[t] # "user" /\ at[u] # "user" /\ t # u => call[t] # call[u]
  /\ \A t \in Threads : at[t] = "submit" =>
       \E i \in 1..Len(log) : log[i].busy /\ log[i].by = t
  /\ \A i \in 1..Len(log) :
       /\ log[i].busy => at[log[i].by] = "submit" /\ log[i].of = 0
       /\ log[i].of <= calls
       /\ \A t \in Threads : at[t] # "user" => log[i].of # call[t]
  /\ \A i, j \in 1..Len(log) :
       log[i].busy /\ log[j].busy /\ log[i].by = log[j].by => i = j
  /\ CallsAccounted

SoInv == TypeOK /\ MainHeld /\ Records

(* Nothing is held and nothing recorded when main starts.                   *)
LEMMA SoInit == Init => SoInv
<1> SUFFICES ASSUME Init PROVE SoInv
  OBVIOUS
<1>1. 0 \in 0..MaxCalls /\ Len(<< >>) = 0 /\ 0 \in 0..0 /\ << >> \in Seq(Record)
  BY SoAssumption
<1>2. TypeOK
  <2>1. cons \in 0..Len(log)
    BY <1>1 DEF Init
  <2> QED
    BY <1>1, <2>1, Zenon DEF Init, TypeOK, Labels, Errs
<1>3. MainHeld
  BY DEF Init, MainHeld, BeforeRing, Polling, ReleasedInReverse, UnsetOnlyKnownCases, Cleanup
<1>4. Records
  BY <1>1 DEF Init, Records, CallsAccounted
<1> QED
  BY <1>2, <1>3, <1>4 DEF SoInv
-----------------------------------------------------------------------------
(* Every statement of main and the handler keep what is held.               *)
LEMMA MainKeepsHeld ==
  ASSUME TypeOK, MainHeld, Main \/ (\E sig \in Signals : sig_handler(sig))
  PROVE  MainHeld'
<1> USE DEF MainHeld, BeforeRing, Polling, ReleasedInReverse, UnsetOnlyKnownCases, Cleanup,
        Resources, MainOnly
<1>1. CASE Setrlimit
  BY <1>1 DEF Setrlimit, Early
<1>2. CASE OpenAndLoad
  BY <1>2 DEF OpenAndLoad, Early
<1>3. CASE AttachUprobe
  BY <1>3 DEF AttachUprobe, AttachErr
<1>4. CASE NewRing
  BY <1>4 DEF NewRing
<1>5. CASE InstallHandlers
  BY <1>5 DEF InstallHandlers
<1>6. CASE Loop
  BY <1>6 DEF Loop, LoopEnds
<1>7. CASE Wait
  BY <1>7 DEF Wait
<1>8. CASE Consume
  BY <1>8 DEF Consume
<1>9. CASE FreeRing
  BY <1>9 DEF FreeRing, Release
<1>10. CASE DestroyLink
  BY <1>10 DEF DestroyLink, Release
<1>11. CASE Destroy
  <2>1. held' = {}
    BY <1>11 DEF Destroy, TypeOK
  <2> QED
    BY <1>11, <2>1 DEF Destroy
<1>12. ASSUME NEW sig \in Signals, sig_handler(sig) PROVE MainHeld'
  BY <1>12 DEF sig_handler
<1> QED
  BY <1>1, <1>2, <1>3, <1>4, <1>5, <1>6, <1>7, <1>8, <1>9, <1>10, <1>11, <1>12 DEF Main
-----------------------------------------------------------------------------
(* Every step keeps the types.                                              *)
LEMMA SoTypes == SoInv /\ [Next]_vars => TypeOK'
<1> SUFFICES ASSUME TypeOK, MainHeld, Records, [Next]_vars PROVE TypeOK'
  BY DEF SoInv
<1>0. \A t \in Threads : at[t] = "reserve" => call[t] \in 1..MaxCalls
  BY SoAssumption DEF Records, TypeOK
<1> DEFINE Entered(t) == /\ calls < MaxCalls /\ calls' = calls + 1
                         /\ call' = [call EXCEPT ![t] = calls + 1]
           Reserved(t) == \E r : log' = Append(log, r)
           Submitted(t) == \E r : log' = [log EXCEPT ![Slot(t)] = r]
<1>a. UNCHANGED <<calls, call>> \/ \E t \in Threads : Entered(t)
  BY DEF Next, Main, Setrlimit, OpenAndLoad, Early, AttachUprobe, NewRing,
     InstallHandlers, Loop, Wait, Consume, FreeRing, DestroyLink, Release, Destroy,
     sig_handler, Dlopen, Program, Reserve, Submit, MainOnly, mainVars, progVars, vars
<1>b. log' = log \/ \E t \in Threads : Reserved(t) \/ Submitted(t)
  BY DEF Next, Main, Setrlimit, OpenAndLoad, Early, AttachUprobe, NewRing,
     InstallHandlers, Loop, Wait, Consume, FreeRing, DestroyLink, Release, Destroy,
     sig_handler, Dlopen, Program, Reserve, Submit, MainOnly, mainVars, progVars, vars
<1>6. calls' \in 0..MaxCalls
  BY <1>a, SoAssumption DEF TypeOK
<1>7. call' \in [Threads -> 0..MaxCalls]
  BY <1>a, SoAssumption DEF TypeOK
<1>c. Len(log) \in Nat /\ Len(log') \in Nat /\ Len(log') >= Len(log)
  BY <1>b DEF Records
<1> HIDE DEF Entered, Reserved, Submitted
<1> USE DEF Next, Main, Setrlimit, OpenAndLoad, Early, AttachUprobe, AttachErr, NewRing,
        InstallHandlers, Loop, LoopEnds, Wait, Consume, FreeRing, DestroyLink, Release, Destroy,
        sig_handler, Dlopen, Program, Reserve, Submit, MainOnly, mainVars, progVars, vars
<1>1. pc' \in Labels
  BY DEF TypeOK, Labels
<1>d. failed' \in Labels \cup {"no"}
  <2>1. failed' = failed \/ failed' = pc
    OBVIOUS
  <2> QED
    BY <2>1 DEF TypeOK
<1>2. err' \in Errs
  BY DEF TypeOK, Errs
<1>3. status' \in {"running", "killed", "0", "1"}
  BY DEF TypeOK, ReturnValues
<1>4. held' \subseteq Resources /\ handled' \subseteq Signals
  BY DEF TypeOK, Resources, Signals
<1>5. exiting' \in BOOLEAN
  <2>1. exiting' = exiting \/ exiting' = TRUE
    BY DEF TypeOK
  <2> QED
    BY <2>1, Zenon DEF TypeOK
<1>8. at' \in [Threads -> {"user", "reserve", "submit"}]
  BY DEF TypeOK
<1>9. cons' \in 0..Len(log')
  <2>2. cons' = cons \/ (cons' = cons + 1 /\ cons < Len(log))
    BY DEF Ready
  <2>3. cons \in 0..Len(log)
    BY DEF TypeOK
  <2> QED
    BY ONLY <1>c, <2>2, <2>3
<1>10. lost' \subseteq 1..MaxCalls
  BY <1>0, ZenonT(30) DEF TypeOK
<1> QED
  BY <1>1, <1>2, <1>3, <1>4, <1>5, <1>6, <1>7, <1>8, <1>9, <1>10, <1>d, Zenon DEF TypeOK
-----------------------------------------------------------------------------
(* The types of the records and of the numbers.                             *)
LEMMA LogTyped ==
  ASSUME TypeOK, Records
  PROVE  /\ Len(log) \in Nat /\ calls \in Nat /\ \A t \in Threads : call[t] \in Nat
         /\ \A i \in 1..Len(log) : log[i].of \in Nat /\ log[i].by \in Threads
<1>1. log \in Seq(Record)
  BY DEF Records
<1>2. \A i \in 1..Len(log) : log[i] \in Record
  BY <1>1
<1>3. \A x \in Record : x.of \in Nat /\ x.by \in Threads
  BY SoAssumption DEF Record
<1>4. calls \in Nat /\ \A t \in Threads : call[t] \in Nat
  BY SoAssumption DEF TypeOK
<1> QED
  BY <1>1, <1>2, <1>3, <1>4

(* A call gets a new number.                                                *)
LEMMA DlopenKeepsRecords ==
  ASSUME TypeOK, Records, NEW t \in Threads, Dlopen(t)
  PROVE  Records'
<1> USE DEF Dlopen
<1>1. /\ calls \in Nat /\ calls' = calls + 1 /\ call'[t] = calls + 1 /\ at'[t] = "reserve"
      /\ \A u \in Threads : u # t => call'[u] = call[u] /\ at'[u] = at[u]
      /\ \A u \in Threads : call[u] \in Nat /\ call[u] <= calls
      /\ log' = log /\ cons' = cons /\ lost' = lost /\ at[t] = "user"
  BY SoAssumption DEF TypeOK, Records
<1>2. \A i \in 1..Len(log) : log[i].of \in Nat /\ log[i].by \in Threads
  BY LogTyped
<1>3. CallsAccounted'
  <2>1. \A c \in 1..calls' : c \in 1..calls \/ c = calls + 1
    BY <1>1
  <2> QED
    BY <1>1, <2>1 DEF Records, CallsAccounted
<1> QED
  BY <1>1, <1>2, <1>3 DEF Records

(* A full ring adds the call to lost, and a ring with room gets a busy      *)
(* record of the thread.                                                    *)
LEMMA ReserveKeepsRecords ==
  ASSUME TypeOK, Records, NEW t \in Threads, Reserve(t)
  PROVE  Records'
<1> DEFINE r == [by |-> t, busy |-> TRUE, of |-> 0, name |-> "none"]
<1>0. \A place \in {"user", "submit"} : at' = [at EXCEPT ![t] = place] =>
        at'[t] = place /\ \A u \in Threads : u # t => at'[u] = at[u]
  BY DEF TypeOK
<1>1. /\ call' = call /\ calls' = calls /\ cons' = cons /\ at[t] = "reserve" /\ call[t] # 0
      /\ \A u \in Threads : u # t => at'[u] = at[u]
  BY <1>0 DEF Reserve, Records
<1>2. \A i \in 1..Len(log) : log[i].of \in Nat /\ log[i].by \in Threads
  BY LogTyped
<1>3. CASE log' = log /\ at'[t] = "user" /\ lost' = lost \cup {call[t]}
  <2>1. CallsAccounted'
    BY <1>1, <1>3 DEF Records, CallsAccounted
  <2> QED
    BY <1>1, <1>2, <1>3, <2>1, SMTT(30) DEF Records
<1>4. CASE log' = Append(log, r) /\ at'[t] = "submit" /\ lost' = lost
  <2>1. r \in Record /\ log \in Seq(Record) /\ Len(log) \in Nat
    <3>1. 0 \in 0..MaxCalls
      BY SoAssumption
    <3> QED
      BY <3>1, LogTyped DEF Records, Record
  <2>2. /\ log' \in Seq(Record) /\ Len(log') = Len(log) + 1
        /\ log'[Len(log) + 1] = r
        /\ \A i \in 1..Len(log) : log'[i] = log[i]
    BY <1>4, <2>1, AppendProperties
  <2>3. \A i \in 1..Len(log) : log[i].busy => log[i].by # t
    BY <1>1, <1>2 DEF Records
  <2>4. \A i \in 1..Len(log') : i \in 1..Len(log) \/ i = Len(log) + 1
    BY <2>1, <2>2
  <2>5. r.busy /\ r.by = t /\ r.of = 0
    OBVIOUS
  <2> HIDE DEF r
  <2>6. CallsAccounted'
    <3>1. cons \in 0..Len(log)
      BY DEF TypeOK
    <3>2. \A i \in 1..cons' : ~log'[i].busy
      BY <1>1, <2>1, <2>2, <3>1 DEF Records, CallsAccounted
    <3>3. \A c \in 1..calls' :
            \/ c \in lost'
            \/ \E u \in Threads : at'[u] # "user" /\ call'[u] = c
            \/ \E i \in 1..Len(log') : log'[i].of = c /\ ~log'[i].busy
      BY <1>1, <1>4, <2>1, <2>2 DEF Records, CallsAccounted
    <3>4. \A i, j \in 1..Len(log') : i # j /\ log'[i].of = log'[j].of => log'[i].of = 0
      BY <2>2, <2>4, <2>5 DEF Records, CallsAccounted
    <3> QED
      BY <3>2, <3>3, <3>4 DEF CallsAccounted
  <2>7. \A u \in Threads : at'[u] = "submit" =>
          \E i \in 1..Len(log') : log'[i].busy /\ log'[i].by = u
    <3>1. Len(log) + 1 \in 1..Len(log')
      BY <2>1, <2>2
    <3>2. \A i \in 1..Len(log) : i \in 1..Len(log')
      BY <2>1, <2>2
    <3> QED
      BY <1>1, <2>2, <2>5, <3>1, <3>2 DEF Records
  <2>8. \A i \in 1..Len(log') :
          /\ log'[i].busy => at'[log'[i].by] = "submit" /\ log'[i].of = 0
          /\ log'[i].of <= calls
          /\ \A u \in Threads : at'[u] # "user" => log'[i].of # call[u]
    <3>1. calls \in Nat /\ \A u \in Threads : at'[u] # "user" => at[u] # "user"
      BY <1>1, SoAssumption DEF TypeOK
    <3> QED
      BY <1>1, <1>2, <1>4, <2>2, <2>3, <2>4, <2>5, <3>1 DEF Records
  <2>9. \A i, j \in 1..Len(log') :
          log'[i].busy /\ log'[j].busy /\ log'[i].by = log'[j].by => i = j
    BY <2>2, <2>3, <2>4, <2>5 DEF Records
  <2> QED
    BY <1>1, <2>2, <2>6, <2>7, <2>8, <2>9 DEF Records
<1> QED
  BY <1>0, <1>3, <1>4 DEF Reserve

(* The thread fills its own record, which thereby becomes the one of its    *)
(* call.                                                                    *)
LEMMA SubmitKeepsRecords ==
  ASSUME TypeOK, Records, NEW t \in Threads, Submit(t)
  PROVE  Records'
<1> DEFINE k == Slot(t)
<1>0. at[t] = "submit" /\ call[t] # 0 /\ call[t] <= calls
  BY DEF Submit, Records
<1>1. k \in 1..Len(log) /\ log[k].busy /\ log[k].by = t
  BY <1>0 DEF Records, Slot
<1>2. PICK n \in {"filename", "<failed>"} : log' = [log EXCEPT ![k] = Filled(t, n)]
  BY DEF Submit
<1> DEFINE r == Filled(t, n)
<1>3. r \in Record /\ r.by = t /\ ~r.busy /\ r.of = call[t]
  BY DEF Filled, Record, TypeOK
<1> HIDE DEF k, r
<1>4. /\ log' \in Seq(Record) /\ Len(log') = Len(log) /\ log'[k] = r
      /\ \A i \in 1..Len(log) : i # k => log'[i] = log[i]
  BY <1>1, <1>2, <1>3, ExceptSeq DEF Records, r
<1>5. /\ call' = call /\ calls' = calls /\ cons' = cons /\ lost' = lost
      /\ at'[t] = "user" /\ \A u \in Threads : u # t => at'[u] = at[u]
  BY DEF Submit, TypeOK
<1>6. /\ Len(log) \in Nat /\ calls \in Nat /\ \A u \in Threads : call[u] \in Nat
      /\ \A i \in 1..Len(log) : log[i].of \in Nat /\ log[i].by \in Threads
  BY LogTyped
<1>7. \A i \in 1..Len(log) : i # k /\ log[i].busy => log[i].by # t
  BY <1>1 DEF Records
<1>8. CallsAccounted'
  <2>1. \A c \in 1..calls' :
          \/ c \in lost'
          \/ \E u \in Threads : at'[u] # "user" /\ call'[u] = c
          \/ \E i \in 1..Len(log') : log'[i].of = c /\ ~log'[i].busy
    <3> SUFFICES ASSUME NEW c \in 1..calls,
                        c \notin lost,
                        \A u \in Threads : at'[u] # "user" => call[u] # c
                 PROVE  \E i \in 1..Len(log) : log'[i].of = c /\ ~log'[i].busy
      BY <1>4, <1>5
    <3>1. CASE call[t] = c
      BY <1>1, <1>3, <1>4, <3>1
    <3>2. CASE \E i \in 1..Len(log) : log[i].of = c /\ ~log[i].busy
      BY <1>1, <1>4, <3>2
    <3> QED
      BY <1>5, <3>1, <3>2 DEF Records, CallsAccounted
  <2>2. \A i \in 1..cons' : ~log'[i].busy
    <3>1. \A i \in 1..cons : i \in 1..Len(log)
      BY <1>6 DEF TypeOK
    <3> QED
      BY <1>3, <1>4, <1>5, <3>1 DEF Records, CallsAccounted
  <2>3. \A i, j \in 1..Len(log') : i # j /\ log'[i].of = log'[j].of => log'[i].of = 0
    BY <1>0, <1>1, <1>3, <1>4, SMTT(30) DEF Records, CallsAccounted
  <2> QED
    BY <2>1, <2>2, <2>3 DEF CallsAccounted
<1>9. \A u \in Threads : at'[u] = "submit" =>
        \E i \in 1..Len(log') : log'[i].busy /\ log'[i].by = u
  BY <1>1, <1>4, <1>5, SMTT(30) DEF Records
<1>10. \A i \in 1..Len(log') :
         /\ log'[i].busy => at'[log'[i].by] = "submit" /\ log'[i].of = 0
         /\ log'[i].of <= calls
         /\ \A u \in Threads : at'[u] # "user" => log'[i].of # call[u]
  <2> SUFFICES ASSUME NEW i \in 1..Len(log)
               PROVE  /\ log'[i].busy => at'[log'[i].by] = "submit" /\ log'[i].of = 0
                      /\ log'[i].of <= calls
                      /\ \A u \in Threads : at'[u] # "user" => log'[i].of # call[u]
    BY <1>4
  <2>1. CASE i = k
    BY <1>0, <1>3, <1>4, <1>5, <2>1, SMTT(30) DEF Records
  <2>2. CASE i # k
    <3>1. log'[i] = log[i] /\ log[i].by \in Threads
      BY <1>4, <1>6, <2>2
    <3>2. log[i].busy => at'[log[i].by] = "submit" /\ log[i].of = 0
      BY <1>5, <1>7, <2>2, <3>1 DEF Records
    <3>3. log[i].of <= calls /\ \A u \in Threads : at'[u] # "user" => log[i].of # call[u]
      BY <1>5 DEF Records
    <3> QED
      BY <3>1, <3>2, <3>3
  <2> QED
    BY <2>1, <2>2
<1>11. \A i, j \in 1..Len(log') :
         log'[i].busy /\ log'[j].busy /\ log'[i].by = log'[j].by => i = j
  BY <1>3, <1>4, SMTT(30) DEF Records
<1> QED
  BY <1>4, <1>5, <1>8, <1>9, <1>10, <1>11, SMTT(30) DEF Records

(* The consumer passes a submitted record only.                             *)
LEMMA ConsumeKeepsRecords ==
  ASSUME TypeOK, Records, Consume
  PROVE  Records'
<1>1. UNCHANGED progVars /\ (cons' = cons \/ (cons' = cons + 1 /\ Ready))
  BY DEF Consume
<1>2. \A i \in 1..cons' : ~log[i].busy
  <2>1. \A i \in 1..cons' : i \in 1..cons \/ (i = cons + 1 /\ Ready)
    BY <1>1, LogTyped DEF TypeOK
  <2> QED
    BY <2>1 DEF Records, CallsAccounted, Ready
<1> QED
  BY <1>1, <1>2 DEF Records, CallsAccounted, progVars

(* What main does besides reading records leaves them alone.                *)
LEMMA SoStep == SoInv /\ [Next]_vars => SoInv'
<1> SUFFICES ASSUME SoInv, [Next]_vars PROVE SoInv'
  OBVIOUS
<1>1. TypeOK /\ MainHeld /\ Records
  BY DEF SoInv
<1>2. TypeOK'
  BY SoTypes
<1>3. MainHeld'
  <2>1. CASE Main \/ \E sig \in Signals : sig_handler(sig)
    BY <1>1, <2>1, MainKeepsHeld
  <2>2. CASE (\E t \in Threads : Dlopen(t) \/ Program(t)) \/ UNCHANGED vars
    <3>1. UNCHANGED <<mainVars, cons>>
      BY <2>2 DEF Dlopen, Program, Reserve, Submit, vars
    <3> QED
      BY <1>1, <3>1 DEF mainVars, MainHeld, ReleasedInReverse, UnsetOnlyKnownCases
  <2> QED
    BY <2>1, <2>2 DEF Next
<1>4. Records'
  <2>1. ASSUME NEW t \in Threads, Dlopen(t) \/ Program(t) PROVE Records'
    BY <1>1, <2>1, DlopenKeepsRecords, ReserveKeepsRecords, SubmitKeepsRecords DEF Program
  <2>2. CASE Consume
    BY <1>1, <2>2, ConsumeKeepsRecords
  <2>3. CASE UNCHANGED <<progVars, cons>>
    BY <1>1, <2>3 DEF progVars, Records, CallsAccounted
  <2> QED
    BY <2>1, <2>2, <2>3
    DEF Next, Main, Setrlimit, OpenAndLoad, Early, AttachUprobe, NewRing, InstallHandlers,
        Loop, Wait, FreeRing, DestroyLink, Release, Destroy, sig_handler, MainOnly, vars
<1> QED
  BY <1>2, <1>3, <1>4 DEF SoInv

(* The invariant holds throughout.                                          *)
LEMMA SoInvariant == Spec => []SoInv
  BY SoInit, SoStep, PTL DEF Spec

(* On every path main releases what it took, each thing before what it was  *)
(* made from.                                                               *)
THEOREM SoReleases == Spec => [](TypeOK /\ ReleasedInReverse)
<1>1. SoInv => TypeOK /\ ReleasedInReverse
  BY DEF SoInv, MainHeld
<1> QED
  BY SoInvariant, <1>1, PTL

(* main reads an unassigned err in the two known cases only.                *)
THEOREM SoMainCorrect == Spec => []UnsetOnlyKnownCases
<1>1. SoInv => UnsetOnlyKnownCases
  BY DEF SoInv, MainHeld
<1> QED
  BY SoInvariant, <1>1, PTL

(* No call of android_dlopen_ext is reported twice or lost without the ring *)
(* being full, and no unfilled record reaches handle_event.                 *)
THEOREM SoCallsCorrect == Spec => []CallsAccounted
<1>1. SoInv => CallsAccounted
  BY DEF SoInv, Records
<1> QED
  BY SoInvariant, <1>1, PTL
=============================================================================
