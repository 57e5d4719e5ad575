------------------------- MODULE StraceKernelProofs -------------------------
(***************************************************************************)
(* The safety properties of StraceKernel hold for any threads, any size of  *)
(* inflight and of the ring buffer, and any number of calls.                *)
(***************************************************************************)
EXTENDS StraceKernelInv

(* Every step preserves the invariant.                                      *)
LEMMA NextInv == IInv /\ [Next]_vars => IInv'
<1> SUFFICES ASSUME IInv, [Next]_vars PROVE IInv'
  OBVIOUS
<1>1. CASE UNCHANGED vars
  <2>1. TypeOK' /\ FilterKept'
    BY <1>1 DEF vars, kernelVars, history, IInv, TypeOK, FilterKept, Filtered
  <2> QED
    BY <1>1, <2>1, Framed DEF vars, kernelVars, history
<1>2. CASE \E id \in Ids : Thread(id)
  BY <1>2, SysEnterInv, SysExitInv, SysDeniedInv, ThreadEndInv, ThreadStartInv,
     ExecTakeoverInv DEF Thread
<1>3. CASE \E id \in Ids : Handler(id)
  BY <1>3, ExitReserveInv, ExitDropInv, ExitSubmitInv, ExitDeleteInv DEF Handler
<1>4. CASE Consume
  BY <1>4, ConsumeInv
<1>5. CASE Lifecycle
  BY <1>5, LifecycleInv
<1> QED
  BY <1>1, <1>2, <1>3, <1>4, <1>5 DEF Next

(* The inductive invariant holds in every reachable state.                  *)
THEOREM Invariance == Spec => []IInv
BY InitInv, NextInv, PTL DEF Spec

(* Every variable of the kernel side keeps its type, for any number of      *)
(* threads and any sizes of the map and the ring.                           *)
THEOREM TypeCorrect == Spec => []TypeOK
<1>1. IInv => TypeOK
  BY DEF IInv
<1> QED
  BY Invariance, <1>1, PTL

(* handle_sys_exit never joins the result of a recorded call to the entry   *)
(* of another call.                                                         *)
THEOREM JoinCorrect == Spec => []EventJoinsOwnEntry
<1>1. IInv => EventJoinsOwnEntry
  BY DEF IInv
<1> QED
  BY Invariance, <1>1, PTL

(* Once target_tgid is set, no record of another process is reserved.       *)
THEOREM FilterCorrect == Spec => []TargetOnly
<1>1. IInv => TargetOnly
  BY DEF IInv, FilterKept, Filtered, TargetOnly
<1> QED
  BY Invariance, <1>1, PTL

(* The records of a thread carry its entries once each and in order.        *)
THEOREM OrderCorrect == Spec => []EntriesReportedInOrder
<1>1. IInv => EntriesReportedInOrder
  BY DEF IInv
<1> QED
  BY Invariance, <1>1, PTL

(* handle_sys_exit leaks no entry of inflight on any of its paths.          *)
THEOREM NoLeak == Spec => []NoLeakByHandler
<1>1. IInv => NoLeakByHandler
  BY DEF IInv, EntryOfRunningCall, NoLeakByHandler
<1> QED
  BY Invariance, <1>1, PTL

(* A stored entry ends in the ring, in a drop at a full ring, or in a call  *)
(* whose exit the program never saw.                                        *)
THEOREM NothingLostSilently == Spec => []RecordedCallAccounted
<1>1. IInv => RecordedCallAccounted
  BY DEF IInv
<1> QED
  BY Invariance, <1>1, PTL

StableStep ==
  /\ cons' >= cons
  /\ \A i \in Submitted : i \in 1..Len(log') /\ log'[i] = log[i]

(* Only the thread that reserved a record writes it, until it submits.      *)
LEMMA StepStable ==
  ASSUME IInv, Next
  PROVE  StableStep
<1> USE DEF StableStep
<1>1. TypeOK /\ BusyOwned /\ Len(log) \in Nat /\ cons \in Nat
  <2>1. TypeOK /\ BusyOwned
    BY DEF IInv
  <2>2. Len(log) \in Nat
    BY <2>1, LogTyped
  <2>3. cons \in Nat
    BY <2>1, <2>2 DEF TypeOK
  <2> QED
    BY <2>1, <2>2, <2>3
<1>2. CASE cons' = cons /\ log' = log
  BY <1>1, <1>2 DEF Submitted
<1>3. CASE Consume
  BY <1>1, <1>3 DEF Consume, Ready, Submitted
<1>4. ASSUME NEW id \in Ids, ExitReserve(id) PROVE StableStep
  <2> DEFINE r == [id |-> id, busy |-> TRUE, enter |-> 0, ret |-> 0]
  <2>1. cons' = cons /\ (log' = log \/ log' = Append(log, r))
    BY <1>4 DEF ExitReserve, NewSlot, AfterFull
  <2>2. r \in Records /\ log \in Seq(Records)
    BY <1>1 DEF Records, TypeOK
  <2> HIDE DEF r
  <2>3. CASE log' = Append(log, r)
    BY <1>1, <2>1, <2>2, <2>3, AppendProperties DEF Submitted
  <2> QED
    BY <1>2, <2>1, <2>3
<1>5. ASSUME NEW id \in Ids, ExitSubmit(id) PROVE StableStep
  <2> DEFINE r == [id |-> id, busy |-> FALSE, enter |-> inflight[id], ret |-> call[id]]
  <2>1. cons' = cons /\ log' = [log EXCEPT ![slot[id]] = r]
    BY <1>5 DEF ExitSubmit, Filled
  <2>2. r \in Records /\ log \in Seq(Records)
    BY <1>1 DEF Records, TypeOK
  <2>3. slot[id] \in 1..Len(log) /\ slot[id] \notin Submitted
    BY <1>1, <1>5 DEF BusyOwned, ExitSubmit, Filled, Submitted
  <2> HIDE DEF r
  <2> QED
    BY <1>1, <2>1, <2>2, <2>3, ExceptSeq DEF Submitted
<1>6. ASSUME NEW id \in Ids, Thread(id) \/ ExitDrop(id) \/ ExitDelete(id)
      PROVE  cons' = cons /\ log' = log
  BY <1>6 DEF Thread, SysEnter, SysExit, SysDenied, ThreadEnd, ThreadStart,
              ExecTakeover, ExitDrop, DropDelete, ExitDelete, SubmitDelete
<1>7. Lifecycle => cons' = cons /\ log' = log
  BY DEF Lifecycle, SetTarget, Writable, AttachEnter, AttachExit, DetachEnter,
         DetachExit, SetLife
<1> QED
  BY <1>2, <1>3, <1>4, <1>5, <1>6, <1>7 DEF Next, Handler

(* What the consumer has been shown does not change afterwards.             *)
THEOREM SubmittedNeverRewritten == Spec => SubmittedStable
<1>1. IInv /\ [Next]_vars => [StableStep]_vars
  BY StepStable
<1>2. [][StableStep]_vars => SubmittedStable
  BY DEF SubmittedStable, StableStep
<1> QED
  BY Invariance, <1>1, <1>2, PTL DEF Spec
-----------------------------------------------------------------------------
(***************************************************************************)
(* The programs implement TraceLog.                                         *)
(***************************************************************************)

(* The consumer stays behind the busy records, and the calls have a bound.  *)
Bounded ==
  /\ calls <= MaxCalls
  /\ \A i \in 1..cons : ~log[i].busy

(* It holds at first ...                                                    *)
LEMMA BoundedInit == Init => Bounded
BY KernelAssumption DEF Init, Bounded

(* ... and handle_event is only ever given submitted records.               *)
LEMMA BoundedStep == IInv /\ Bounded /\ [Next]_vars => Bounded'
<1> SUFFICES ASSUME IInv, Bounded, Next PROVE Bounded'
  BY DEF Bounded, vars, kernelVars
<1>1. /\ calls \in Nat /\ cons \in 0..Len(log) /\ Len(log) \in Nat
      /\ \A i \in 1..cons : i \in Submitted
  BY LogTyped DEF IInv, TypeOK, Bounded, Submitted
<1>2. calls' = calls \/ (calls < MaxCalls /\ calls' = calls + 1)
  BY DEF Next, Thread, SysEnter, SysExit, SysDenied, ThreadEnd,
     ThreadStart, ExecTakeover, Handler, ExitReserve, ExitDrop, ExitSubmit, ExitDelete,
     Consume, Lifecycle, SetTarget, AttachEnter, AttachExit, DetachEnter, DetachExit, SetLife
<1>3. \A i \in 1..cons : ~log'[i].busy
  BY <1>1, StepStable DEF StableStep, Submitted
<1>4. cons' = cons \/ (cons' = cons + 1 /\ log' = log /\ ~log[cons + 1].busy)
  BY DEF Next, Thread, SysEnter, SysExit, SysDenied, ThreadEnd,
     ThreadStart, ExecTakeover, Handler, ExitReserve, ExitDrop, ExitSubmit, ExitDelete,
     Consume, Ready, Lifecycle, SetTarget, AttachEnter, AttachExit, DetachEnter, DetachExit, SetLife
<1> QED
  BY <1>1, <1>2, <1>3, <1>4, KernelAssumption DEF Bounded

OpenCall(id) == IF thr[id] = "delete" THEN 0 ELSE inflight[id]

(* A step that leaves the filter, the ring and the open calls alone is a    *)
(* step in which nothing happens to the log.                                *)
LEMMA LogStutter ==
  ASSUME target' = target, recorded' = recorded, log' = log, cons' = cons,
         \A id \in Ids : OpenCall(id)' = OpenCall(id)
  PROVE  UNCHANGED TL!vars
<1>1. Traced' = Traced
  BY DEF Traced, Filtered
<1>2. OpenCalls' = OpenCalls
  BY DEF OpenCalls, OpenCall
<1>3. Submitted' = Submitted /\ \A i : Line(i)' = Line(i)
  BY DEF Submitted, Line
<1>4. Pending' = Pending /\ Printed' = Printed
  BY <1>3 DEF Pending, Printed
<1> QED
  BY <1>1, <1>2, <1>4 DEF TL!vars

(* The entry, when handle_sys_enter stores it, opens a call.                *)
LEMMA EnterBegins ==
  ASSUME IInv, NEW id \in Ids, SysEnter(id)
  PROVE  [TL!Next]_(TL!vars)
<1>1. /\ thr[id] = "user" /\ thr' = [thr EXCEPT ![id] = "kernel"]
      /\ target' = target /\ log' = log /\ cons' = cons
      /\ calls < MaxCalls
  BY DEF SysEnter, Goto
<1>2. /\ thr \in [Ids -> Places] /\ inflight \in [Ids -> Nat] /\ calls \in Nat
      /\ recorded \subseteq Ids \X (1..calls)
  BY DEF IInv, TypeOK, Numbered
<1>3. CASE recorded' = recorded /\ inflight' = inflight
  BY <1>1, <1>2, <1>3, LogStutter DEF OpenCall
<1>4. CASE /\ recorded' = recorded \cup {<<id, calls + 1>>} /\ ~Filtered(id)
           /\ inflight' = [inflight EXCEPT ![id] = calls + 1]
  <2>1. OpenCalls' = [OpenCalls EXCEPT ![id] = calls + 1]
    BY <1>1, <1>2, <1>4 DEF OpenCalls
  <2>2. Traced' = Traced /\ id \in Traced
    BY <1>1, <1>4 DEF Traced, Filtered
  <2>3. Pending' = Pending /\ Printed' = Printed
    BY <1>1 DEF Pending, Printed, Submitted, Line
  <2>4. calls + 1 \in 0..MaxCalls /\ calls + 1 # 0
    BY <1>1, <1>2, KernelAssumption
  <2>5. \A b \in recorded : b[1] = id => b[2] < calls + 1
    BY <1>2
  <2>6. TL!Begin(id, calls + 1)
    BY <1>4, <2>1, <2>2, <2>3, <2>4, <2>5 DEF TL!Begin
  <2> QED
    BY <2>4, <2>6 DEF TL!Next
<1>5. \/ recorded' = recorded /\ inflight' = inflight
      \/ /\ recorded' = recorded \cup {<<id, calls + 1>>} /\ ~Filtered(id)
         /\ inflight' = [inflight EXCEPT ![id] = calls + 1]
  BY DEF SysEnter, handle_sys_enter, Key, UpdateAny
<1> QED
  BY <1>3, <1>4, <1>5

(* Submission finishes the call, with its own result if its entry was seen. *)
LEMMA SubmitFinishes ==
  ASSUME IInv, Bounded, NEW id \in Ids, ExitSubmit(id)
  PROVE  [TL!Next]_(TL!vars)
<1> DEFINE s == slot[id]
<1>1. /\ thr[id] = "submit" /\ thr' = [thr EXCEPT ![id] = "delete"]
      /\ target' = target /\ cons' = cons /\ inflight' = inflight
      /\ recorded' = recorded /\ log' = [log EXCEPT ![s] = Filled(id)]
  BY DEF ExitSubmit, Goto, history
<1>2. /\ thr \in [Ids -> Places] /\ inflight \in [Ids -> Nat] /\ log \in Seq(Records)
      /\ call \in [Ids -> Nat] /\ calls \in Nat /\ cons \in 0..Len(log)
  BY DEF IInv, TypeOK
<1>3. s \in 1..Len(log) /\ log[s].busy
  BY <1>1 DEF IInv, BusyOwned
<1>4. Filled(id) \in Records
  BY <1>2 DEF Filled, Records
<1>5. /\ Len(log') = Len(log) /\ Len(log) \in Nat
      /\ log'[s] = Filled(id)
      /\ \A i \in 1..Len(log) : i # s => log'[i] = log[i]
  BY <1>1, <1>2, <1>3, <1>4, ExceptSeq, LogTyped DEF IInv
<1>6. cons < s
  BY <1>2, <1>3, <1>5 DEF Bounded
<1>7. Submitted' = Submitted \cup {s} /\ s \notin Submitted
  BY <1>3, <1>5 DEF Submitted, Filled
<1>8. OpenCalls' = [OpenCalls EXCEPT ![id] = 0]
  BY <1>1, <1>2 DEF OpenCalls
<1>9. OpenCalls[id] = inflight[id] /\ inflight[id] # 0
  BY <1>1 DEF IInv, EntryPresent, InHandler, OpenCalls, Absent
<1> DEFINE line == [id |-> id, enter |-> inflight[id], ret |-> call[id]]
<1>10. \A i \in 1..Len(log) : Line(i)' = IF i = s THEN line ELSE Line(i)
  BY <1>5 DEF Line, Filled
<1>11. Pending' = Pending \cup {line}
  <2>1. {j \in Submitted' : j > cons'} = {j \in Submitted : j > cons} \cup {s}
    BY <1>1, <1>6, <1>7
  <2>2. \A j \in Submitted : Line(j)' = Line(j)
    BY <1>7, <1>10 DEF Submitted
  <2>3. \A i : i = s => Line(i)' = line
    BY <1>3, <1>10
  <2> HIDE DEF line, s
  <2> QED
    BY <2>1, <2>2, <2>3 DEF Pending
<1>12. Printed' = Printed
  BY <1>1, <1>2, <1>5, <1>6, <1>10 DEF Printed
<1>13. Traced' = Traced
  BY <1>1 DEF Traced, Filtered
<1>14. <<id, call[id]>> \in recorded => call[id] = inflight[id]
  BY <1>1 DEF IInv, OwnEntry, InSyscall, InHandler
<1>15. call[id] \in 0..MaxCalls
  BY <1>2, KernelAssumption DEF IInv, Numbered, Bounded
<1>16. TL!Finish(id, call[id])
  BY <1>1, <1>8, <1>9, <1>11, <1>12, <1>13, <1>14 DEF TL!Finish
<1> QED
  BY <1>15, <1>16 DEF TL!Next

(* handle_event prints the oldest finished call of its thread.              *)
LEMMA ConsumeDelivers ==
  ASSUME IInv, Consume
  PROVE  [TL!Next]_(TL!vars)
<1> DEFINE n == cons + 1
<1>1. /\ cons' = n /\ log' = log /\ target' = target /\ recorded' = recorded
      /\ thr' = thr /\ inflight' = inflight
      /\ cons < Len(log) /\ ~log[n].busy
  BY DEF Consume, Ready, history
<1>2. cons \in Nat /\ Len(log) \in Nat
  BY LogTyped DEF IInv, TypeOK
<1>3. n \in Submitted /\ Submitted' = Submitted
  BY <1>1, <1>2 DEF Submitted
<1>4. {j \in Submitted : j > cons} = {j \in Submitted : j > n} \cup {n}
  BY <1>2, <1>3 DEF Submitted
<1>5. \A j \in Submitted : j > n /\ log[j].id = log[n].id => log[n].enter < log[j].enter
  BY <1>3 DEF IInv, EntriesReportedInOrder
<1>6. \A j \in Submitted : log[j].enter \in Nat /\ Line(j)' = Line(j)
  BY <1>1, LogTyped DEF IInv, Submitted, Line
<1>7. /\ Line(n) \in Pending
      /\ \A q \in Pending : q.id = Line(n).id => Line(n).enter <= q.enter
  <2>1. Line(n) \in Pending
    BY <1>3, <1>4 DEF Pending
  <2> SUFFICES ASSUME NEW q \in Pending, q.id = Line(n).id PROVE Line(n).enter <= q.enter
    BY <2>1
  <2>2. PICK j \in Submitted : j > cons /\ q = Line(j)
    BY DEF Pending
  <2>3. log[j].id = log[n].id /\ q.enter = log[j].enter /\ Line(n).enter = log[n].enter
    BY <2>2 DEF Line
  <2>4. j = n \/ j > n
    BY <1>4, <2>2
  <2> QED
    BY <1>3, <1>5, <1>6, <2>3, <2>4
<1>8. \A j \in Submitted : j > n => Line(j) # Line(n)
  <2> SUFFICES ASSUME NEW j \in Submitted, j > n, Line(j) = Line(n) PROVE FALSE
    OBVIOUS
  <2>1. log[j].id = log[n].id /\ log[j].enter = log[n].enter
    BY DEF Line
  <2> QED
    BY <1>3, <1>5, <1>6, <2>1
<1>9. Pending' = Pending \ {Line(n)}
  BY <1>1, <1>3, <1>4, <1>6, <1>8 DEF Pending
<1>10. Printed' = Append(Printed, Line(n))
  <2> DEFINE L == [id : Ids, enter : Nat, ret : Nat]
  <2>1. Printed' = [i \in 1..n |-> Line(i)]
    BY <1>1 DEF Printed, Line
  <2>2. \A i \in 1..n : Line(i) \in L
    BY <1>1, <1>2, LogTyped DEF IInv, Line
  <2> HIDE DEF L, n
  <2>3. Printed \in Seq(L) /\ Len(Printed) = cons /\ \A i \in 1..cons : Printed[i] = Line(i)
    BY <1>2, <2>2 DEF Printed, n
  <2>4. Printed' \in Seq(L) /\ Len(Printed') = n /\ \A i \in 1..n : Printed'[i] = Line(i)
    BY <1>2, <2>1, <2>2 DEF n
  <2>5. n \in 1..n /\ n = cons + 1
    BY <1>2 DEF n
  <2>6. /\ Append(Printed, Line(n)) \in Seq(L)
        /\ Len(Append(Printed, Line(n))) = n
        /\ \A i \in 1..n : Append(Printed, Line(n))[i] = Line(i)
    BY <1>2, <2>2, <2>3, <2>5, AppendProperties
  <2> QED
    BY <2>4, <2>6, SeqEqual
<1>11. Traced' = Traced /\ OpenCalls' = OpenCalls
  BY <1>1 DEF Traced, Filtered, OpenCalls
<1>12. TL!Deliver(Line(n))
  BY <1>1, <1>7, <1>9, <1>10, <1>11 DEF TL!Deliver
<1> QED
  BY <1>7, <1>12 DEF TL!Next

(* A full ring drops the call.                                              *)
LEMMA DropDrops ==
  ASSUME IInv, NEW id \in Ids, ExitDrop(id)
  PROVE  [TL!Next]_(TL!vars)
<1>1. /\ thr[id] = "drop" /\ thr' = [thr EXCEPT ![id] = "user"]
      /\ inflight' = [inflight EXCEPT ![id] = 0]
      /\ target' = target /\ cons' = cons /\ log' = log /\ recorded' = recorded
  BY DEF ExitDrop, DropDelete, DeleteElem, Absent, Goto
<1>2. thr \in [Ids -> Places] /\ inflight \in [Ids -> Nat]
  BY DEF IInv, TypeOK
<1>3. OpenCalls' = [OpenCalls EXCEPT ![id] = 0]
  BY <1>1, <1>2 DEF OpenCalls
<1>4. OpenCalls[id] # 0
  BY <1>1 DEF IInv, EntryPresent, InHandler, OpenCalls, Absent
<1>5. Traced' = Traced /\ Pending' = Pending /\ Printed' = Printed
  BY <1>1 DEF Traced, Filtered, Pending, Printed, Submitted, Line
<1>6. TL!Drop(id)
  BY <1>1, <1>3, <1>4, <1>5 DEF TL!Drop
<1> QED
  BY <1>6 DEF TL!Next

(* Steps of a thread that neither store an entry nor touch a record.        *)
LEMMA ThreadStutters ==
  ASSUME IInv, NEW id \in Ids,
         \/ SysExit(id) \/ SysDenied(id) \/ ThreadEnd(id)
         \/ ThreadStart(id) \/ ExecTakeover(id) \/ ExitDelete(id)
  PROVE  UNCHANGED TL!vars
<1>1. /\ target' = target /\ cons' = cons /\ log' = log /\ recorded' = recorded
  BY DEF SysExit, SysDenied, ThreadEnd, ThreadStart, ExecTakeover, ExitDelete, history
<1>2. thr \in [Ids -> Places] /\ inflight \in [Ids -> Nat] /\ Leader(id) \in Ids
  BY LeaderInIds DEF IInv, TypeOK
<1>3. CASE ExitDelete(id)
  <2>1. /\ thr[id] = "delete" /\ thr' = [thr EXCEPT ![id] = "user"]
        /\ inflight' = [inflight EXCEPT ![id] = 0]
    BY <1>3 DEF ExitDelete, SubmitDelete, DeleteElem, Absent, Goto
  <2> QED
    BY <1>1, <1>2, <2>1, LogStutter DEF OpenCall
<1>4. CASE ExecTakeover(id)
  <2>1. /\ thr[id] = "kernel" /\ inflight' = inflight
        /\ thr' = [thr EXCEPT ![id] = "dead", ![Leader(id)] = "kernel"]
        /\ thr[Leader(id)] # "delete"
    <3>1. Leader(id) # id /\ Tgid(Leader(id)) = Tgid(id)
          /\ \A j \in Live : Tgid(j) = Tgid(id) => j = id
      BY <1>4 DEF ExecTakeover, Leader, Tgid
    <3> QED
      BY <1>2, <1>4, <3>1 DEF ExecTakeover, Live
  <2>2. \A j \in Ids : thr'[j] # "delete" <=> thr[j] # "delete"
    BY <1>2, <2>1
  <2> QED
    BY <1>1, <2>1, <2>2, LogStutter DEF OpenCall
<1>5. CASE SysExit(id) \/ SysDenied(id) \/ ThreadEnd(id) \/ ThreadStart(id)
  <2>1. /\ inflight' = inflight /\ thr[id] # "delete"
        /\ \E p \in {"reserve", "user", "dead"} : thr' = [thr EXCEPT ![id] = p]
    BY <1>5 DEF SysExit, SysDenied, ThreadEnd, ThreadStart, handle_sys_exit, Goto
  <2>2. \A j \in Ids : thr'[j] # "delete" <=> thr[j] # "delete"
    BY <1>2, <2>1
  <2> QED
    BY <1>1, <2>1, <2>2, LogStutter DEF OpenCall
<1> QED
  BY <1>3, <1>4, <1>5

(* A reserved record is not part of the log yet.                            *)
LEMMA ReserveStutters ==
  ASSUME IInv, NEW id \in Ids, ExitReserve(id)
  PROVE  UNCHANGED TL!vars
<1> DEFINE r == [id |-> id, busy |-> TRUE, enter |-> 0, ret |-> 0]
<1>1. /\ target' = target /\ cons' = cons /\ recorded' = recorded
      /\ inflight' = inflight /\ thr[id] = "reserve"
      /\ \E p \in {"drop", "submit"} : thr' = [thr EXCEPT ![id] = p]
      /\ log' = log \/ log' = Append(log, r)
  BY DEF ExitReserve, AfterFull, Goto, history
<1>2. /\ thr \in [Ids -> Places] /\ log \in Seq(Records) /\ cons \in 0..Len(log)
      /\ Len(log) \in Nat
  BY LogTyped DEF IInv, TypeOK
<1>3. \A j \in Ids : OpenCall(j)' = OpenCall(j)
  BY <1>1, <1>2 DEF OpenCall
<1>4. CASE log' = log
  BY <1>1, <1>3, <1>4, LogStutter
<1>5. CASE log' = Append(log, r)
  <2>1. r \in Records /\ r.busy
    BY DEF Records
  <2> HIDE DEF r
  <2>2. /\ Len(log') = Len(log) + 1 /\ log'[Len(log) + 1] = r
        /\ \A i \in 1..Len(log) : log'[i] = log[i]
    BY <1>2, <1>5, <2>1, AppendProperties
  <2>3. Submitted' = Submitted
    BY <1>2, <2>1, <2>2 DEF Submitted
  <2>4. \A i \in 1..Len(log) : Line(i)' = Line(i)
    BY <2>2 DEF Line
  <2>5. Pending' = Pending
    <3>1. \A i \in Submitted : Line(i)' = Line(i)
      BY <2>4 DEF Submitted
    <3> QED
      BY <1>1, <2>3, <3>1 DEF Pending
  <2>6. Printed' = Printed
    BY <1>1, <1>2, <2>4 DEF Printed
  <2>7. Traced' = Traced /\ OpenCalls' = OpenCalls
    BY <1>1, <1>3 DEF Traced, Filtered, OpenCalls, OpenCall
  <2> QED
    BY <1>1, <2>5, <2>6, <2>7 DEF TL!vars
<1> QED
  BY <1>1, <1>4, <1>5

(* The filter is chosen before the first entry; attaching is not seen.      *)
LEMMA LifecycleChooses ==
  ASSUME IInv, Lifecycle
  PROVE  [TL!Next]_(TL!vars)
<1>1. /\ cons' = cons /\ log' = log /\ recorded' = recorded
      /\ inflight' = inflight /\ thr' = thr
      /\ target' = target \/ life = "open"
  BY DEF Lifecycle, SetTarget, Writable, AttachEnter, AttachExit, DetachEnter, DetachExit,
     SetLife, history
<1>2. CASE target' = target
  BY <1>1, <1>2, LogStutter DEF OpenCall
<1>3. CASE life = "open"
  <2>1. recorded = {}
    BY <1>3 DEF IInv, FilterKept
  <2>2. Traced' \subseteq Ids
    BY DEF Traced
  <2>3. OpenCalls' = OpenCalls /\ Pending' = Pending /\ Printed' = Printed
    BY <1>1 DEF OpenCalls, Pending, Printed, Submitted, Line
  <2>4. TL!Choose
    BY <1>1, <2>1, <2>2, <2>3 DEF TL!Choose
  <2> QED
    BY <2>4 DEF TL!Next
<1> QED
  BY <1>1, <1>2, <1>3

(* The programs, the map and the ring buffer implement the log of TraceLog, *)
(* for any threads, any sizes of the map and the ring, any number of calls. *)
THEOREM LogImplemented == Spec => ImplementsTraceLog
<1>1. Init => TL!Init
  <2> SUFFICES ASSUME Init PROVE TL!Init
    OBVIOUS
  <2>1. Traced \subseteq Ids
    BY DEF Traced
  <2>2. OpenCalls = [id \in Ids |-> 0]
    BY DEF Init, OpenCalls, Absent
  <2>3. Pending = {} /\ Printed = << >>
    BY DEF Init, Pending, Submitted, Printed
  <2> QED
    BY <2>1, <2>2, <2>3 DEF Init, TL!Init
<1>2. IInv /\ Bounded /\ [Next]_vars => [TL!Next]_(TL!vars)
  <2> SUFFICES ASSUME IInv, Bounded, [Next]_vars PROVE [TL!Next]_(TL!vars)
    OBVIOUS
  <2>1. CASE UNCHANGED vars
    BY <2>1, LogStutter DEF vars, kernelVars, history, OpenCall
  <2>2. CASE \E id \in Ids : Thread(id)
    BY <2>2, EnterBegins, ThreadStutters DEF Thread
  <2>3. CASE \E id \in Ids : Handler(id)
    BY <2>3, ReserveStutters, DropDrops, SubmitFinishes, ThreadStutters DEF Handler
  <2>4. CASE Consume \/ Lifecycle
    BY <2>4, ConsumeDelivers, LifecycleChooses
  <2> QED
    BY <2>1, <2>2, <2>3, <2>4 DEF Next
<1>3. Spec => []Bounded
  BY Invariance, BoundedInit, BoundedStep, PTL DEF Spec
<1> QED
  BY Invariance, <1>1, <1>2, <1>3, PTL DEF Spec, ImplementsTraceLog, TL!Spec
=============================================================================
