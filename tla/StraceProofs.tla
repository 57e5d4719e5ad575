---------------------------- MODULE StraceProofs -----------------------------
(***************************************************************************)
(* libbpfstrace as a whole implements its parts: every step of Strace is a  *)
(* step or a stutter of StraceKernel and, seen by main, of StraceMain; for  *)
(* any threads and any sizes of map and ring.  So what is proved of the     *)
(* parts, each with a free environment, holds of the program.               *)
(***************************************************************************)
EXTENDS Strace, StraceKernelProofs, FiniteSetTheorems

(***************************************************************************)
(* The kernel side: main only does what StraceKernel lets user space do.    *)
(***************************************************************************)
LEMMA KernelStep == [StraceNext]_allVars => [Next]_vars
<1> SUFFICES ASSUME StraceNext PROVE [Next]_vars
  BY DEF allVars
<1>1. CASE WriteTarget
  BY <1>1, StraceAssumption DEF WriteTarget, Next, Lifecycle
<1>2. CASE AttachProgram
  BY <1>2 DEF AttachProgram, Next, Lifecycle
<1>3. CASE HandleEvent
  BY <1>3 DEF HandleEvent, Next
<1>4. CASE DetachProgram
  BY <1>4 DEF DetachProgram, Next, Lifecycle
<1>5. CASE MainAlone \/ Signal
  BY <1>5 DEF MainAlone, Signal
<1>6. CASE \E id \in Ids : Kernel(id)
  BY <1>6 DEF Kernel, Next
<1> QED
  BY <1>1, <1>2, <1>3, <1>4, <1>5, <1>6 DEF StraceNext, Main

(* The whole implements the specification of the two programs.              *)
THEOREM KernelPart == StraceSpec => Spec
<1>1. StraceInit => Init
  BY DEF StraceInit
<1> QED
  BY <1>1, KernelStep, PTL DEF StraceSpec, Spec

(* The log the user reads is the log TraceLog promises, with main's own     *)
(* attaching, polling and detaching.                                        *)
THEOREM WholeImplementsLog == StraceSpec => ImplementsTraceLog
BY KernelPart, LogImplemented, PTL
-----------------------------------------------------------------------------
(***************************************************************************)
(* Main's side: what the kernel does to the ring and to the traced process  *)
(* is what StraceMain expects.                                              *)
(***************************************************************************)
BeforeWrite == {"args", "find", "open", "rodata"}
Closing == {"destroy", "done"}

(* The ring never holds more than fits, nothing is in it and no program is  *)
(* past its lookup before sys_exit is attached, and the state of the        *)
(* programs follows the statement main has reached.                         *)
Joined ==
  /\ Len(log) - cons <= RingMax
  /\ life \in {"open", "enter"} => log = << >> /\ \A id \in Ids : thr[id] \notin InHandler
  /\ pc \notin BeforeWrite \cup {"done"} => target = Target
  /\ life # "open" => target = Target
  /\ pc \notin Closing => life \in {"open", "enter", "both"}

WholeInv == IInv /\ Bounded /\ Joined

(* The parts start together.                                                *)
LEMMA WholeInit == StraceInit => WholeInv
<1> SUFFICES ASSUME StraceInit PROVE WholeInv
  OBVIOUS
<1>1. IInv /\ Bounded
  BY InitInv, BoundedInit DEF StraceInit
<1>2. Joined
  BY KernelAssumption DEF StraceInit, Init, M!Init, Joined, BeforeWrite, Closing, InHandler
<1> QED
  BY <1>1, <1>2 DEF WholeInv

(* What a step of the threads and of handle_sys_exit leaves alone, and when *)
(* it enters the handler or appends to the ring.                            *)
LEMMA KernelFrame ==
  ASSUME IInv, NEW id \in Ids, Kernel(id)
  PROVE  /\ UNCHANGED <<life, target, cons, mainVars>>
         /\ \A j \in Ids : thr'[j] \in InHandler => thr[j] \in InHandler \/ ExitAttached
         /\ log' = log \/ (thr[id] \in InHandler /\ Len(log') = Len(log)) \/ ExitReserve(id)
<1>1. thr \in [Ids -> Places] /\ Leader(id) \in Ids /\ log \in Seq(Records)
  BY LeaderInIds DEF IInv, TypeOK
<1> USE <1>1 DEF Kernel, Goto, history
<1>2. CASE SysEnter(id)
  BY <1>2 DEF SysEnter, InHandler
<1>3. CASE SysExit(id)
  BY <1>3 DEF SysExit, handle_sys_exit, InHandler
<1>4. CASE SysDenied(id)
  BY <1>4 DEF SysDenied, handle_sys_exit, InHandler
<1>5. CASE ThreadEnd(id)
  BY <1>5 DEF ThreadEnd, InHandler
<1>6. CASE ThreadStart(id)
  BY <1>6 DEF ThreadStart, InHandler
<1>7. CASE ExecTakeover(id)
  BY <1>7 DEF ExecTakeover, InHandler
<1>8. CASE ExitReserve(id)
  BY <1>8 DEF ExitReserve, InHandler
<1>9. CASE ExitDrop(id)
  BY <1>9 DEF ExitDrop, InHandler
<1>10. CASE ExitSubmit(id)
  BY <1>10 DEF ExitSubmit, InHandler
<1>11. CASE ExitDelete(id)
  BY <1>11 DEF ExitDelete, InHandler
<1> QED
  BY <1>2, <1>3, <1>4, <1>5, <1>6, <1>7, <1>8, <1>9, <1>10, <1>11 DEF Thread, Handler

(* A step of the kernel keeps the whole together ...                        *)
LEMMA KernelJoined ==
  ASSUME WholeInv, NEW id \in Ids, Kernel(id)
  PROVE  Joined'
<1>1. IInv /\ Joined
  BY DEF WholeInv
<1>2. /\ life' = life /\ target' = target /\ cons' = cons /\ pc' = pc
      /\ \A j \in Ids : thr'[j] \in InHandler => thr[j] \in InHandler \/ ExitAttached
      /\ log' = log \/ (thr[id] \in InHandler /\ Len(log') = Len(log)) \/ ExitReserve(id)
  BY <1>1, KernelFrame DEF mainVars
<1>3. Len(log) \in Nat /\ cons \in Nat /\ log \in Seq(Records)
  BY <1>1, LogTyped DEF IInv, TypeOK
<1>4. Len(log') - cons <= RingMax
  <2>1. CASE log' = log \/ Len(log') = Len(log)
    BY <1>1, <2>1 DEF Joined
  <2>2. CASE ExitReserve(id)
    <3>1. log' = log \/ (~RingFull /\ Len(log') = Len(log) + 1)
      BY <1>3, <2>2 DEF ExitReserve
    <3> QED
      BY <1>1, <1>3, <3>1, KernelAssumption DEF Joined, RingFull
  <2> QED
    BY <1>2, <2>1, <2>2
<1>5. life \in {"open", "enter"} => log' = log /\ \A j \in Ids : thr'[j] \notin InHandler
  <2> SUFFICES ASSUME life \in {"open", "enter"}
               PROVE  log' = log /\ \A j \in Ids : thr'[j] \notin InHandler
    OBVIOUS
  <2>1. ~ExitAttached /\ \A j \in Ids : thr[j] \notin InHandler
    BY <1>1 DEF ExitAttached, Joined
  <2>2. ~ExitReserve(id)
    BY <2>1 DEF ExitReserve, InHandler
  <2> QED
    BY <1>2, <2>1, <2>2
<1> QED
  BY <1>1, <1>2, <1>4, <1>5 DEF Joined

(* ... and so does a step of main.                                          *)
LEMMA MainJoined ==
  ASSUME WholeInv, Main \/ Signal
  PROVE  Joined'
<1>1. IInv /\ Joined
  BY DEF WholeInv
<1>2. Len(log) \in Nat /\ cons \in Nat /\ cons <= Len(log) /\ target \in {0} \cup Tgids
  BY <1>1, LogTyped DEF IInv, TypeOK
<1> USE DEF M!Return, M!Fail, M!lib, M!env
<1>3. CASE WriteTarget
  BY <1>1, <1>3 DEF WriteTarget, SetTarget, M!Rodata, Joined, BeforeWrite, Closing
<1>4. CASE AttachProgram
  <2>1. /\ pc \in {"attach_enter", "attach_exit"}
        /\ pc' \in {"attach_exit", "new_ring", "free_ring"}
    BY <1>4 DEF AttachProgram, M!AttachEnter, M!AttachExit, M!Attach
  <2>2. /\ UNCHANGED <<target, thr, log, cons>>
        /\ (life = "open" /\ life' = "enter") \/ (life = "enter" /\ life' = "both")
    BY <1>4 DEF AttachProgram, AttachEnter, AttachExit, SetLife
  <2> QED
    BY <1>1, <2>1, <2>2 DEF Joined, BeforeWrite, Closing
<1>5. CASE HandleEvent
  <2>1. UNCHANGED <<life, target, thr, log>> /\ cons' = cons + 1
    BY <1>5 DEF HandleEvent, Consume
  <2>2. pc = "consume" /\ pc' \in {"consume", "loop"}
    BY <1>5 DEF HandleEvent, M!Consume
  <2> QED
    BY <1>1, <1>2, <2>1, <2>2, KernelAssumption DEF Joined, BeforeWrite, Closing
<1>6. CASE DetachProgram
  <2>1. pc = "destroy" /\ pc' \in Closing
    BY <1>6 DEF DetachProgram, M!Destroy, Closing
  <2>2. /\ UNCHANGED <<target, thr, log, cons>>
        /\ life # "open" /\ life' \in {"exit", "gone"}
    BY <1>6 DEF DetachProgram, DetachEnter, DetachExit, SetLife
  <2> QED
    BY <1>1, <2>1, <2>2 DEF Joined, BeforeWrite, Closing
<1>7. CASE MainAlone \/ Signal
  <2>1. UNCHANGED <<life, target, thr, log, cons>>
    BY <1>7 DEF MainAlone, Signal, vars, kernelVars
  <2>2. /\ pc' \notin Closing => pc \notin Closing
        /\ pc = "done" => pc' = "done"
        /\ pc \in BeforeWrite =>
             pc' \in BeforeWrite \cup {"done"} \/ (IF target' = Target THEN 1 ELSE 0) = M!Pid
    <3> USE DEF BeforeWrite, Closing
    <3>1. CASE M!Args \/ M!Find \/ M!Open
      BY <3>1 DEF M!Args, M!Find, M!Open
    <3>2. CASE M!Rodata \/ M!Load
      BY <3>2 DEF M!Rodata, M!Filter, M!Load
    <3>3. CASE M!AttachEnter \/ M!AttachExit \/ M!NewRing
      BY <3>3 DEF M!AttachEnter, M!AttachExit, M!Attach, M!NewRing
    <3>4. CASE M!Loop \/ M!Wait \/ M!Consume
      BY <3>4 DEF M!Loop, M!Wait, M!Consume
    <3>5. CASE M!FreeRing \/ M!Destroy
      BY <3>5 DEF M!FreeRing, M!Destroy
    <3>6. CASE M!sig_handler
      BY <3>6 DEF M!sig_handler
    <3> QED
      BY <1>7, <3>1, <3>2, <3>3, <3>4, <3>5, <3>6 DEF MainAlone, Signal, M!Main
  <2> QED
    BY <1>1, <2>1, <2>2 DEF Joined, M!Pid
<1> QED
  BY <1>3, <1>4, <1>5, <1>6, <1>7 DEF Main

(* The joint invariant holds in every state of the whole.                   *)
LEMMA WholeInvariant == StraceSpec => []WholeInv
<1>1. WholeInv /\ [StraceNext]_allVars => WholeInv'
  <2> SUFFICES ASSUME WholeInv, [StraceNext]_allVars PROVE WholeInv'
    OBVIOUS
  <2>1. IInv' /\ Bounded'
    BY KernelStep, NextInv, BoundedStep DEF WholeInv
  <2>2. Joined'
    <3>1. CASE UNCHANGED allVars
      BY <3>1 DEF allVars, vars, kernelVars, mainVars, WholeInv, Joined
    <3> QED
      BY <3>1, KernelJoined, MainJoined DEF StraceNext
  <2> QED
    BY <2>1, <2>2 DEF WholeInv
<1> QED
  BY <1>1, WholeInit, PTL DEF StraceSpec

(* The records poll can hand to handle_event.                               *)
ReadableRecords == {n \in cons + 1..Len(log) : \A i \in cons + 1..n : ~log[i].busy}

RingBounded == IsFiniteSet(ReadableRecords) /\ Cardinality(ReadableRecords) \in 0..RingMax

(* There are never more of them than the ring holds.                        *)
LEMMA ReadableBounded == WholeInv => RingBounded
<1> SUFFICES ASSUME WholeInv PROVE RingBounded
  OBVIOUS
<1>1. cons \in Nat /\ Len(log) \in Nat /\ cons <= Len(log) /\ Len(log) - cons <= RingMax
  BY LogTyped DEF WholeInv, IInv, TypeOK, Joined
<1>2. IsFiniteSet(cons + 1..Len(log)) /\ Cardinality(cons + 1..Len(log)) = Len(log) - cons
  <2>1. cons + 1 \in Int /\ Len(log) \in Int
    BY <1>1
  <2>2. /\ IsFiniteSet(cons + 1..Len(log))
        /\ Cardinality(cons + 1..Len(log)) =
             IF cons + 1 > Len(log) THEN 0 ELSE Len(log) - (cons + 1) + 1
    BY <2>1, FS_Interval
  <2> QED
    BY <1>1, <2>2
<1>3. ReadableRecords \in SUBSET (cons + 1..Len(log))
  BY DEF ReadableRecords
<1>4. /\ IsFiniteSet(ReadableRecords)
      /\ Cardinality(ReadableRecords) <= Cardinality(cons + 1..Len(log))
  BY <1>2, <1>3, FS_Subset
<1>5. Cardinality(ReadableRecords) \in Nat
  BY <1>4, FS_CardinalityType
<1> QED
  BY <1>1, <1>2, <1>4, <1>5, KernelAssumption DEF RingBounded

(* A step of the kernel makes records readable only by submitting one, and  *)
(* takes none away.                                                         *)
LEMMA ReadableGrows ==
  ASSUME WholeInv, NEW id \in Ids, Kernel(id)
  PROVE  /\ ReadableRecords' = ReadableRecords \/ ExitSubmit(id)
         /\ ReadableRecords \subseteq ReadableRecords'
<1>1. cons' = cons /\ log \in Seq(Records) /\ Len(log) \in Nat /\ cons \in 0..Len(log)
  BY KernelFrame, LogTyped DEF WholeInv, IInv, TypeOK
<1>2. CASE log' = log
  BY <1>1, <1>2 DEF ReadableRecords
<1>3. CASE ExitReserve(id) /\ log' # log
  <2>1. log' = Append(log, [id |-> id, busy |-> TRUE, enter |-> 0, ret |-> 0])
    BY <1>3 DEF ExitReserve
  <2>2. /\ Len(log') = Len(log) + 1 /\ \A i \in 1..Len(log) : log'[i] = log[i]
        /\ log'[Len(log) + 1].busy
    BY <1>1, <2>1
  <2>3. \A n \in ReadableRecords' : n # Len(log) + 1
    BY <1>1, <2>2 DEF ReadableRecords
  <2>4. ReadableRecords' \subseteq ReadableRecords
    BY <1>1, <2>2, <2>3 DEF ReadableRecords
  <2>5. ReadableRecords \subseteq ReadableRecords'
    BY <1>1, <2>2 DEF ReadableRecords
  <2> QED
    BY <2>4, <2>5
<1>4. CASE ExitSubmit(id)
  <2>1. log' = [log EXCEPT ![slot[id]] = Filled(id)] /\ ~Filled(id).busy
    BY <1>4 DEF ExitSubmit, Filled
  <2>2. slot[id] \in 1..Len(log)
    BY <1>4 DEF ExitSubmit, WholeInv, IInv, BusyOwned
  <2>3. Len(log') = Len(log) /\ \A i \in 1..Len(log) : ~log[i].busy => ~log'[i].busy
    BY <1>1, <2>1, <2>2
  <2> QED
    BY <1>1, <1>4, <2>3 DEF ReadableRecords
<1>5. log' = log \/ ExitReserve(id) \/ ExitSubmit(id)
  BY DEF Kernel, Thread, Handler, SysEnter, SysExit, SysDenied, ThreadEnd, ThreadStart,
         ExecTakeover, ExitDrop, ExitDelete
<1> QED
  BY <1>2, <1>3, <1>4, <1>5

(* Main sees a step of the kernel as a step of the traced process.          *)
LEMMA KernelIsProcess ==
  ASSUME WholeInv, NEW id \in Ids, Kernel(id)
  PROVE  [M!Next]_(M!vars)
<1>1. IInv /\ Joined
  BY DEF WholeInv
<1>2. UNCHANGED <<life, target, cons, pc, exiting, err, status, skel, rb, failed>>
  BY <1>1, KernelFrame DEF mainVars
<1>3. UNCHANGED Links /\ UNCHANGED (IF target = Target THEN 1 ELSE 0)
  BY <1>2 DEF Links, EnterAttached, ExitAttached
<1>4. CASE Avail' = Avail
  <2>1. Proc' = Proc \/ Proc' = IF Proc = "alive" THEN "absent" ELSE "alive"
    BY DEF Proc
  <2> QED
    BY <1>2, <1>3, <1>4, <2>1 DEF M!Next, M!Process, M!vars, M!lib
<1>5. CASE Avail' # Avail
  <2>1. pc \notin Closing
    BY <1>2, <1>5 DEF Avail, Closing
  <2>2. Avail = Cardinality(ReadableRecords) /\ Avail' = Cardinality(ReadableRecords')
    BY <1>2, <2>1 DEF Avail, ReadableRecords, Closing
  <2>3. ExitSubmit(id) /\ ReadableRecords \subseteq ReadableRecords' /\ ReadableRecords # ReadableRecords'
    BY <1>5, <2>2, ReadableGrows
  <2>4. WholeInv'
    BY KernelStep, KernelJoined, NextInv, BoundedStep DEF WholeInv, StraceNext
  <2>5. /\ Avail \in 0..RingMax /\ Avail' \in 0..RingMax
        /\ IsFiniteSet(ReadableRecords')
    <3>1. RingBounded /\ RingBounded'
      BY <2>4, ReadableBounded, PTL
    <3> QED
      BY <2>2, <3>1 DEF RingBounded
  <2>6. Avail <= Avail'
    BY <2>2, <2>3, <2>5, FS_Subset
  <2>7. Avail' \in Avail + 1..RingMax
    BY <1>5, <2>5, <2>6, KernelAssumption
  <2>8. life = "both" /\ target = Target /\ target # 0
    <3>1. thr[id] \in InHandler
      BY <2>3 DEF ExitSubmit, InHandler
    <3>2. life = "both" /\ target = Target
      BY <1>1, <2>1, <3>1 DEF Joined
    <3> QED
      BY <3>2, StraceAssumption, KernelAssumption DEF Tgids, Tgid
  <2>9. thr[id] = "submit" /\ Tgid(id) = Target
    BY <1>1, <2>3, <2>8 DEF ExitSubmit, IInv, EntryPresent, FilterKept, Filtered, InHandler
  <2>10. "exit" \in Links
    BY <2>8 DEF Links, ExitAttached
  <2>11. Proc = "alive" /\ Proc' = "alive"
    <3>1. thr'[id] = "delete"
      BY <1>1, <2>3 DEF ExitSubmit, Goto, IInv, TypeOK
    <3>2. id \in Live /\ id \in Live'
      BY <2>9, <3>1 DEF Live
    <3> QED
      BY <2>9, <3>2 DEF Proc
  <2> QED
    BY <1>2, <1>3, <2>1, <2>7, <2>10, <2>11 DEF M!Next, M!Process, M!lib, Closing
<1> QED
  BY <1>4, <1>5

(* The whole implements the specification of main: its assumptions about    *)
(* the ring and the traced process hold.                                    *)
THEOREM MainPart == StraceSpec => M!Spec
<1>1. StraceInit => M!Init
  BY DEF StraceInit
<1>2. WholeInv /\ [StraceNext]_allVars => [M!Next]_(M!vars)
  <2> SUFFICES ASSUME WholeInv, [StraceNext]_allVars PROVE [M!Next]_(M!vars)
    OBVIOUS
  <2>1. CASE Main
    <3>1. M!Main
      BY <2>1 DEF Main, WriteTarget, AttachProgram, HandleEvent, DetachProgram, MainAlone, M!Main
    <3> QED
      BY <3>1 DEF M!Next
  <2>2. CASE Signal
    BY <2>2 DEF Signal, M!Next
  <2>3. CASE \E id \in Ids : Kernel(id)
    BY <2>3, KernelIsProcess
  <2>4. CASE UNCHANGED allVars
    BY <2>4 DEF allVars, vars, kernelVars, mainVars, M!vars, Links, EnterAttached, ExitAttached,
                Avail, Proc, Live
  <2> QED
    BY <2>1, <2>2, <2>3, <2>4 DEF StraceNext
<1> QED
  BY <1>1, <1>2, WholeInvariant, PTL DEF StraceSpec, M!Spec
-----------------------------------------------------------------------------
(***************************************************************************)
(* What is proved of main alone, about main with the real kernel side.      *)
(***************************************************************************)
MP == INSTANCE StraceMainProofs WITH rodata <- IF target = Target THEN 1 ELSE 0,
        links <- Links, avail <- Avail, proc <- Proc

(* The two instances of StraceMain are the same specification.              *)
LEMMA SameMain == M!Spec => MP!Spec
<1>1. M!Init => MP!Init
  BY DEF M!Init, MP!Init
<1>2. UNCHANGED M!vars => UNCHANGED MP!vars
  BY DEF M!vars, MP!vars
<1>3. M!Next => MP!Next
  BY DEF M!Next, MP!Next, M!Main, MP!Main, M!Args, MP!Args, M!Find, MP!Find, M!Open, MP!Open,
       M!Rodata, MP!Rodata, M!Load, MP!Load, M!AttachEnter, MP!AttachEnter, M!AttachExit,
       MP!AttachExit, M!Attach, MP!Attach, M!NewRing, MP!NewRing, M!Loop, MP!Loop, M!Wait,
       MP!Wait, M!Consume, MP!Consume, M!FreeRing, MP!FreeRing, M!Destroy, MP!Destroy,
       M!sig_handler, MP!sig_handler, M!Process, MP!Process, M!Return, MP!Return, M!Fail,
       MP!Fail, M!lib, MP!lib, M!env, MP!env, M!Filter,
       MP!Filter, M!Pid, MP!Pid, M!RingErr, MP!RingErr, M!LoopEnds, MP!LoopEnds, M!Readable,
       MP!Readable, M!Freed, MP!Freed, M!ExitStatus, MP!ExitStatus
<1>4. [M!Next]_(M!vars) => [MP!Next]_(MP!vars)
  BY <1>2, <1>3
<1> QED
  BY <1>1, <1>4, PTL DEF M!Spec, MP!Spec

(* The inductive invariant of main holds with the real kernel side.         *)
LEMMA WholeMain == StraceSpec => []MP!MainInv
BY MainPart, SameMain, MP!MainInvariant, KernelAssumption, PTL

(* When main has returned, on whatever path, no program is attached, and    *)
(* the skeleton and the ring buffer manager are freed.                      *)
DetachedAtEnd == pc = "done" => life \in {"open", "gone"} /\ skel = "null" /\ ~rb

(* A failed call of main, at any moment of the trace, ends the program with *)
(* nothing attached and with status 1.                                      *)
THEOREM WholeCleansUp == StraceSpec => [](DetachedAtEnd /\ M!FailureReported)
<1>1. WholeInv /\ MP!MainInv => DetachedAtEnd /\ M!FailureReported
  <2> SUFFICES ASSUME WholeInv, MP!MainInv PROVE DetachedAtEnd /\ M!FailureReported
    OBVIOUS
  <2>1. MP!EverythingReleased /\ MP!Held
    BY DEF MP!MainInv, MP!Held
  <2>2. Links = {} => life \in {"open", "gone"}
    BY DEF Links, EnterAttached, ExitAttached, WholeInv, IInv, TypeOK, Lives
  <2>3. DetachedAtEnd
    BY <2>1, <2>2 DEF MP!EverythingReleased, DetachedAtEnd
  <2>4. M!FailureReported
    BY <2>1 DEF MP!Held, M!FailureReported
  <2> QED
    BY <2>3, <2>4
<1> QED
  BY <1>1, WholeInvariant, WholeMain, PTL

(* The tool reports the process it was asked to trace and no other: every   *)
(* record of the ring, from the first attached program to the last one      *)
(* detached, is of a thread of the process main was given or has found.     *)
OnlyTargetReported ==
  /\ life # "open" => target = Target
  /\ \A i \in 1..Len(log) : Tgid(log[i].id) = Target

(* main's write of the filter, its order against the attachments, and the   *)
(* filter of the two programs together keep other processes out.            *)
THEOREM WholeFilters == StraceSpec => []OnlyTargetReported
<1>1. WholeInv => OnlyTargetReported
  <2> SUFFICES ASSUME WholeInv PROVE OnlyTargetReported
    OBVIOUS
  <2>1. IInv /\ Joined
    BY DEF WholeInv
  <2>2. ASSUME NEW i \in 1..Len(log) PROVE Tgid(log[i].id) = Target
    <3>1. life # "open" /\ ~Filtered(log[i].id)
      BY <2>1 DEF IInv, FilterKept
    <3>2. target = Target /\ Target # 0
      BY <2>1, <3>1, StraceAssumption, KernelAssumption DEF Joined, Tgids, Tgid
    <3> QED
      BY <3>1, <3>2 DEF Filtered
  <2> QED
    BY <2>1, <2>2 DEF OnlyTargetReported, Joined
<1> QED
  BY <1>1, WholeInvariant, PTL
=============================================================================
