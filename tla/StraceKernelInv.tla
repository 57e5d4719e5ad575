-------------------------- MODULE StraceKernelInv ---------------------------
(***************************************************************************)
(* The inductive invariant of StraceKernel, that it holds initially, and    *)
(* that the steps of the threads, of handle_sys_exit, of the consumer and   *)
(* of main preserve it.                                                     *)
(***************************************************************************)
EXTENDS StraceKernel, SequenceTheorems, TLAPS

(***************************************************************************)
(* The inductive invariant, part by part.                                   *)
(***************************************************************************)

(* Call numbers are handed out in increasing order, starting with 1.        *)
Numbered ==
  /\ \A id \in Ids : call[id] <= calls /\ inflight[id] <= calls
  /\ recorded \subseteq Ids \X (1..calls)
  /\ \A i \in 1..Len(log) : log[i].enter <= calls /\ log[i].ret <= calls

(* Nothing is stored or reserved before the filter is final, and nothing    *)
(* of a filtered thread ever.                                               *)
FilterKept ==
  /\ life = "open" =>
       log = << >> /\ recorded = {} /\ \A id \in Ids : inflight[id] = Absent
  /\ \A id \in Ids : Filtered(id) => inflight[id] = Absent
  /\ \A i \in 1..Len(log) : ~Filtered(log[i].id)

(* The record a thread is filling is the one it reserved, it is the last    *)
(* record of this thread, and every busy record is being filled.            *)
BusyOwned ==
  /\ \A id \in Ids : thr[id] = "submit" =>
       /\ slot[id] \in 1..Len(log)
       /\ log[slot[id]].busy /\ log[slot[id]].id = id
       /\ \A i \in 1..Len(log) : i > slot[id] => log[i].id # id
  /\ \A i \in 1..Len(log) :
       log[i].busy => thr[log[i].id] = "submit" /\ slot[log[i].id] = i

(* Before its entry is deleted, a submitted record carries that entry.      *)
DeleteAfterSubmit ==
  \A id \in Ids : thr[id] = "delete" =>
    /\ slot[id] \in Submitted
    /\ log[slot[id]].id = id /\ log[slot[id]].enter = inflight[id]

(* Between lookup and deletion the entry is there.                          *)
EntryPresent == \A id \in Ids : thr[id] \in InHandler => inflight[id] # Absent

(* While a call whose entry was stored runs, inflight holds that entry.     *)
OwnEntry ==
  \A id \in Ids :
    thr[id] \in InSyscall /\ <<id, call[id]>> \in recorded
      => inflight[id] = call[id]

(* A thread that is not the leader runs a call it entered itself: only an   *)
(* execve hands a call over, and it hands it to the leader.                 *)
CallsNotShared ==
  \A id \in Ids :
    thr[id] \in InSyscall /\ id # Leader(id)
      => \A j \in Ids : j # id => <<j, call[id]>> \notin recorded

(* A stored entry is newer than every submitted record of its thread, but   *)
(* for the record that carries the entry itself.                            *)
EntryIsNewest ==
  \A i \in 1..Len(log) :
    LET k == log[i].id IN
    ~log[i].busy /\ inflight[k] # Absent =>
      \/ log[i].enter < inflight[k]
      \/ thr[k] = "delete" /\ slot[k] = i

(* An entry belongs to the call its thread is in, or the call is missed.    *)
EntryOfRunningCall ==
  \A id \in Ids : inflight[id] # Absent =>
    \/ inflight[id] \in missed
    \/ thr[id] \in InSyscall /\ inflight[id] = call[id]

IInv ==
  /\ TypeOK
  /\ Numbered
  /\ FilterKept
  /\ BusyOwned
  /\ DeleteAfterSubmit
  /\ EntryPresent
  /\ OwnEntry
  /\ CallsNotShared
  /\ EntryIsNewest
  /\ EntryOfRunningCall
  /\ EventJoinsOwnEntry
  /\ EntriesReportedInOrder
  /\ RecordedCallAccounted
-----------------------------------------------------------------------------
(* The leader of every thread is among the ids.                             *)
LEMMA LeaderInIds == \A id \in Ids : Leader(id) \in Ids
BY KernelAssumption DEF Leader, Tgid

(* What the type invariant says of one record.                              *)
LEMMA LogTyped ==
  ASSUME TypeOK
  PROVE  /\ Len(log) \in Nat
         /\ \A i \in 1..Len(log) :
              /\ log[i] \in Records
              /\ log[i].id \in Ids /\ log[i].busy \in BOOLEAN
              /\ log[i].enter \in Nat /\ log[i].ret \in Nat
<1>1. log \in Seq(Records)
  BY DEF TypeOK
<1>2. Len(log) \in Nat /\ \A i \in 1..Len(log) : log[i] \in Records
  BY <1>1, LenProperties, ElementOfSeq
<1> QED
  BY <1>2 DEF Records

(* With nothing attached, recorded or reserved the invariant holds.         *)
LEMMA InitInv == Init => IInv
<1> SUFFICES ASSUME Init PROVE IInv
  OBVIOUS
<1> USE DEF Init, Absent
<1>1. log \in Seq(Records) /\ Len(log) = 0
  BY EmptySeq
<1>2. TypeOK
  BY <1>1 DEF TypeOK, Lives, Places, InSyscall, InHandler
<1>3. Numbered /\ FilterKept
  BY <1>1 DEF Numbered, FilterKept
<1>4. BusyOwned /\ DeleteAfterSubmit /\ EntryPresent
  BY <1>1 DEF BusyOwned, DeleteAfterSubmit, EntryPresent, InHandler
<1>5. OwnEntry /\ CallsNotShared /\ EntryIsNewest /\ EntryOfRunningCall
  BY <1>1 DEF OwnEntry, CallsNotShared, EntryIsNewest, EntryOfRunningCall
<1>6. EventJoinsOwnEntry /\ EntriesReportedInOrder /\ RecordedCallAccounted
  BY <1>1 DEF EventJoinsOwnEntry, EntriesReportedInOrder, RecordedCallAccounted, Submitted
<1> QED
  BY <1>2, <1>3, <1>4, <1>5, <1>6 DEF IInv

(* A step that moves threads, but not into or out of the two places where   *)
(* they own a record, and leaves map, ring and recorded alone.              *)
LEMMA ThreadsOnly ==
  ASSUME IInv,
         thr' \in [Ids -> Places], call' \in [Ids -> Nat], calls' \in Nat,
         calls <= calls', \A j \in Ids : call'[j] <= calls',
         missed' \subseteq Nat,
         \A j \in Ids : (thr[j] = "submit" <=> thr'[j] = "submit")
                        /\ (thr[j] = "delete" <=> thr'[j] = "delete"),
         life' = life, target' = target, inflight' = inflight, log' = log,
         cons' = cons, slot' = slot, recorded' = recorded, dropped' = dropped
  PROVE  /\ TypeOK' /\ Numbered' /\ FilterKept' /\ BusyOwned'
         /\ DeleteAfterSubmit' /\ EntryIsNewest'
         /\ EventJoinsOwnEntry' /\ EntriesReportedInOrder'
<1>1. TypeOK /\ Numbered /\ FilterKept /\ BusyOwned /\ DeleteAfterSubmit
      /\ EntryIsNewest /\ EventJoinsOwnEntry /\ EntriesReportedInOrder
  BY DEF IInv
<1>2. TypeOK'
  BY <1>1, SMTT(30) DEF TypeOK
<1>3. Numbered'
  <2>1. recorded' \subseteq Ids \X (1..calls')
    BY <1>1 DEF TypeOK, Numbered
  <2>2. \A j \in Ids : inflight'[j] <= calls'
    BY <1>1 DEF TypeOK, Numbered
  <2>3. \A i \in 1..Len(log') : log'[i].enter <= calls' /\ log'[i].ret <= calls'
    <3>1. \A i \in 1..Len(log) : log[i].enter \in Nat /\ log[i].ret \in Nat
      BY <1>1, LogTyped
    <3>2. \A i \in 1..Len(log) : log[i].enter <= calls /\ log[i].ret <= calls
      BY <1>1 DEF Numbered
    <3>3. calls \in Nat
      BY <1>1 DEF TypeOK
    <3> QED
      BY <3>1, <3>2, <3>3
  <2> QED
    BY <2>1, <2>2, <2>3 DEF Numbered
<1>4. FilterKept'
  BY <1>1 DEF FilterKept, Filtered
<1>5. BusyOwned' /\ DeleteAfterSubmit'
  <2>1. \A i \in 1..Len(log) : log[i].id \in Ids
    BY <1>1, LogTyped
  <2>2. BusyOwned'
    <3>1. \A j \in Ids : thr'[j] = "submit" =>
            /\ slot[j] \in 1..Len(log)
            /\ log[slot[j]].busy /\ log[slot[j]].id = j
            /\ \A i \in 1..Len(log) : i > slot[j] => log[i].id # j
      BY <1>1 DEF BusyOwned
    <3>2. \A i \in 1..Len(log) :
            log[i].busy => thr'[log[i].id] = "submit" /\ slot[log[i].id] = i
      BY <1>1, <2>1 DEF BusyOwned
    <3>3. log' = log /\ slot' = slot
      OBVIOUS
    <3> QED
      BY ONLY <3>1, <3>2, <3>3 DEF BusyOwned
  <2>3. DeleteAfterSubmit'
    BY <1>1, <2>1 DEF DeleteAfterSubmit, Submitted
  <2> QED
    BY <2>2, <2>3
<1>6. EntryIsNewest'
  BY <1>1, LogTyped DEF EntryIsNewest
<1>7. EventJoinsOwnEntry' /\ EntriesReportedInOrder'
  <2>1. Submitted' = Submitted
    BY DEF Submitted
  <2> QED
    BY <1>1, <2>1 DEF EventJoinsOwnEntry, EntriesReportedInOrder
<1> QED
  BY <1>2, <1>3, <1>4, <1>5, <1>6, <1>7

(* RecordedCallAccounted needs a look only at the calls that are running.   *)
LEMMA StillAccounted ==
  ASSUME RecordedCallAccounted, Numbered, recorded' = recorded, calls' \in Nat,
         missed \subseteq missed', dropped \subseteq dropped',
         \A i \in Submitted : i \in Submitted' /\ log'[i] = log[i],
         \A j \in Ids : thr[j] \in InSyscall /\ <<j, call[j]>> \in recorded =>
           \/ thr'[j] \in InSyscall /\ call'[j] = call[j]
           \/ call[j] \in missed' \cup dropped'
           \/ \E i \in Submitted' : log'[i].id = j /\ log'[i].enter = call[j]
  PROVE  RecordedCallAccounted'
<1> SUFFICES ASSUME NEW j \in Ids, NEW c \in 1..calls', <<j, c>> \in recorded
             PROVE  \/ thr'[j] \in InSyscall /\ call'[j] = c
                    \/ c \in missed' \cup dropped'
                    \/ \E i \in Submitted' : log'[i].id = j /\ log'[i].enter = c
  BY DEF RecordedCallAccounted
<1>1. c \in 1..calls
  BY DEF Numbered
<1>2. CASE thr[j] \in InSyscall /\ call[j] = c
  BY <1>2
<1>3. CASE c \in missed \cup dropped
  BY <1>3
<1>4. CASE \E i \in Submitted : log[i].id = j /\ log[i].enter = c
  BY <1>4
<1> QED
  BY <1>1, <1>2, <1>3, <1>4 DEF RecordedCallAccounted

(* A step that changes nothing but life, target and cons has only types and *)
(* filter to keep.                                                          *)
LEMMA Framed ==
  ASSUME IInv, TypeOK', FilterKept',
         call' = call, calls' = calls, inflight' = inflight, log' = log,
         recorded' = recorded, dropped' = dropped, missed' = missed,
         thr' = thr, slot' = slot
  PROVE  IInv'
<1>1. Submitted' = Submitted
  BY DEF Submitted
<1>2. Numbered'
  BY DEF IInv, Numbered
<1>3. BusyOwned'
  BY DEF IInv, BusyOwned
<1>4. DeleteAfterSubmit'
  BY <1>1 DEF IInv, DeleteAfterSubmit
<1>5. EntryPresent' /\ OwnEntry'
  BY DEF IInv, EntryPresent, OwnEntry
<1>6. CallsNotShared' /\ EntryOfRunningCall'
  BY DEF IInv, CallsNotShared, EntryOfRunningCall
<1>7. EntryIsNewest'
  BY DEF IInv, EntryIsNewest
<1>8. EventJoinsOwnEntry' /\ EntriesReportedInOrder'
  BY <1>1 DEF IInv, EventJoinsOwnEntry, EntriesReportedInOrder
<1>9. RecordedCallAccounted'
  BY <1>1 DEF IInv, RecordedCallAccounted
<1> QED
  BY <1>2, <1>3, <1>4, <1>5, <1>6, <1>7, <1>8, <1>9 DEF IInv

(* ring_buffer__poll moves the consumer and nothing else.                   *)
LEMMA ConsumeInv ==
  ASSUME IInv, Consume
  PROVE  IInv'
<1>1. /\ call' = call /\ calls' = calls /\ inflight' = inflight /\ log' = log
      /\ recorded' = recorded /\ dropped' = dropped /\ missed' = missed
      /\ life' = life /\ target' = target /\ thr' = thr /\ slot' = slot
      /\ cons < Len(log) /\ cons' = cons + 1
  BY DEF Consume, Ready, history
<1>2. TypeOK'
  <2>1. TypeOK /\ Len(log) \in Nat
    BY LogTyped DEF IInv
  <2>2. cons' \in 0..Len(log')
    BY <1>1, <2>1 DEF TypeOK
  <2> QED
    BY <1>1, <2>1, <2>2, SMTT(30) DEF TypeOK
<1>3. FilterKept'
  BY <1>1 DEF IInv, FilterKept, Filtered
<1> QED
  BY <1>1, <1>2, <1>3, Framed

(* Attaching and detaching never goes back to the phase in which .rodata is *)
(* written, and in that phase there is nothing to filter.                   *)
LEMMA LifecycleInv ==
  ASSUME IInv, Lifecycle
  PROVE  IInv'
<1>1. /\ call' = call /\ calls' = calls /\ inflight' = inflight /\ log' = log
      /\ recorded' = recorded /\ dropped' = dropped /\ missed' = missed
      /\ thr' = thr /\ slot' = slot /\ cons' = cons
  BY DEF Lifecycle, SetTarget, Writable, AttachEnter, AttachExit, DetachEnter, DetachExit,
         SetLife, history
<1>2. \/ target' = target /\ life' \in Lives \ {"open"}
      \/ life = "open" /\ life' = "open" /\ target' \in Tgids
  BY DEF Lifecycle, SetTarget, Writable, AttachEnter, AttachExit, DetachEnter, DetachExit,
         SetLife, Lives
<1>3. TypeOK'
  BY <1>1, <1>2, SMTT(30) DEF IInv, TypeOK
<1>4. FilterKept'
  <2>1. FilterKept /\ TypeOK
    BY DEF IInv
  <2>2. CASE target' = target /\ life' # "open"
    BY <1>1, <2>1, <2>2 DEF FilterKept, Filtered
  <2>3. CASE life = "open"
    <3>1. Len(log) = 0 /\ \A id \in Ids : inflight[id] = Absent
      BY <2>1, <2>3, EmptySeq DEF FilterKept
    <3> QED
      BY <1>1, <2>1, <2>3, <3>1 DEF FilterKept
  <2> QED
    BY <1>2, <2>2, <2>3
<1> QED
  BY <1>1, <1>3, <1>4, Framed
-----------------------------------------------------------------------------
(***************************************************************************)
(* The steps of the threads of the machine.                                 *)
(***************************************************************************)

(* A system call is entered: its number is new, so nothing refers to it.    *)
LEMMA SysEnterInv ==
  ASSUME IInv, NEW id \in Ids, SysEnter(id)
  PROVE  IInv'
<1>1. /\ thr' = [thr EXCEPT ![id] = "kernel"]
      /\ call' = [call EXCEPT ![id] = calls + 1]
      /\ calls' = calls + 1
      /\ thr[id] = "user"
      /\ life' = life /\ target' = target /\ log' = log /\ cons' = cons
      /\ slot' = slot /\ dropped' = dropped /\ missed' = missed
  BY DEF SysEnter, Goto
<1>2. \/ inflight' = inflight /\ recorded' = recorded
      \/ /\ inflight' = [inflight EXCEPT ![id] = calls + 1]
         /\ recorded' = recorded \cup {<<id, calls + 1>>}
         /\ life # "open" /\ ~Filtered(id)
  BY DEF SysEnter, handle_sys_enter, Key, UpdateAny, HasRoom, EnterAttached
<1>3. /\ TypeOK /\ Numbered /\ FilterKept /\ BusyOwned /\ DeleteAfterSubmit
      /\ EntryPresent /\ OwnEntry /\ CallsNotShared /\ EntryIsNewest
      /\ EntryOfRunningCall /\ EventJoinsOwnEntry /\ EntriesReportedInOrder
      /\ RecordedCallAccounted
  BY DEF IInv
<1>4. /\ calls \in Nat /\ inflight \in [Ids -> Nat] /\ recorded \subseteq Ids \X Nat
      /\ thr \in [Ids -> Places] /\ call \in [Ids -> Nat]
  BY <1>3 DEF TypeOK
<1>5. /\ thr'[id] = "kernel" /\ call'[id] = calls + 1
      /\ \A j \in Ids : j # id => thr'[j] = thr[j] /\ call'[j] = call[j]
  BY <1>1, <1>4
<1>6. /\ inflight'[id] = inflight[id] \/ inflight'[id] = calls + 1
      /\ \A j \in Ids : j # id => inflight'[j] = inflight[j]
  BY <1>2, <1>4
<1>7. TypeOK'
  <2>1. thr' \in [Ids -> Places]
    BY <1>1, <1>4 DEF Places, InSyscall
  <2>2. call' \in [Ids -> Nat] /\ calls' \in Nat
    BY <1>1, <1>4
  <2>3. inflight' \in [Ids -> Nat]
    BY <1>2, <1>4
  <2>4. recorded' \subseteq Ids \X Nat
    BY <1>2, <1>4
  <2>5. /\ life' = life /\ target' = target /\ log' = log /\ cons' = cons
        /\ slot' = slot /\ dropped' = dropped /\ missed' = missed
    BY <1>1
  <2> QED
    BY <1>3, <2>1, <2>2, <2>3, <2>4, <2>5, Zenon DEF TypeOK
<1>8. Numbered'
  <2>1. recorded' \subseteq Ids \X (1..calls')
    <3>1. recorded \subseteq Ids \X (1..calls)
      BY <1>3 DEF Numbered
    <3> QED
      BY <1>1, <1>2, <1>4, <3>1
  <2>2. \A j \in Ids : call'[j] <= calls' /\ inflight'[j] <= calls'
    <3>1. \A j \in Ids : call[j] <= calls /\ inflight[j] <= calls
      BY <1>3 DEF Numbered
    <3> QED
      BY <1>1, <1>4, <1>5, <1>6, <3>1
  <2>3. \A i \in 1..Len(log') : log'[i].enter <= calls' /\ log'[i].ret <= calls'
    <3>1. \A i \in 1..Len(log) : log[i].enter \in Nat /\ log[i].ret \in Nat
      BY <1>3, LogTyped
    <3>2. \A i \in 1..Len(log) : log[i].enter <= calls /\ log[i].ret <= calls
      BY <1>3 DEF Numbered
    <3> QED
      BY <1>1, <1>4, <3>1, <3>2
  <2> QED
    BY <2>1, <2>2, <2>3 DEF Numbered
<1>9. FilterKept'
  BY <1>1, <1>2, <1>3 DEF FilterKept, Filtered, TypeOK
<1>10. BusyOwned'
  <2>1. \A i \in 1..Len(log) : log[i].id \in Ids
    BY <1>3, LogTyped
  <2> QED
    BY <1>1, <1>3, <1>5, <2>1 DEF BusyOwned
<1>11. DeleteAfterSubmit'
  BY <1>1, <1>3, <1>5, <1>6 DEF DeleteAfterSubmit, Submitted
<1>12. EntryPresent'
  BY <1>3, <1>5, <1>6 DEF EntryPresent, InHandler
<1>13. /\ \A j \in Ids : <<j, calls + 1>> \in recorded' => j = id
       /\ \A j \in Ids, c \in Nat : <<j, c>> \in recorded' /\ c # calls + 1
                                    => <<j, c>> \in recorded
  BY <1>2, <1>3, <1>4 DEF Numbered
<1>14. OwnEntry'
  <2>1. <<id, calls + 1>> \in recorded' => inflight'[id] = calls + 1
    BY <1>2, <1>3, <1>4 DEF Numbered
  <2>2. \A j \in Ids : call[j] # calls + 1
    BY <1>3, <1>4 DEF Numbered
  <2> QED
    BY <1>3, <1>4, <1>5, <1>6, <1>13, <2>1, <2>2 DEF OwnEntry
<1>15. CallsNotShared'
  <2>1. \A j \in Ids : call[j] # calls + 1
    BY <1>3, <1>4 DEF Numbered
  <2> QED
    BY <1>3, <1>4, <1>5, <1>13, <2>1 DEF CallsNotShared
<1>16. EntryIsNewest'
  <2> SUFFICES ASSUME NEW i \in 1..Len(log), ~log[i].busy,
                      inflight'[log[i].id] # Absent
               PROVE  \/ log[i].enter < inflight'[log[i].id]
                      \/ thr'[log[i].id] = "delete" /\ slot[log[i].id] = i
    BY <1>1 DEF EntryIsNewest
  <2>1. log[i].id \in Ids /\ log[i].enter \in Nat /\ log[i].enter <= calls
    BY <1>3, LogTyped DEF Numbered
  <2>2. CASE log[i].id = id
    <3>1. inflight[id] # Absent => log[i].enter < inflight[id]
      BY <1>1, <1>3, <2>2 DEF EntryIsNewest
    <3> QED
      BY <1>4, <1>6, <2>1, <2>2, <3>1
  <2>3. CASE log[i].id # id
    <3>1. inflight'[log[i].id] = inflight[log[i].id] /\ thr'[log[i].id] = thr[log[i].id]
      BY <1>5, <1>6, <2>1, <2>3
    <3> QED
      BY <1>3, <2>1, <3>1 DEF EntryIsNewest
  <2> QED
    BY <2>2, <2>3
<1>17. EntryOfRunningCall'
  BY <1>1, <1>3, <1>5, <1>6 DEF EntryOfRunningCall, InSyscall, InHandler
<1>18. EventJoinsOwnEntry' /\ EntriesReportedInOrder'
  <2>1. Submitted' = Submitted
    BY <1>1 DEF Submitted
  <2>2. \A i \in Submitted : /\ log[i].id \in Ids /\ log[i].ret \in Nat
                             /\ log[i].ret <= calls
    BY <1>3, LogTyped DEF Numbered, Submitted
  <2>3. \A i \in Submitted : log[i].ret # calls + 1
    BY <1>4, <2>2
  <2>4. EventJoinsOwnEntry'
    BY <1>1, <1>3, <1>13, <2>1, <2>2, <2>3 DEF EventJoinsOwnEntry
  <2>5. EntriesReportedInOrder'
    BY <1>1, <1>3, <2>1 DEF EntriesReportedInOrder
  <2> QED
    BY <2>4, <2>5
<1>19. RecordedCallAccounted'
  <2> SUFFICES ASSUME NEW j \in Ids, NEW c \in 1..calls',
                      <<j, c>> \in recorded'
               PROVE  \/ thr'[j] \in InSyscall /\ call'[j] = c
                      \/ c \in missed \cup dropped
                      \/ \E i \in Submitted : log[i].id = j /\ log[i].enter = c
    BY <1>1 DEF RecordedCallAccounted, Submitted
  <2>1. CASE j = id /\ c = calls + 1
    BY <1>1, <1>3, <2>1 DEF InSyscall, TypeOK
  <2>2. CASE <<j, c>> \in recorded
    <3>1. c \in 1..calls
      BY <1>3, <2>2 DEF Numbered
    <3> QED
      BY <1>1, <1>3, <2>2, <3>1, SMTT(30) DEF RecordedCallAccounted, InSyscall, InHandler, TypeOK
  <2> QED
    BY <1>2, <2>1, <2>2
<1> QED
  BY <1>7, <1>8, <1>9, <1>10, <1>11, <1>12, <1>14, <1>15, <1>16, <1>17, <1>18,
     <1>19 DEF IInv

(* A system call returns.                                                   *)
LEMMA SysExitInv ==
  ASSUME IInv, NEW id \in Ids, SysExit(id)
  PROVE  IInv'
<1>1. /\ TypeOK /\ Numbered /\ FilterKept /\ EntryPresent /\ OwnEntry
      /\ CallsNotShared /\ EntryOfRunningCall /\ RecordedCallAccounted
  BY DEF IInv
<1>2. /\ call' = call /\ calls' = calls /\ inflight' = inflight /\ log' = log
      /\ recorded' = recorded /\ dropped' = dropped
      /\ life' = life /\ target' = target /\ cons' = cons /\ slot' = slot
      /\ thr[id] = "kernel"
      /\ missed' = IF ExitAttached THEN missed ELSE missed \cup {call[id]}
  BY DEF SysExit
<1>3. \/ /\ thr' = [thr EXCEPT ![id] = "reserve"] /\ missed' = missed
         /\ inflight[id] # Absent
      \/ /\ thr' = [thr EXCEPT ![id] = "user"]
         /\ \/ missed' = missed \cup {call[id]}
            \/ inflight[id] = Absent /\ missed' = missed
  BY <1>1, <1>2, Zenon DEF SysExit, handle_sys_exit, Goto, FilterKept
<1>4. /\ TypeOK' /\ Numbered' /\ FilterKept' /\ BusyOwned'
      /\ DeleteAfterSubmit' /\ EntryIsNewest'
      /\ EventJoinsOwnEntry' /\ EntriesReportedInOrder'
  <2>1. thr' \in [Ids -> Places] /\ missed' \subseteq Nat
    <3>1. thr \in [Ids -> Places] /\ missed \subseteq Nat /\ call[id] \in Nat
      BY <1>1 DEF TypeOK
    <3>2. "reserve" \in Places /\ "user" \in Places
      BY DEF Places, InSyscall, InHandler
    <3> QED
      BY <1>3, <3>1, <3>2, Zenon
  <2>2. \A j \in Ids : (thr[j] = "submit" <=> thr'[j] = "submit")
                       /\ (thr[j] = "delete" <=> thr'[j] = "delete")
    BY <1>1, <1>2, <1>3 DEF TypeOK
  <2>3. calls <= calls' /\ \A j \in Ids : call'[j] <= calls'
    BY <1>1, <1>2 DEF TypeOK, Numbered
  <2>4. call' \in [Ids -> Nat] /\ calls' \in Nat
    BY <1>1, <1>2 DEF TypeOK
  <2> QED
    BY <1>2, <2>1, <2>2, <2>3, <2>4, ThreadsOnly
<1>5. EntryPresent'
  BY <1>1, <1>2, <1>3 DEF EntryPresent, InHandler, TypeOK
<1>6. OwnEntry' /\ CallsNotShared'
  BY <1>1, <1>2, <1>3, Zenon DEF OwnEntry, CallsNotShared, InSyscall, InHandler, TypeOK
<1>7. EntryOfRunningCall'
  BY <1>1, <1>2, <1>3, Zenon DEF EntryOfRunningCall, InSyscall, InHandler, TypeOK
<1>8. RecordedCallAccounted'
  <2>1. ASSUME NEW j \in Ids, thr[j] \in InSyscall, <<j, call[j]>> \in recorded
        PROVE  \/ thr'[j] \in InSyscall /\ call'[j] = call[j]
               \/ call[j] \in missed' \cup dropped'
    <3>1. inflight[j] = call[j] /\ call[j] # Absent
      BY <1>1, <2>1 DEF OwnEntry, Numbered, Absent
    <3> QED
      BY <1>1, <1>2, <1>3, <2>1, <3>1 DEF InSyscall, InHandler, TypeOK
  <2>2. missed \subseteq missed' /\ dropped \subseteq dropped' /\ calls' \in Nat
    BY <1>1, <1>2, <1>3 DEF TypeOK
  <2> QED
    BY <1>1, <1>2, <2>1, <2>2, StillAccounted DEF Submitted
<1> QED
  BY <1>4, <1>5, <1>6, <1>7, <1>8 DEF IInv

(* A call that seccomp refused: its number is new, and it was not recorded. *)
LEMMA SysDeniedInv ==
  ASSUME IInv, NEW id \in Ids, SysDenied(id)
  PROVE  IInv'
<1>1. /\ TypeOK /\ Numbered /\ FilterKept /\ EntryPresent /\ OwnEntry
      /\ CallsNotShared /\ EntryOfRunningCall /\ RecordedCallAccounted
  BY DEF IInv
<1>2. /\ call' = [call EXCEPT ![id] = calls + 1] /\ calls' = calls + 1
      /\ inflight' = inflight /\ log' = log /\ recorded' = recorded
      /\ dropped' = dropped /\ missed' = missed
      /\ life' = life /\ target' = target /\ cons' = cons /\ slot' = slot
      /\ thr[id] = "user"
  BY DEF SysDenied, history
<1>3. \/ thr' = [thr EXCEPT ![id] = "reserve"] /\ inflight[id] # Absent
      \/ thr' = [thr EXCEPT ![id] = "user"]
  BY Zenon DEF SysDenied, handle_sys_exit, Goto
<1>4. /\ TypeOK' /\ Numbered' /\ FilterKept' /\ BusyOwned'
      /\ DeleteAfterSubmit' /\ EntryIsNewest'
      /\ EventJoinsOwnEntry' /\ EntriesReportedInOrder'
  <2>1. thr' \in [Ids -> Places] /\ call' \in [Ids -> Nat] /\ calls' \in Nat
    BY <1>1, <1>2, <1>3, SMTT(30) DEF TypeOK, Places, InSyscall, InHandler
  <2>2. \A j \in Ids : (thr[j] = "submit" <=> thr'[j] = "submit")
                       /\ (thr[j] = "delete" <=> thr'[j] = "delete")
    BY <1>1, <1>2, <1>3 DEF TypeOK
  <2>3. calls <= calls' /\ \A j \in Ids : call'[j] <= calls'
    BY <1>1, <1>2 DEF TypeOK, Numbered
  <2>4. missed' \subseteq Nat
    BY <1>1, <1>2 DEF TypeOK
  <2> QED
    BY <1>2, <2>1, <2>2, <2>3, <2>4, ThreadsOnly
<1>5. EntryPresent'
  BY <1>1, <1>2, <1>3 DEF EntryPresent, InHandler, TypeOK
<1>6. OwnEntry' /\ CallsNotShared'
  <2>1. \A j \in Ids : <<j, calls + 1>> \notin recorded
    BY <1>1 DEF Numbered, TypeOK
  <2>2. \A j \in Ids : j # id => thr'[j] = thr[j] /\ call'[j] = call[j]
    BY <1>1, <1>2, <1>3 DEF TypeOK
  <2>3. call'[id] = calls + 1
    BY <1>1, <1>2 DEF TypeOK
  <2>4. OwnEntry'
    BY <1>1, <1>2, <2>1, <2>2, <2>3 DEF OwnEntry
  <2>5. CallsNotShared'
    BY <1>1, <1>2, <2>1, <2>2, <2>3 DEF CallsNotShared
  <2> QED
    BY <2>4, <2>5
<1>7. EntryOfRunningCall'
  BY <1>1, <1>2, <1>3, Zenon DEF EntryOfRunningCall, InSyscall, InHandler, TypeOK
<1>8. RecordedCallAccounted'
  <2>1. \A j \in Ids : thr[j] \in InSyscall => thr'[j] \in InSyscall /\ call'[j] = call[j]
    BY <1>1, <1>2, <1>3 DEF InSyscall, InHandler, TypeOK
  <2>2. calls' \in Nat
    BY <1>1, <1>2 DEF TypeOK
  <2> QED
    BY <1>1, <1>2, <2>1, <2>2, StillAccounted DEF Submitted
<1> QED
  BY <1>4, <1>5, <1>6, <1>7, <1>8 DEF IInv

(* A thread ends; when it was in a call, that call is missed.               *)
LEMMA ThreadEndInv ==
  ASSUME IInv, NEW id \in Ids, ThreadEnd(id)
  PROVE  IInv'
<1>1. /\ TypeOK /\ Numbered /\ FilterKept /\ EntryPresent /\ OwnEntry
      /\ CallsNotShared /\ EntryOfRunningCall /\ RecordedCallAccounted
  BY DEF IInv
<1>2. /\ call' = call /\ calls' = calls /\ inflight' = inflight /\ log' = log
      /\ recorded' = recorded /\ dropped' = dropped
      /\ life' = life /\ target' = target /\ cons' = cons /\ slot' = slot
      /\ thr[id] \in {"user", "kernel"}
      /\ thr' = [thr EXCEPT ![id] = "dead"]
      /\ missed' = IF thr[id] = "kernel" THEN missed \cup {call[id]} ELSE missed
  BY DEF ThreadEnd, Goto
<1>3. /\ thr' \in [Ids -> Places] /\ missed' \subseteq Nat
      /\ missed \subseteq missed'
  BY <1>1, <1>2, Zenon DEF TypeOK, Places
<1>4. /\ TypeOK' /\ Numbered' /\ FilterKept' /\ BusyOwned'
      /\ DeleteAfterSubmit' /\ EntryIsNewest'
      /\ EventJoinsOwnEntry' /\ EntriesReportedInOrder'
  <2>1. \A j \in Ids : (thr[j] = "submit" <=> thr'[j] = "submit")
                       /\ (thr[j] = "delete" <=> thr'[j] = "delete")
    BY <1>1, <1>2 DEF TypeOK
  <2>2. calls <= calls' /\ \A j \in Ids : call'[j] <= calls'
    BY <1>1, <1>2 DEF TypeOK, Numbered
  <2>3. call' \in [Ids -> Nat] /\ calls' \in Nat
    BY <1>1, <1>2 DEF TypeOK
  <2> QED
    BY <1>2, <1>3, <2>1, <2>2, <2>3, ThreadsOnly
<1>5. EntryPresent' /\ OwnEntry' /\ CallsNotShared'
  <2>1. \A j \in Ids : j # id => thr'[j] = thr[j]
    BY <1>1, <1>2 DEF TypeOK
  <2>2. thr'[id] \notin InSyscall /\ thr'[id] \notin InHandler
    BY <1>1, <1>2 DEF TypeOK, InSyscall, InHandler
  <2> QED
    BY <1>1, <1>2, <2>1, <2>2 DEF EntryPresent, OwnEntry, CallsNotShared
<1>6. EntryOfRunningCall'
  BY <1>1, <1>2 DEF EntryOfRunningCall, InSyscall, InHandler, TypeOK
<1>7. RecordedCallAccounted'
  <2>1. \A j \in Ids : thr[j] \in InSyscall =>
          (thr'[j] \in InSyscall /\ call'[j] = call[j]) \/ call[j] \in missed'
    BY <1>1, <1>2 DEF InSyscall, InHandler, TypeOK
  <2>2. calls' \in Nat
    BY <1>1, <1>2 DEF TypeOK
  <2> QED
    BY <1>1, <1>2, <1>3, <2>1, <2>2, StillAccounted DEF Submitted
<1> QED
  BY <1>4, <1>5, <1>6, <1>7 DEF IInv

(* A thread starts, outside any call.                                       *)
LEMMA ThreadStartInv ==
  ASSUME IInv, NEW id \in Ids, ThreadStart(id)
  PROVE  IInv'
<1>1. /\ TypeOK /\ Numbered /\ FilterKept /\ EntryPresent /\ OwnEntry
      /\ CallsNotShared /\ EntryOfRunningCall /\ RecordedCallAccounted
  BY DEF IInv
<1>2. /\ call' = call /\ calls' = calls /\ inflight' = inflight /\ log' = log
      /\ recorded' = recorded /\ dropped' = dropped /\ missed' = missed
      /\ life' = life /\ target' = target /\ cons' = cons /\ slot' = slot
      /\ thr[id] = "dead"
      /\ thr' = [thr EXCEPT ![id] = "user"]
  BY DEF ThreadStart, Goto, history
<1>3. thr' \in [Ids -> Places] /\ missed' \subseteq Nat
  BY <1>1, <1>2 DEF TypeOK, Places
<1>4. \A j \in Ids : /\ thr[j] \in InSyscall <=> thr'[j] \in InSyscall
                     /\ thr[j] \in InHandler <=> thr'[j] \in InHandler
                     /\ thr[j] = "submit" <=> thr'[j] = "submit"
                     /\ thr[j] = "delete" <=> thr'[j] = "delete"
  BY <1>1, <1>2 DEF InSyscall, InHandler, TypeOK
<1>5. /\ TypeOK' /\ Numbered' /\ FilterKept' /\ BusyOwned'
      /\ DeleteAfterSubmit' /\ EntryIsNewest'
      /\ EventJoinsOwnEntry' /\ EntriesReportedInOrder'
  <2>1. calls <= calls' /\ \A j \in Ids : call'[j] <= calls'
    BY <1>1, <1>2 DEF TypeOK, Numbered
  <2>2. call' \in [Ids -> Nat] /\ calls' \in Nat
    BY <1>1, <1>2 DEF TypeOK
  <2> QED
    BY <1>2, <1>3, <1>4, <2>1, <2>2, ThreadsOnly
<1>6. EntryPresent' /\ OwnEntry' /\ CallsNotShared' /\ EntryOfRunningCall'
  BY <1>1, <1>2, <1>4
  DEF EntryPresent, OwnEntry, CallsNotShared, EntryOfRunningCall
<1>7. RecordedCallAccounted'
  BY <1>1, <1>2, <1>4, StillAccounted DEF Submitted, TypeOK
<1> QED
  BY <1>5, <1>6, <1>7 DEF IInv

(* execve hands the call over to the leader's id, under which it was never  *)
(* recorded; under the old id it is missed.                                 *)
LEMMA ExecTakeoverInv ==
  ASSUME IInv, NEW id \in Ids, ExecTakeover(id)
  PROVE  IInv'
<1> DEFINE L == Leader(id)
<1>1. /\ TypeOK /\ Numbered /\ FilterKept /\ EntryPresent /\ OwnEntry
      /\ CallsNotShared /\ EntryOfRunningCall /\ RecordedCallAccounted
  BY DEF IInv
<1>2. L \in Ids /\ L # id /\ Leader(L) = L /\ Tgid(L) = Tgid(id)
  BY LeaderInIds DEF ExecTakeover, Leader, Tgid
<1>3. thr[id] = "kernel" /\ thr[L] = "dead"
  BY <1>1, <1>2 DEF ExecTakeover, Live
<1> HIDE DEF L
<1>4. /\ calls' = calls /\ inflight' = inflight /\ log' = log
      /\ recorded' = recorded /\ dropped' = dropped
      /\ life' = life /\ target' = target /\ cons' = cons /\ slot' = slot
      /\ thr' = [thr EXCEPT ![id] = "dead", ![L] = "kernel"]
      /\ call' = [call EXCEPT ![L] = call[id]]
      /\ missed' = missed \cup {call[id]}
  BY DEF ExecTakeover, L
<1>5. /\ thr'[id] = "dead" /\ thr'[L] = "kernel"
      /\ call'[L] = call[id] /\ call'[id] = call[id]
      /\ \A j \in Ids : j # id /\ j # L => thr'[j] = thr[j] /\ call'[j] = call[j]
  BY <1>1, <1>2, <1>4 DEF TypeOK
<1>6. /\ thr' \in [Ids -> Places] /\ call' \in [Ids -> Nat] /\ calls' \in Nat
      /\ missed' \subseteq Nat /\ missed \subseteq missed'
  BY <1>1, <1>2, <1>4, Zenon DEF TypeOK, Places, InSyscall
<1>7. /\ TypeOK' /\ Numbered' /\ FilterKept' /\ BusyOwned'
      /\ DeleteAfterSubmit' /\ EntryIsNewest'
      /\ EventJoinsOwnEntry' /\ EntriesReportedInOrder'
  <2>1. \A j \in Ids : (thr[j] = "submit" <=> thr'[j] = "submit")
                       /\ (thr[j] = "delete" <=> thr'[j] = "delete")
    BY <1>3, <1>5
  <2>2. calls <= calls' /\ \A j \in Ids : call'[j] <= calls'
    BY <1>1, <1>4, <1>5 DEF TypeOK, Numbered
  <2> QED
    BY <1>4, <1>6, <2>1, <2>2, ThreadsOnly
<1>8. EntryPresent'
  BY <1>1, <1>3, <1>4, <1>5 DEF EntryPresent, InHandler
<1>9. OwnEntry'
  <2>1. <<L, call[id]>> \notin recorded
    BY <1>1, <1>2, <1>3 DEF CallsNotShared, InSyscall, L
  <2> QED
    BY <1>1, <1>4, <1>5, <2>1 DEF OwnEntry, InSyscall, InHandler
<1>10. CallsNotShared'
  BY <1>1, <1>2, <1>4, <1>5 DEF CallsNotShared, InSyscall, InHandler
<1>11. EntryOfRunningCall'
  BY <1>1, <1>3, <1>4, <1>5, Zenon DEF EntryOfRunningCall, InSyscall, InHandler
<1>12. RecordedCallAccounted'
  <2>1. \A j \in Ids : thr[j] \in InSyscall =>
          (thr'[j] \in InSyscall /\ call'[j] = call[j]) \/ call[j] \in missed'
    BY <1>3, <1>4, <1>5, Zenon DEF InSyscall, InHandler
  <2> QED
    BY <1>1, <1>4, <1>6, <2>1, StillAccounted DEF Submitted
<1> QED
  BY <1>7, <1>8, <1>9, <1>10, <1>11, <1>12 DEF IInv
-----------------------------------------------------------------------------
(***************************************************************************)
(* The steps of handle_sys_exit.                                            *)
(***************************************************************************)

(* A record is reserved, busy, behind all others; or the ring is full.      *)
LEMMA ExitReserveInv ==
  ASSUME IInv, NEW id \in Ids, ExitReserve(id)
  PROVE  IInv'
<1>1. /\ TypeOK /\ Numbered /\ FilterKept /\ BusyOwned /\ DeleteAfterSubmit
      /\ EntryPresent /\ OwnEntry /\ CallsNotShared /\ EntryIsNewest
      /\ EntryOfRunningCall /\ EventJoinsOwnEntry /\ EntriesReportedInOrder
      /\ RecordedCallAccounted
  BY DEF IInv
<1>2. /\ call' = call /\ calls' = calls /\ inflight' = inflight
      /\ recorded' = recorded /\ dropped' = dropped /\ missed' = missed
      /\ life' = life /\ target' = target /\ cons' = cons
      /\ thr[id] = "reserve"
  BY DEF ExitReserve, NewSlot, AfterFull, history
<1>3. /\ \A j \in Ids : j # id => thr'[j] = thr[j]
      /\ thr'[id] \in {"drop", "submit"}
      /\ thr' \in [Ids -> Places]
  BY <1>1, <1>2, Zenon DEF ExitReserve, NewSlot, AfterFull, Goto, TypeOK, Places, InSyscall, InHandler
<1>4. EntryPresent' /\ OwnEntry' /\ CallsNotShared' /\ EntryOfRunningCall'
  <2>1. \A j \in Ids : /\ thr[j] \in InSyscall <=> thr'[j] \in InSyscall
                       /\ thr[j] \in InHandler <=> thr'[j] \in InHandler
    BY <1>2, <1>3 DEF InSyscall, InHandler
  <2> QED
    BY <1>1, <1>2, <2>1
    DEF EntryPresent, OwnEntry, CallsNotShared, EntryOfRunningCall
<1>5. \A j \in Ids : thr[j] \in InSyscall => thr'[j] \in InSyscall /\ call'[j] = call[j]
  BY <1>2, <1>3 DEF InSyscall, InHandler
<1>6. CASE thr' = [thr EXCEPT ![id] = "drop"] /\ log' = log /\ slot' = slot
  <2>1. /\ TypeOK' /\ Numbered' /\ FilterKept' /\ BusyOwned'
        /\ DeleteAfterSubmit' /\ EntryIsNewest'
        /\ EventJoinsOwnEntry' /\ EntriesReportedInOrder'
    <3>1. calls <= calls' /\ \A j \in Ids : call'[j] <= calls'
      BY <1>1, <1>2 DEF TypeOK, Numbered
    <3>2. \A j \in Ids : (thr[j] = "submit" <=> thr'[j] = "submit")
                         /\ (thr[j] = "delete" <=> thr'[j] = "delete")
      BY <1>1, <1>2, <1>6 DEF TypeOK
    <3>3. call' \in [Ids -> Nat] /\ calls' \in Nat /\ missed' \subseteq Nat
      BY <1>1, <1>2 DEF TypeOK
    <3> QED
      BY <1>2, <1>3, <1>6, <3>1, <3>2, <3>3, ThreadsOnly, Zenon
  <2>2. RecordedCallAccounted'
    BY <1>1, <1>2, <1>5, <1>6, StillAccounted DEF Submitted, TypeOK
  <2> QED
    BY <1>4, <2>1, <2>2 DEF IInv
<1> DEFINE n == Len(log) + 1
           r == [id |-> id, busy |-> TRUE, enter |-> 0, ret |-> 0]
<1>7. CASE /\ thr' = [thr EXCEPT ![id] = "submit"]
           /\ log' = Append(log, r) /\ slot' = [slot EXCEPT ![id] = n]
  <2>1. r \in Records /\ log \in Seq(Records)
    BY <1>1 DEF Records, TypeOK
  <2>2. /\ log' \in Seq(Records) /\ Len(log') = n /\ log'[n] = r
        /\ \A i \in 1..Len(log) : log'[i] = log[i]
    BY <1>7, <2>1, AppendProperties
  <2>3. n \in Nat /\ Len(log) \in Nat /\ \A i \in 1..Len(log) : log[i].id \in Ids
    BY <1>1, LogTyped
  <2>4. r.id = id /\ r.busy /\ r.enter = 0 /\ r.ret = 0
    OBVIOUS
  <2> HIDE DEF n, r
  <2>5. /\ slot'[id] = n /\ thr'[id] = "submit"
        /\ \A j \in Ids : j # id => slot'[j] = slot[j]
    BY <1>1, <1>7 DEF TypeOK
  <2>6. 1..Len(log') = 1..Len(log) \cup {n} /\ n \notin 1..Len(log)
    BY <2>2, <2>3 DEF n
  <2>7. Submitted' = Submitted
    BY <2>2, <2>4, <2>6 DEF Submitted
  <2>8. TypeOK'
    <3>1. slot' \in [Ids -> Nat] /\ cons' \in 0..Len(log')
      BY <1>1, <1>2, <1>7, <2>2, <2>3 DEF TypeOK, n
    <3> QED
      BY <1>1, <1>2, <1>3, <2>2, <3>1, Zenon DEF TypeOK
  <2>9. Numbered'
    <3>1. calls \in Nat
      BY <1>1 DEF TypeOK
    <3>2. \A i \in 1..Len(log') : log'[i].enter <= calls /\ log'[i].ret <= calls
      <4>1. \A i \in 1..Len(log) : log[i].enter <= calls /\ log[i].ret <= calls
        BY <1>1 DEF Numbered
      <4>2. log'[n].enter <= calls /\ log'[n].ret <= calls
        BY <2>2, <2>4, <3>1
      <4> QED
        BY ONLY <2>2, <2>6, <4>1, <4>2
    <3> QED
      BY <1>1, <1>2, <3>2 DEF Numbered
  <2>10. FilterKept'
    <3>1. ~Filtered(id) /\ life # "open"
      BY <1>1, <1>2 DEF FilterKept, EntryPresent, InHandler
    <3> QED
      BY <1>1, <1>2, <2>2, <2>4, <2>6, <3>1 DEF FilterKept, Filtered
  <2>11. BusyOwned'
    <3>1. ASSUME NEW j \in Ids, thr'[j] = "submit"
          PROVE  /\ slot'[j] \in 1..Len(log')
                 /\ log'[slot'[j]].busy /\ log'[slot'[j]].id = j
                 /\ \A i \in 1..Len(log') : i > slot'[j] => log'[i].id # j
      <4>1. CASE j = id
        BY <2>2, <2>3, <2>4, <2>5, <2>6, <4>1
      <4>2. CASE j # id
        BY <1>1, <1>3, <2>2, <2>4, <2>5, <2>6, <3>1, <4>2, SMTT(30) DEF BusyOwned
      <4> QED
        BY <4>1, <4>2
    <3>2. ASSUME NEW i \in 1..Len(log'), log'[i].busy
          PROVE  thr'[log'[i].id] = "submit" /\ slot'[log'[i].id] = i
      <4>1. CASE i = n
        BY <2>2, <2>4, <2>5, <4>1
      <4>2. CASE i \in 1..Len(log)
        BY <1>1, <1>2, <1>3, <2>2, <2>3, <2>5, <3>2, <4>2 DEF BusyOwned
      <4> QED
        BY <2>6, <4>1, <4>2
    <3> QED
      BY <3>1, <3>2 DEF BusyOwned
  <2>12. DeleteAfterSubmit'
    <3>1. \A j \in Ids : thr'[j] = "delete" => j # id /\ thr[j] = "delete"
      BY <1>3, <2>5
    <3>2. ASSUME NEW j \in Ids, thr'[j] = "delete"
          PROVE  /\ slot'[j] \in Submitted'
                 /\ log'[slot'[j]].id = j /\ log'[slot'[j]].enter = inflight'[j]
      <4>1. slot'[j] = slot[j] /\ thr[j] = "delete"
        BY <2>5, <3>1, <3>2
      <4>2. slot[j] \in Submitted /\ log[slot[j]].id = j /\ log[slot[j]].enter = inflight[j]
        BY <1>1, <4>1 DEF DeleteAfterSubmit
      <4>3. log'[slot[j]] = log[slot[j]]
        BY <2>2, <4>2 DEF Submitted
      <4> QED
        BY <1>2, <2>7, <4>1, <4>2, <4>3
    <3> QED
      BY <3>2 DEF DeleteAfterSubmit
  <2>13. EntryIsNewest'
    <3> SUFFICES ASSUME NEW i \in 1..Len(log'), ~log'[i].busy,
                        inflight[log'[i].id] # Absent
                 PROVE  \/ log'[i].enter < inflight[log'[i].id]
                        \/ thr'[log'[i].id] = "delete" /\ slot'[log'[i].id] = i
      BY <1>2 DEF EntryIsNewest
    <3>1. i \in 1..Len(log) /\ log'[i] = log[i]
      BY <2>2, <2>4, <2>6
    <3> QED
      BY <1>1, <1>2, <1>3, <2>3, <2>5, <3>1 DEF EntryIsNewest
  <2>14. EventJoinsOwnEntry' /\ EntriesReportedInOrder'
    <3>1. \A i \in Submitted : log'[i] = log[i]
      BY <2>2 DEF Submitted
    <3> QED
      BY <1>1, <1>2, <2>7, <3>1 DEF EventJoinsOwnEntry, EntriesReportedInOrder
  <2>15. RecordedCallAccounted'
    <3>1. \A i \in Submitted : i \in Submitted' /\ log'[i] = log[i]
      BY <2>2, <2>7 DEF Submitted
    <3> QED
      BY <1>1, <1>2, <1>5, <3>1, StillAccounted DEF TypeOK
  <2> QED
    BY <1>4, <2>8, <2>9, <2>10, <2>11, <2>12, <2>13, <2>14, <2>15 DEF IInv
<1> QED
  BY <1>6, <1>7 DEF ExitReserve, NewSlot, AfterFull, Goto

(* The entry is deleted and the thread returns to user code; the call is    *)
(* dropped, or its record is in the ring.                                   *)
LEMMA EntryDeleted ==
  ASSUME IInv, NEW id \in Ids, thr[id] \in {"drop", "delete"},
         inflight' = DeleteElem(inflight, id), thr' = [thr EXCEPT ![id] = "user"],
         dropped \subseteq dropped', dropped' \subseteq Nat,
         thr[id] = "drop" => call[id] \in dropped',
         call' = call, calls' = calls, log' = log, recorded' = recorded,
         missed' = missed, life' = life, target' = target, cons' = cons,
         slot' = slot
  PROVE  IInv'
<1>1. /\ TypeOK /\ Numbered /\ FilterKept /\ BusyOwned /\ DeleteAfterSubmit
      /\ EntryPresent /\ OwnEntry /\ CallsNotShared /\ EntryIsNewest
      /\ EntryOfRunningCall /\ EventJoinsOwnEntry /\ EntriesReportedInOrder
      /\ RecordedCallAccounted
  BY DEF IInv
<1>2. /\ thr'[id] = "user" /\ inflight'[id] = Absent
      /\ \A j \in Ids : j # id => thr'[j] = thr[j] /\ inflight'[j] = inflight[j]
      /\ thr' \in [Ids -> Places] /\ inflight' \in [Ids -> Nat]
  BY <1>1 DEF TypeOK, Places, DeleteElem, Absent
<1>3. \A i \in 1..Len(log) : log[i].id \in Ids
  BY <1>1, LogTyped
<1>4. TypeOK' /\ Numbered'
  <2>1. TypeOK'
    BY <1>1, <1>2, Zenon DEF TypeOK
  <2>2. calls \in Nat /\ \A j \in Ids : call[j] <= calls /\ inflight[j] <= calls
    BY <1>1 DEF TypeOK, Numbered
  <2>3. \A j \in Ids : inflight'[j] <= calls
    BY <1>2, <2>2 DEF Absent
  <2> QED
    BY <1>1, <2>1, <2>2, <2>3 DEF Numbered
<1>5. FilterKept'
  BY <1>1, <1>2 DEF FilterKept, Filtered
<1>6. BusyOwned' /\ DeleteAfterSubmit'
  <2>1. BusyOwned'
    <3>1. \A j \in Ids : thr'[j] = "submit" => j # id /\ thr[j] = "submit"
      BY <1>2
    <3>2. \A i \in 1..Len(log) : log[i].busy => log[i].id # id /\ thr[log[i].id] = "submit"
      BY <1>1 DEF BusyOwned
    <3>3. \A j \in Ids : thr'[j] = "submit" =>
            /\ slot[j] \in 1..Len(log)
            /\ log[slot[j]].busy /\ log[slot[j]].id = j
            /\ \A i \in 1..Len(log) : i > slot[j] => log[i].id # j
      BY <1>1, <3>1 DEF BusyOwned
    <3>4. \A i \in 1..Len(log) :
            log[i].busy => thr'[log[i].id] = "submit" /\ slot[log[i].id] = i
      <4> SUFFICES ASSUME NEW i \in 1..Len(log), log[i].busy
                   PROVE  thr'[log[i].id] = "submit" /\ slot[log[i].id] = i
        OBVIOUS
      <4>1. log[i].id \in Ids /\ log[i].id # id
        BY <1>3, <3>2
      <4>2. thr[log[i].id] = "submit" /\ slot[log[i].id] = i
        BY <1>1 DEF BusyOwned
      <4> QED
        BY <1>2, <4>1, <4>2
    <3>5. log' = log /\ slot' = slot
      OBVIOUS
    <3> QED
      BY ONLY <3>3, <3>4, <3>5 DEF BusyOwned
  <2>2. DeleteAfterSubmit'
    <3>1. ASSUME NEW j \in Ids, thr'[j] = "delete"
          PROVE  /\ slot[j] \in Submitted
                 /\ log[slot[j]].id = j /\ log[slot[j]].enter = inflight'[j]
      <4>1. inflight'[j] = inflight[j] /\ thr[j] = "delete"
        BY <1>2, <3>1
      <4> QED
        BY <1>1, <4>1 DEF DeleteAfterSubmit
    <3>2. Submitted' = Submitted /\ log' = log /\ slot' = slot
      BY DEF Submitted
    <3> QED
      BY ONLY <3>1, <3>2 DEF DeleteAfterSubmit
  <2> QED
    BY <2>1, <2>2
<1>7. EntryPresent' /\ OwnEntry' /\ CallsNotShared' /\ EntryOfRunningCall'
  BY <1>1, <1>2 DEF EntryPresent, OwnEntry, CallsNotShared, EntryOfRunningCall,
                    InSyscall, InHandler
<1>8. EntryIsNewest'
  BY <1>1, <1>2, <1>3 DEF EntryIsNewest
<1>9. EventJoinsOwnEntry' /\ EntriesReportedInOrder'
  BY <1>1 DEF EventJoinsOwnEntry, EntriesReportedInOrder, Submitted
<1>10. RecordedCallAccounted'
  <2>1. ASSUME NEW j \in Ids, thr[j] \in InSyscall, <<j, call[j]>> \in recorded
        PROVE  \/ thr'[j] \in InSyscall /\ call'[j] = call[j]
               \/ call[j] \in missed' \cup dropped'
               \/ \E i \in Submitted' : log'[i].id = j /\ log'[i].enter = call[j]
    <3>1. CASE j # id \/ thr[id] = "drop"
      BY <1>2, <2>1, <3>1
    <3>2. CASE j = id /\ thr[id] = "delete"
      <4>1. slot[id] \in Submitted /\ log[slot[id]].id = id
            /\ log[slot[id]].enter = inflight[id]
        BY <1>1, <3>2 DEF DeleteAfterSubmit
      <4>2. inflight[id] = call[id]
        BY <1>1, <2>1, <3>2 DEF OwnEntry
      <4> QED
        BY <3>2, <4>1, <4>2 DEF Submitted
    <3> QED
      BY <3>1, <3>2
  <2>2. calls' \in Nat
    BY <1>1 DEF TypeOK
  <2> QED
    BY <1>1, <2>1, <2>2, StillAccounted DEF Submitted
<1> QED
  BY <1>4, <1>5, <1>6, <1>7, <1>8, <1>9, <1>10 DEF IInv

(* The two ways to delete the entry: at a full ring, and after the submit.  *)
LEMMA ExitDropInv ==
  ASSUME IInv, NEW id \in Ids, ExitDrop(id)
  PROVE  IInv'
<1>1. TypeOK
  BY DEF IInv
<1>2. dropped \subseteq dropped' /\ dropped' \subseteq Nat /\ call[id] \in dropped'
  BY <1>1, Zenon DEF ExitDrop, DropDelete, TypeOK
<1> QED
  BY <1>2, EntryDeleted, Zenon DEF ExitDrop, DropDelete, Goto

(* The record of the call is in the ring when its entry goes.               *)
LEMMA ExitDeleteInv ==
  ASSUME IInv, NEW id \in Ids, ExitDelete(id)
  PROVE  IInv'
<1>1. dropped' \subseteq Nat /\ dropped' = dropped /\ recorded' = recorded /\ missed' = missed
  BY DEF IInv, TypeOK, ExitDelete, SubmitDelete, history
<1> QED
  BY <1>1, EntryDeleted, Zenon DEF ExitDelete, SubmitDelete, Goto

(* The record is filled from the entry and submitted.                       *)
LEMMA ExitSubmitInv ==
  ASSUME IInv, NEW id \in Ids, ExitSubmit(id)
  PROVE  IInv'
<1> DEFINE s == slot[id]
           r == [id |-> id, busy |-> FALSE, enter |-> inflight[id], ret |-> call[id]]
<1>1. /\ TypeOK /\ Numbered /\ FilterKept /\ BusyOwned /\ DeleteAfterSubmit
      /\ EntryPresent /\ OwnEntry /\ CallsNotShared /\ EntryIsNewest
      /\ EntryOfRunningCall /\ EventJoinsOwnEntry /\ EntriesReportedInOrder
      /\ RecordedCallAccounted
  BY DEF IInv
<1>2. /\ call' = call /\ calls' = calls /\ inflight' = inflight
      /\ recorded' = recorded /\ dropped' = dropped /\ missed' = missed
      /\ life' = life /\ target' = target /\ cons' = cons /\ slot' = slot
      /\ thr[id] = "submit" /\ thr' = [thr EXCEPT ![id] = "delete"]
      /\ log' = [log EXCEPT ![s] = r]
  BY DEF ExitSubmit, Filled, history, Goto
<1>3. /\ thr'[id] = "delete" /\ \A j \in Ids : j # id => thr'[j] = thr[j]
      /\ thr' \in [Ids -> Places]
  BY <1>1, <1>2 DEF TypeOK, Places, InSyscall, InHandler
<1>4. /\ s \in 1..Len(log) /\ log[s].busy /\ log[s].id = id
      /\ \A i \in 1..Len(log) : i > s => log[i].id # id
  BY <1>1, <1>2 DEF BusyOwned
<1>5. /\ r \in Records
      /\ r.id = id /\ ~r.busy /\ r.enter = inflight[id] /\ r.ret = call[id]
  BY <1>1 DEF Records, TypeOK
<1>6. \A i \in 1..Len(log) : log[i].id \in Ids /\ log[i].enter \in Nat
  BY <1>1, LogTyped
<1>7. s = slot[id] /\ log \in Seq(Records)
  BY <1>1 DEF TypeOK
<1> HIDE DEF s, r
<1>8. /\ log' \in Seq(Records) /\ Len(log') = Len(log) /\ log'[s] = r
      /\ \A i \in 1..Len(log) : i # s => log'[i] = log[i]
  <2>1. log' = [log EXCEPT ![s] = r] /\ s \in 1..Len(log) /\ r \in Records
    BY <1>2, <1>4, <1>5
  <2> QED
    BY ONLY <1>7, <2>1, ExceptSeq
<1>9. Submitted' = Submitted \cup {s} /\ s \notin Submitted
  BY <1>4, <1>5, <1>8 DEF Submitted
<1>10. TypeOK'
  BY <1>1, <1>2, <1>3, <1>8, Zenon DEF TypeOK
<1>11. Numbered'
  BY <1>1, <1>2, <1>5, <1>8 DEF Numbered
<1>12. FilterKept'
  <2>1. ~Filtered(id) /\ life # "open"
    BY <1>1, <1>2 DEF FilterKept, EntryPresent, InHandler
  <2> QED
    BY <1>1, <1>2, <1>5, <1>8, <2>1 DEF FilterKept, Filtered
<1>13. BusyOwned'
  <2>1. ASSUME NEW j \in Ids, thr'[j] = "submit"
        PROVE  /\ slot[j] \in 1..Len(log')
               /\ log'[slot[j]].busy /\ log'[slot[j]].id = j
               /\ \A i \in 1..Len(log') : i > slot[j] => log'[i].id # j
    <3>1. j # id /\ thr[j] = "submit"
      BY <1>3, <2>1
    <3>2. /\ slot[j] \in 1..Len(log) /\ log[slot[j]].busy /\ log[slot[j]].id = j
          /\ \A i \in 1..Len(log) : i > slot[j] => log[i].id # j
      BY <1>1, <3>1 DEF BusyOwned
    <3>3. slot[j] # s
      BY <1>4, <3>1, <3>2
    <3> QED
      BY <1>5, <1>8, <3>1, <3>2, <3>3, SMTT(30)
  <2>2. ASSUME NEW i \in 1..Len(log'), log'[i].busy
        PROVE  thr'[log'[i].id] = "submit" /\ slot[log'[i].id] = i
    <3>1. i # s /\ log'[i] = log[i]
      BY <1>5, <1>8, <2>2
    <3>2. thr[log[i].id] = "submit" /\ slot[log[i].id] = i
      BY <1>1, <1>8, <2>2, <3>1 DEF BusyOwned
    <3>3. log[i].id \in Ids /\ log[i].id # id
      BY <1>6, <1>7, <1>8, <3>1, <3>2
    <3> QED
      BY <1>3, <3>1, <3>2, <3>3
  <2> QED
    BY <1>2, <2>1, <2>2 DEF BusyOwned
<1>14. DeleteAfterSubmit'
  <2>1. ASSUME NEW j \in Ids, thr'[j] = "delete"
        PROVE  /\ slot[j] \in Submitted' /\ log'[slot[j]].id = j
               /\ log'[slot[j]].enter = inflight[j]
    <3>1. CASE j = id
      BY <1>5, <1>7, <1>8, <1>9, <3>1
    <3>2. CASE j # id
      <4>1. /\ slot[j] \in Submitted /\ log[slot[j]].id = j
            /\ log[slot[j]].enter = inflight[j]
        BY <1>1, <1>3, <2>1, <3>2 DEF DeleteAfterSubmit
      <4> QED
        BY <1>8, <1>9, <4>1 DEF Submitted
    <3> QED
      BY <3>1, <3>2
  <2> QED
    BY <1>2, <2>1 DEF DeleteAfterSubmit
<1>15. EntryPresent' /\ OwnEntry' /\ CallsNotShared' /\ EntryOfRunningCall'
  <2>1. \A j \in Ids : thr[j] \in InSyscall <=> thr'[j] \in InSyscall
    BY <1>2, <1>3 DEF InSyscall, InHandler
  <2>2. \A j \in Ids : thr[j] \in InHandler <=> thr'[j] \in InHandler
    BY <1>2, <1>3 DEF InHandler
  <2> QED
    BY <1>1, <1>2, <2>1, <2>2
    DEF EntryPresent, OwnEntry, CallsNotShared, EntryOfRunningCall
<1>16. \A i \in Submitted : log[i].id = id => i < s /\ log[i].enter < inflight[id]
  <2> SUFFICES ASSUME NEW i \in Submitted, log[i].id = id
               PROVE  i < s /\ log[i].enter < inflight[id]
    OBVIOUS
  <2>1. i \in 1..Len(log) /\ i # s /\ ~log[i].busy
    BY <1>9 DEF Submitted
  <2>2. inflight[id] # Absent
    BY <1>1, <1>2 DEF EntryPresent, InHandler
  <2>3. Len(log) \in Nat
    BY <1>1, LogTyped
  <2>4. i < s
    BY <1>4, <2>1, <2>3
  <2> QED
    BY <1>1, <1>2, <2>1, <2>2, <2>4 DEF EntryIsNewest
<1>17. EntryIsNewest'
  <2> SUFFICES ASSUME NEW i \in 1..Len(log), ~log'[i].busy,
                      inflight[log'[i].id] # Absent
               PROVE  \/ log'[i].enter < inflight[log'[i].id]
                      \/ thr'[log'[i].id] = "delete" /\ slot[log'[i].id] = i
    BY <1>2, <1>8 DEF EntryIsNewest
  <2>1. CASE i = s
    BY <1>3, <1>5, <1>7, <1>8, <2>1
  <2>2. CASE i # s
    <3>1. log'[i] = log[i] /\ i \in Submitted /\ log[i].id \in Ids
      BY <1>6, <1>8, <2>2 DEF Submitted
    <3>2. CASE log[i].id = id
      BY <1>16, <3>1, <3>2
    <3>3. CASE log[i].id # id
      BY <1>1, <1>3, <3>1, <3>3 DEF EntryIsNewest
    <3> QED
      BY <3>2, <3>3
  <2> QED
    BY <2>1, <2>2
<1>18. EventJoinsOwnEntry'
  <2>1. <<id, call[id]>> \in recorded => inflight[id] = call[id]
    BY <1>1, <1>2 DEF OwnEntry, InSyscall, InHandler
  <2>2. \A i \in Submitted : log'[i] = log[i]
    BY <1>8, <1>9 DEF Submitted
  <2>3. ASSUME NEW i \in Submitted', <<log'[i].id, log'[i].ret>> \in recorded
        PROVE  log'[i].enter = log'[i].ret
    <3>1. CASE i = s
      BY <1>5, <1>8, <2>1, <2>3, <3>1
    <3>2. CASE i \in Submitted
      BY <1>1, <2>2, <2>3, <3>2 DEF EventJoinsOwnEntry
    <3> QED
      BY <1>9, <3>1, <3>2
  <2> QED
    BY <1>2, <2>3 DEF EventJoinsOwnEntry
<1>19. EntriesReportedInOrder'
  <2> SUFFICES ASSUME NEW i \in Submitted', NEW j \in Submitted', i < j,
                      log'[i].id = log'[j].id
               PROVE  log'[i].enter < log'[j].enter
    BY DEF EntriesReportedInOrder
  <2>1. \A k \in Submitted : log'[k] = log[k] /\ k \in 1..Len(log)
    BY <1>8, <1>9 DEF Submitted
  <2>2. CASE i \in Submitted /\ j \in Submitted
    BY <1>1, <2>1, <2>2 DEF EntriesReportedInOrder
  <2>3. CASE i \in Submitted /\ j = s
    BY <1>5, <1>8, <1>16, <2>1, <2>3
  <2>4. CASE i = s
    <3>1. j \in Submitted /\ log[j].id = id
      BY <1>4, <1>5, <1>8, <1>9, <2>1, <2>4
    <3> QED
      BY <1>4, <1>16, <2>1, <2>4, <3>1
  <2> QED
    BY <1>9, <2>2, <2>3, <2>4
<1>20. RecordedCallAccounted'
  <2>1. \A i \in Submitted : i \in Submitted' /\ log'[i] = log[i]
    BY <1>8, <1>9 DEF Submitted
  <2>2. \A j \in Ids : thr[j] \in InSyscall => thr'[j] \in InSyscall /\ call'[j] = call[j]
    BY <1>2, <1>3 DEF InSyscall, InHandler
  <2> QED
    BY <1>1, <1>2, <2>1, <2>2, StillAccounted DEF TypeOK
<1> QED
  BY <1>10, <1>11, <1>12, <1>13, <1>14, <1>15, <1>17, <1>18, <1>19, <1>20 DEF IInv
=============================================================================
