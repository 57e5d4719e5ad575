---------------------------- MODULE StraceKernel -----------------------------
(***************************************************************************)
(* libbpfstrace/libbpfstrace.bpf.c: the two raw-tracepoint programs that    *)
(* join the entry and the exit of every system call of the traced process.  *)
(*                                                                         *)
(* handle_sys_enter stores what it saw at the entry in the hash map         *)
(* inflight, under the key bpf_get_current_pid_tgid(); handle_sys_exit      *)
(* looks the entry up under the same key, reserves a record of the ring     *)
(* buffer events, fills it, submits it and deletes the entry.  The threads  *)
(* of the machine run the programs concurrently, each on its own CPU, and   *)
(* user space consumes the ring buffer in the order of reservation.         *)
(*                                                                         *)
(* Data.  Every system call the machine makes gets a number.  The number    *)
(* stands for everything handle_sys_enter captures about the call (number,  *)
(* arguments, comm, string, sockaddr) and for the value it returns, so      *)
(* "this record carries the arguments of call 3 and the result of call 5"   *)
(* is  enter = 3 /\ ret = 5.                                                *)
(***************************************************************************)
EXTENDS BpfMaps, Sequences

CONSTANTS
  Ids,          \* values of bpf_get_current_pid_tgid(): <<tgid, tid>>
  InflightMax,  \* max_entries of inflight (16384 in the code)
  RingMax,      \* records that fit into events (1 << 24 bytes in the code)
  MaxCalls      \* bound on the system calls of a behaviour

ASSUME KernelAssumption ==
  /\ Ids \subseteq (Nat \ {0}) \X (Nat \ {0})
  /\ \A id \in Ids : <<id[1], id[1]>> \in Ids
  /\ InflightMax \in Nat \ {0}
  /\ RingMax \in Nat \ {0}
  /\ MaxCalls \in Nat

Tgid(id) == id[1]                       \* id >> 32
Tid(id) == id[2]                        \* (int)id
Leader(id) == <<Tgid(id), Tgid(id)>>    \* the thread whose tid is the tgid
Tgids == {Tgid(id) : id \in Ids}

VARIABLES
  life,      \* which programs are attached, see Lives
  target,    \* target_tgid of .rodata; 0: trace every process
  thr,       \* thr[id]: where the thread with this id is, see Places
  call,      \* call[id]: the system call the thread made last
  calls,     \* number of system calls made so far
  inflight,  \* the hash map: id -> call seen at entry, or Absent
  log,       \* the ring buffer: every record ever reserved, in order
  cons,      \* consumer position: log[1..cons] has reached handle_event
  slot       \* slot[id]: position of the record the thread reserved

(***************************************************************************)
(* History of the behaviour, read by the properties and by no action.       *)
(***************************************************************************)
VARIABLES
  recorded,  \* <<id, c>>: the entry of call c was stored under id
  dropped,   \* calls whose record was dropped because the ring was full
  missed     \* calls whose exit handle_sys_exit did not see under their id

kernelVars == <<life, target, thr, call, calls, inflight, log, cons, slot>>
history == <<recorded, dropped, missed>>
vars == <<kernelVars, history>>

(***************************************************************************)
(* "open": loaded or not, .rodata may still be written; "enter": only       *)
(* sys_enter is attached; "both"; "exit": only sys_exit is left attached;   *)
(* "gone": the skeleton is destroyed.                                       *)
(***************************************************************************)
Lives == {"open", "enter", "both", "exit", "gone"}
EnterAttached == life \in {"enter", "both"}
ExitAttached == life \in {"both", "exit"}

(***************************************************************************)
(* "dead": no such thread; "user": runs user code; "kernel": inside a       *)
(* system call; the other places are inside handle_sys_exit, named for what *)
(* the program does next.                                                   *)
(***************************************************************************)
InHandler == {"reserve", "drop", "submit", "delete"}
InSyscall == {"kernel"} \cup InHandler
Places == {"dead", "user"} \cup InSyscall

Records == [id : Ids, busy : BOOLEAN, enter : Nat, ret : Nat]

Live == {id \in Ids : thr[id] # "dead"}

Goto(id, p) == thr' = [thr EXCEPT ![id] = p]

(* target_tgid != 0 && tgid != target_tgid: both programs return at once.   *)
Filtered(id) == target # 0 /\ Tgid(id) # target

(***************************************************************************)
(* A tid belongs to one live thread, and the tid of a leader stays taken    *)
(* while its process has a thread, even when the leader itself has exited.  *)
(***************************************************************************)
TidTaken(t) == \E id \in Live : Tid(id) = t \/ Tgid(id) = t

Init ==
  /\ life = "open"
  /\ target = 0
  /\ thr \in [Ids -> {"dead", "user", "kernel"}]
  /\ \A i, j \in Live :
       i # j => Tid(i) # Tid(j) /\ (Tgid(i) # Tgid(j) => Tid(i) # Tgid(j))
  /\ call = [id \in Ids |-> 0]
  /\ calls = 0
  /\ inflight = [id \in Ids |-> Absent]
  /\ log = << >>
  /\ cons = 0
  /\ slot = [id \in Ids |-> 0]
  /\ recorded = {} /\ dropped = {} /\ missed = {}
-----------------------------------------------------------------------------
(***************************************************************************)
(* The threads of the machine (external: the Linux kernel).                 *)
(***************************************************************************)

(* The key of inflight.  Mutant: the process instead of the thread.         *)
Key_tgid(id) == Leader(id)
Key(id) == id

(* handle_sys_enter of call c: filter, capture, store under id.  The result *)
(* of bpf_map_update_elem is ignored by the code.                           *)
handle_sys_enter(id, c) ==
  LET k == Key(id)
      stored == ~Filtered(id) /\ HasRoom(inflight, k, InflightMax) IN
  /\ inflight' = IF Filtered(id) THEN inflight
                 ELSE UpdateAny(inflight, k, c, InflightMax)
  /\ recorded' = IF stored THEN recorded \cup {<<k, c>>} ELSE recorded

(* The thread makes a system call: the sys_enter tracepoint.                *)
SysEnter(id) ==
  /\ thr[id] = "user"
  /\ calls < MaxCalls
  /\ calls' = calls + 1
  /\ call' = [call EXCEPT ![id] = calls + 1]
  /\ Goto(id, "kernel")
  /\ IF EnterAttached THEN handle_sys_enter(id, calls + 1)
                      ELSE UNCHANGED <<inflight, recorded>>
  /\ UNCHANGED <<life, target, log, cons, slot, dropped, missed>>

(* The first half of handle_sys_exit: filter and bpf_map_lookup_elem; the   *)
(* program goes on only when it finds an entry.                             *)
handle_sys_exit(id) ==
  Goto(id, IF ExitAttached /\ ~Filtered(id) /\ inflight[id] # Absent
           THEN "reserve" ELSE "user")

(* The system call returns: the sys_exit tracepoint.                        *)
SysExit(id) ==
  /\ thr[id] = "kernel"
  /\ handle_sys_exit(id)
  /\ missed' = IF ExitAttached THEN missed ELSE missed \cup {call[id]}
  /\ UNCHANGED <<life, target, call, calls, inflight, log, cons, slot,
                 recorded, dropped>>

(* seccomp refuses the call: arm64 skips the call and the sys_enter         *)
(* tracepoint, and fires sys_exit all the same.                             *)
SysDenied(id) ==
  /\ thr[id] = "user"
  /\ calls < MaxCalls
  /\ calls' = calls + 1
  /\ call' = [call EXCEPT ![id] = calls + 1]
  /\ handle_sys_exit(id)
  /\ UNCHANGED <<life, target, inflight, log, cons, slot, history>>

(* The thread ends: in exit or exit_group, which never return and have no   *)
(* sys_exit, or between two calls.  (A fatal signal is handled after the    *)
(* sys_exit of the call it interrupts.)                                     *)
ThreadEnd(id) ==
  /\ thr[id] \in {"user", "kernel"}
  /\ Goto(id, "dead")
  /\ missed' = IF thr[id] = "kernel" THEN missed \cup {call[id]} ELSE missed
  /\ UNCHANGED <<life, target, call, calls, inflight, log, cons, slot,
                 recorded, dropped>>

(* clone in a live process, or a new process whose leader gets the id.      *)
ThreadStart(id) ==
  /\ thr[id] = "dead"
  /\ ~TidTaken(Tid(id))
  /\ id = Leader(id) \/ \E j \in Live : Tgid(j) = Tgid(id) /\ thr[j] = "kernel"
  /\ Goto(id, "user")
  /\ UNCHANGED <<life, target, call, calls, inflight, log, cons, slot, history>>

(* execve by a thread that is not the leader: once the other threads of the *)
(* process are gone, the kernel gives it the tid of the leader, so the call *)
(* returns under another id than it entered with.                           *)
ExecTakeover(id) ==
  /\ thr[id] = "kernel"
  /\ id # Leader(id)
  /\ \A j \in Live : Tgid(j) = Tgid(id) => j = id
  /\ thr' = [thr EXCEPT ![id] = "dead", ![Leader(id)] = "kernel"]
  /\ call' = [call EXCEPT ![Leader(id)] = call[id]]
  /\ missed' = missed \cup {call[id]}
  /\ UNCHANGED <<life, target, calls, inflight, log, cons, slot,
                 recorded, dropped>>
-----------------------------------------------------------------------------
(***************************************************************************)
(* The rest of handle_sys_exit, once it has found the entry.  Threads and   *)
(* the consumer interleave between these steps.                             *)
(***************************************************************************)
RingFull == Len(log) - cons >= RingMax

(* Where handle_sys_exit goes when the ring is full.  Mutant: it returns at *)
(* once, past the deletion of the entry.                                    *)
AfterFull_return == "user"
AfterFull == "drop"

(* The position of a reserved record.  Mutant: that of the first record.    *)
NewSlot_first == 1
NewSlot == Len(log) + 1

(* bpf_ringbuf_reserve: a busy record at the producer position, or NULL.    *)
ExitReserve(id) ==
  /\ thr[id] = "reserve"
  /\ \/ /\ RingFull
        /\ Goto(id, AfterFull)
        /\ UNCHANGED <<log, slot>>
     \/ /\ ~RingFull
        /\ log' = Append(log, [id |-> id, busy |-> TRUE, enter |-> 0, ret |-> 0])
        /\ slot' = [slot EXCEPT ![id] = NewSlot]
        /\ Goto(id, "submit")
  /\ UNCHANGED <<life, target, call, calls, inflight, cons, history>>

(* bpf_map_delete_elem on either path.  Mutants: the entry stays.           *)
DropDelete_leak(id) == inflight
DropDelete(id) == DeleteElem(inflight, id)
SubmitDelete_keep(id) == inflight
SubmitDelete(id) == DeleteElem(inflight, id)

(* The ring was full: delete the entry and give the event up.               *)
ExitDrop(id) ==
  /\ thr[id] = "drop"
  /\ inflight' = DropDelete(id)
  /\ dropped' = dropped \cup {call[id]}
  /\ Goto(id, "user")
  /\ UNCHANGED <<life, target, call, calls, log, cons, slot, recorded, missed>>

(* The entry, through the pointer the lookup returned, and the result of    *)
(* the call.  Mutant: bpf_ringbuf_submit is forgotten.                      *)
Filled_busy(id) == [id |-> id, busy |-> TRUE, enter |-> inflight[id], ret |-> call[id]]
Filled(id) == [id |-> id, busy |-> FALSE, enter |-> inflight[id], ret |-> call[id]]

ExitSubmit(id) ==
  /\ thr[id] = "submit"
  /\ log' = [log EXCEPT ![slot[id]] = Filled(id)]
  /\ Goto(id, "delete")
  /\ UNCHANGED <<life, target, call, calls, inflight, cons, slot, history>>

(* The last step, bpf_map_delete_elem(&inflight, &id).                      *)
ExitDelete(id) ==
  /\ thr[id] = "delete"
  /\ inflight' = SubmitDelete(id)
  /\ Goto(id, "user")
  /\ UNCHANGED <<life, target, call, calls, log, cons, slot, history>>

(* The next record is submitted.  Mutant: the consumer does not compare its *)
(* position with the producer's.                                            *)
Ready_past == cons <= Len(log)
Ready == cons < Len(log) /\ ~log[cons + 1].busy

(* ring_buffer__poll hands the next submitted record to handle_event; it    *)
(* stops at a record that is still busy.  The ring buffer is mapped after   *)
(* both programs are attached and freed before the first is detached.       *)
Consume ==
  /\ life = "both"
  /\ Ready
  /\ cons' = cons + 1
  /\ UNCHANGED <<life, target, thr, call, calls, inflight, log, slot, history>>
-----------------------------------------------------------------------------
(***************************************************************************)
(* What the user-space program does to the programs: write .rodata, then    *)
(* attach and detach them one after the other, in the skeleton's order.     *)
(***************************************************************************)
SetLife(from, to) ==
  /\ life = from
  /\ life' = to
  /\ UNCHANGED <<target, thr, call, calls, inflight, log, cons, slot, history>>

(* .rodata can be written until the load.  Mutant: at any time.             *)
Writable_late == TRUE
Writable == life = "open"

SetTarget(g) ==
  /\ Writable
  /\ target' = g
  /\ UNCHANGED <<life, thr, call, calls, inflight, log, cons, slot, history>>

AttachEnter == SetLife("open", "enter")
AttachExit == SetLife("enter", "both")
DetachEnter == SetLife("both", "exit") \/ SetLife("enter", "gone")
DetachExit == SetLife("exit", "gone")

Thread(id) ==
  \/ SysEnter(id) \/ SysExit(id) \/ SysDenied(id)
  \/ ThreadEnd(id) \/ ThreadStart(id) \/ ExecTakeover(id)

Handler(id) ==
  ExitReserve(id) \/ ExitDrop(id) \/ ExitSubmit(id) \/ ExitDelete(id)

Lifecycle ==
  \/ \E g \in Tgids : SetTarget(g)
  \/ AttachEnter \/ AttachExit \/ DetachEnter \/ DetachExit

Next ==
  \/ \E id \in Ids : Thread(id) \/ Handler(id)
  \/ Consume
  \/ Lifecycle

Spec == Init /\ [][Next]_vars

(* A BPF program runs to completion, and user space polls the ring as long  *)
(* as both programs are attached.                                           *)
Fairness == (\A id \in Ids : WF_vars(Handler(id))) /\ WF_vars(Consume)

FairSpec == Spec /\ Fairness
-----------------------------------------------------------------------------
Submitted == {i \in 1..Len(log) : ~log[i].busy}

(* Every variable has its type.                                             *)
TypeOK ==
  /\ life \in Lives
  /\ target \in {0} \cup Tgids
  /\ thr \in [Ids -> Places]
  /\ call \in [Ids -> Nat]
  /\ calls \in Nat
  /\ inflight \in [Ids -> Nat]
  /\ log \in Seq(Records)
  /\ cons \in 0..Len(log)
  /\ slot \in [Ids -> Nat]
  /\ recorded \subseteq Ids \X Nat
  /\ dropped \subseteq Nat
  /\ missed \subseteq Nat

(* handle_sys_exit joins a result to the arguments of the same call: when   *)
(* the call that returned was stored at its entry under this id, the record *)
(* carries that entry, whatever other threads, a full map, a reused tid, an *)
(* execve or a half-attached pair of programs did in between.               *)
EventJoinsOwnEntry ==
  \A i \in Submitted :
    <<log[i].id, log[i].ret>> \in recorded => log[i].enter = log[i].ret

(* target_tgid is honoured end to end: no record of another process is ever *)
(* reserved, although the two programs check the filter separately and      *)
(* .rodata is written by user space before they are attached.               *)
TargetOnly ==
  target # 0 => \A i \in 1..Len(log) : Tgid(log[i].id) = target

(* No entry is reported twice, and the records of one thread leave the ring *)
(* in the order in which the thread made its calls.                         *)
EntriesReportedInOrder ==
  \A i, j \in Submitted :
    i < j /\ log[i].id = log[j].id => log[i].enter < log[j].enter

(* No path through handle_sys_exit leaks an inflight entry, the one on      *)
(* which the ring was full included: outside a call of its thread, an entry *)
(* exists only when its exit never reached the program.                     *)
NoLeakByHandler ==
  \A id \in Ids :
    inflight[id] # Absent => inflight[id] \in missed \/ thr[id] \in InSyscall

(* An entry that was stored is not lost silently: the call is still         *)
(* running, or its record is in the ring, or it was dropped at a full ring, *)
(* or its exit never reached the program.                                   *)
RecordedCallAccounted ==
  \A id \in Ids, c \in 1..calls : <<id, c>> \in recorded =>
    \/ thr[id] \in InSyscall /\ call[id] = c
    \/ c \in missed \cup dropped
    \/ \E i \in Submitted : log[i].id = id /\ log[i].enter = c

(* A record is written by the thread that reserved it and by no other, and  *)
(* never again once submitted; the consumer position only moves forward.    *)
SubmittedStable ==
  [][/\ cons' >= cons
     /\ \A i \in Submitted : i \in 1..Len(log') /\ log'[i] = log[i]]_vars

(* Every record that is reserved is handed to handle_event unless the       *)
(* program shuts down first: no path through handle_sys_exit leaves a busy  *)
(* record that blocks the records behind it.                                *)
EveryRecordDelivered ==
  \A n \in 1..MaxCalls : Len(log) >= n ~> cons >= n \/ life \in {"exit", "gone"}

(* What the comment on the map promises: enter and exit of one call are     *)
(* joined by pid_tgid.                                                      *)
EnterExitSameCall ==
  \A i \in Submitted : log[i].enter = log[i].ret

(* With both programs attached, inflight refuses the entry of a thread only *)
(* while max_entries threads are alive: below that, no system call of the   *)
(* traced process is missed.                                                *)
FullOnlyWithLiveThreads ==
  life = "both" /\ Cardinality(Live) < InflightMax => Cardinality(Keys(inflight)) < InflightMax
-----------------------------------------------------------------------------
(***************************************************************************)
(* The log of TraceLog in the state of the programs.  The call is finished  *)
(* when its record is submitted, although its entry is deleted later.       *)
(***************************************************************************)
Traced == {id \in Ids : ~Filtered(id)}
OpenCalls == [id \in Ids |-> IF thr[id] = "delete" THEN 0 ELSE inflight[id]]
Line(i) == [id |-> log[i].id, enter |-> log[i].enter, ret |-> log[i].ret]
Pending == {Line(i) : i \in {j \in Submitted : j > cons}}
Printed == [i \in 1..cons |-> Line(i)]

TL == INSTANCE TraceLog WITH Numbers <- 0..MaxCalls, traced <- Traced,
        begun <- recorded, open <- OpenCalls, pending <- Pending, printed <- Printed

(* The two programs, the map and the ring buffer implement the log, with    *)
(* every interleaving, attachment and loss the kernel allows.               *)
ImplementsTraceLog == TL!Spec
=============================================================================
