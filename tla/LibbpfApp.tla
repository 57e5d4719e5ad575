------------------------------ MODULE LibbpfApp ------------------------------
(***************************************************************************)
(* libbpfapp: the program on the sys_enter_execve tracepoint                *)
(* (libbpfapp.bpf.c), which uses an element of the hash map execs as its    *)
(* scratch memory, and main (libbpfapp.c).  Threads run the program         *)
(* concurrently; all of them share execs, each under its tid.               *)
(*                                                                         *)
(* Data.  Every execve has a number, which stands for tgid, uid, comm and   *)
(* args of its event.                                                       *)
(***************************************************************************)
EXTENDS BpfMaps

CONSTANTS
  Ids,        \* threads, as <<tgid, tid>>
  ExecsMax,   \* max_entries of execs (10240 in the code)
  MaxCalls,   \* bound on the calls of execve
  ErrNos      \* what -err of a failing library call can be

(* ErrNos: errno of the kernel, ENOTSUPP, and the numbers of libbpf.        *)
ASSUME AppAssumption ==
  /\ Ids \subseteq (Nat \ {0}) \X (Nat \ {0}) /\ IsFiniteSet(Ids)
  /\ ExecsMax \in Nat \ {0} /\ MaxCalls \in Nat
  /\ ErrNos \subseteq 1..133 \cup {524} \cup 4000..4013

Tgid(id) == id[1]
Tid(id) == id[2]
Tids == {Tid(id) : id \in Ids}

MainPid == 1        \* getpid() of main
Zeroed == -1        \* empty_event

VARIABLES
  at,       \* at[id]: "dead", "user", or the next step of the program
  call,     \* call[id]: the execve the thread made last
  calls,    \* number of calls made so far
  mine,     \* mine[id]: the pid the program found in my_pid_map
  execs,    \* the hash map: tid -> event
  my_pid,   \* the element of the array my_pid_map
  pc,       \* the next statement of main
  err,      \* the local err of main
  held,     \* what main has to release: of "skel", "link"
  status    \* exit status of main; -1: runs, -2: ended by a signal

progVars == <<at, call, calls, mine, execs>>
mainVars == <<my_pid, pc, err, held, status>>
vars == <<progVars, mainVars>>

(* Between insertion and deletion of the event.                             *)
Inside == {"lookup", "fill", "delete"}
Places == {"dead", "user", "insert"} \cup Inside

Live == {id \in Ids : at[id] # "dead"}

(* A tid belongs to one live thread, and the tid of a leader stays taken    *)
(* while its process has a thread.                                          *)
TidsUnique ==
  \A i, j \in Live :
    (Tid(i) = Tid(j) => i = j) /\ (Tgid(i) # Tgid(j) => Tid(i) # Tgid(j))

Goto(id, p) == at' = [at EXCEPT ![id] = p]

Init ==
  /\ at \in [Ids -> {"dead", "user"}] /\ TidsUnique
  /\ call = [id \in Ids |-> 0] /\ calls = 0
  /\ mine = [id \in Ids |-> 0]
  /\ execs = [k \in Tids |-> Absent]
  /\ my_pid = 0 /\ pc = "load" /\ err = 0 /\ held = {} /\ status = -1
-----------------------------------------------------------------------------
(***************************************************************************)
(* The program, tracepoint__syscalls__sys_enter_execve.                     *)
(***************************************************************************)

(* Mutant: pid keeps its first value, the tgid.                             *)
Key_tgid(id) == IF Tgid(id) \in Tids THEN Tgid(id) ELSE Tid(id)

(* pid = (pid_t)id, which replaces the tgid pid was initialised with.       *)
Key(id) == Tid(id)

(* A thread calls execve; the program prints my_pid_map[0].                 *)
Execve(id) ==
  /\ at[id] = "user"
  /\ "link" \in held
  /\ calls < MaxCalls
  /\ calls' = calls + 1
  /\ call' = [call EXCEPT ![id] = calls + 1]
  /\ mine' = [mine EXCEPT ![id] = my_pid]
  /\ Goto(id, "insert")
  /\ UNCHANGED <<execs, mainVars>>

(* bpf_map_update_elem(&execs, &pid, &empty_event, BPF_NOEXIST), or return. *)
Insert(id) ==
  /\ at[id] = "insert"
  /\ \/ /\ CanInsert(execs, Key(id), ExecsMax)
        /\ execs' = [execs EXCEPT ![Key(id)] = Zeroed]
        /\ Goto(id, "lookup")
     \/ /\ ~CanInsert(execs, Key(id), ExecsMax)
        /\ Goto(id, "user")
        /\ UNCHANGED execs
  /\ UNCHANGED <<call, calls, mine, mainVars>>

(* bpf_map_lookup_elem; without an element the program returns.             *)
Lookup(id) ==
  /\ at[id] = "lookup"
  /\ Goto(id, IF execs[Key(id)] = Absent THEN "user" ELSE "fill")
  /\ UNCHANGED <<call, calls, mine, execs, mainVars>>

(* pid, uid, comm and args, through the pointer into the map.               *)
Fill(id) ==
  /\ at[id] = "fill"
  /\ execs' = [execs EXCEPT ![Key(id)] = call[id]]
  /\ Goto(id, "delete")
  /\ UNCHANGED <<call, calls, mine, mainVars>>

(* Mutant: the program returns after it has printed.                        *)
Delete_none(id) ==
  /\ at[id] = "delete"
  /\ Goto(id, "user")
  /\ UNCHANGED <<call, calls, mine, execs, mainVars>>

(* Mutant: the element of the tgid is deleted.                              *)
Delete_tgid(id) ==
  /\ at[id] = "delete"
  /\ execs' = DeleteElem(execs, Key_tgid(id))
  /\ Goto(id, "user")
  /\ UNCHANGED <<call, calls, mine, mainVars>>

(* The event is printed and deleted.                                        *)
Delete(id) ==
  /\ at[id] = "delete"
  /\ execs' = DeleteElem(execs, Key(id))
  /\ Goto(id, "user")
  /\ UNCHANGED <<call, calls, mine, mainVars>>

(* Threads end and start; a tid is reused once it is free, and a thread     *)
(* that is not a leader is started by a thread of its process (external).   *)
ThreadEnd(id) ==
  /\ at[id] = "user"
  /\ Goto(id, "dead")
  /\ UNCHANGED <<call, calls, mine, execs, mainVars>>

ThreadStart(id) ==
  /\ at[id] = "dead"
  /\ \A j \in Live : Tid(id) # Tid(j) /\ Tid(id) # Tgid(j)
  /\ Tid(id) = Tgid(id) \/ \E j \in Live : Tgid(j) = Tgid(id)
  /\ Goto(id, "user")
  /\ UNCHANGED <<call, calls, mine, execs, mainVars>>
-----------------------------------------------------------------------------
(***************************************************************************)
(* main.                                                                    *)
(***************************************************************************)

(* open_and_load fails with return 1.                                       *)
OpenAndLoad ==
  /\ pc = "load"
  /\ \/ pc' = "done" /\ status' = 1 /\ UNCHANGED held
     \/ pc' = "my_pid" /\ held' = {"skel"} /\ UNCHANGED status
  /\ UNCHANGED <<my_pid, err, progVars>>

(* Mutant: main goes on without having written its pid.                     *)
UpdateMyPid_none ==
  /\ pc = "my_pid"
  /\ pc' = "attach"
  /\ UNCHANGED <<my_pid, err, held, status, progVars>>

(* The pid of main goes to my_pid_map, before the program is attached.      *)
UpdateMyPid ==
  /\ pc = "my_pid"
  /\ \/ /\ \E e \in ErrNos : err' = -e
        /\ pc' = "cleanup" /\ UNCHANGED my_pid
     \/ my_pid' = MainPid /\ err' = 0 /\ pc' = "attach"
  /\ UNCHANGED <<held, status, progVars>>

Attach ==
  /\ pc = "attach"
  /\ \/ /\ \E e \in ErrNos : err' = -e
        /\ pc' = "cleanup" /\ UNCHANGED held
     \/ held' = held \cup {"link"} /\ err' = 0 /\ pc' = "system"
  /\ UNCHANGED <<my_pid, status, progVars>>

(* system("cat /sys/kernel/tracing/trace_pipe") returns; SIGINT ends cat    *)
(* only, and the result of system is not looked at.                         *)
System ==
  /\ pc = "system"
  /\ pc' = "cleanup"
  /\ UNCHANGED <<my_pid, err, held, status, progVars>>

(* Mutant: return 0.                                                        *)
ExitStatus_zero(e) == 0

(* return -err, of which the parent sees eight bits.                        *)
ExitStatus(e) == (-e) % 256

(* libbpfapp_bpf__destroy detaches the program and frees the maps.          *)
Destroy ==
  /\ pc = "cleanup"
  /\ held' = {}
  /\ pc' = "done" /\ status' = ExitStatus(err)
  /\ UNCHANGED <<my_pid, err, progVars>>

(* SIGTERM, or SIGINT outside system(): the process ends and the kernel     *)
(* releases what it held.                                                   *)
Killed ==
  /\ pc # "done"
  /\ pc' = "done" /\ status' = -2 /\ held' = {}
  /\ UNCHANGED <<my_pid, err, progVars>>

Program(id) == Insert(id) \/ Lookup(id) \/ Fill(id) \/ Delete(id)

Next ==
  \/ \E id \in Ids : Execve(id) \/ Program(id) \/ ThreadEnd(id) \/ ThreadStart(id)
  \/ OpenAndLoad \/ UpdateMyPid \/ Attach \/ System \/ Destroy \/ Killed

Spec == Init /\ [][Next]_vars

(* A BPF program that has started runs to its end.                          *)
FairSpec == Spec /\ \A id \in Ids : WF_vars(Program(id))
-----------------------------------------------------------------------------
(* Every variable has its type.                                             *)
TypeOK ==
  /\ at \in [Ids -> Places] /\ call \in [Ids -> Nat] /\ calls \in Nat
  /\ mine \in [Ids -> {0, MainPid}] /\ execs \in [Tids -> Int]
  /\ my_pid \in {0, MainPid}
  /\ pc \in {"load", "my_pid", "attach", "system", "cleanup", "done"}
  /\ err \in Int /\ held \subseteq {"skel", "link"} /\ status \in -2..255

(* execs is scratch memory: an element exists only while a live thread with *)
(* that tid is between insertion and deletion.  No path leaks one, so       *)
(* ExecsMax threads inside the program are the only reason for a full map.  *)
ElementsInUse ==
  \A k \in Keys(execs) : \E id \in Ids : Tid(id) = k /\ at[id] \in Inside

(* An execve goes unreported only while ExecsMax other threads are inside   *)
(* the program: BPF_NOEXIST never refuses a call because of what an earlier *)
(* call of the thread, of its process or of a dead thread with its tid left.*)
RefusedOnlyWhenFull ==
  [][\A id \in Ids : at[id] = "insert" /\ at'[id] = "user" =>
       Cardinality({Tid(j) : j \in {i \in Ids : at[i] \in Inside}}) >= ExecsMax]_vars

(* What the program prints after filling its element is the event of its    *)
(* own call, and the pointer from the lookup stays valid until the deletion.*)
PrintsOwnEvent ==
  \A id \in Ids :
    /\ at[id] \in Inside => execs[Tid(id)] # Absent
    /\ at[id] = "delete" => execs[Tid(id)] = call[id]

(* The program never runs before my_pid_map holds the pid of main.          *)
MyPidKnown == \A id \in Ids : at[id] \in Inside => mine[id] = MainPid

(* When main is over nothing is attached or held, and a library call that   *)
(* failed has left its mark in the eight bits of the exit status.           *)
ReleasedAndReported ==
  pc = "done" => held = {} /\ (err < 0 => status # 0)

(* Every element is deleted again.                                          *)
ElementsReturn == \A k \in Tids : execs[k] # Absent ~> execs[k] = Absent
=============================================================================
