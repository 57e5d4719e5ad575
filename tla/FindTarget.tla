----------------------------- MODULE FindTarget ------------------------------
(***************************************************************************)
(* libbpfstrace/libbpfstrace.c: how main gets the pid it traces, from its   *)
(* argument (parse_pid) or by scanning /proc for a name (find_pid_by_name), *)
(* while processes start, end, change their names and reuse pids.           *)
(*                                                                         *)
(* Data.  A name is what process_name_match tells apart: whether it starts  *)
(* with the name asked for, and what comes next.                            *)
(***************************************************************************)
EXTENDS Integers

CONSTANTS
  IntMax,   \* largest pid parse_pid accepts (0x7fffffff in the code)
  Images    \* cmdline and comm a process can have

Names == [prefix : BOOLEAN, next : {"end", ":", "other"}]
Empty == [prefix |-> FALSE, next |-> "end"]     \* cmdline of a kernel thread

ASSUME FindAssumption ==
  /\ IntMax \in Nat \ {0}
  /\ Images \subseteq [cmdline : Names, comm : Names]

Pids == 1..IntMax
Gone == [cmdline |-> Empty, comm |-> Empty]     \* no such process

VARIABLES
  arg,         \* the argument as strtol reads it; negative: not a number
  proc,        \* proc[p]: image of the process, or Gone
  pc,          \* next step of main, after the calls of signal()
  dir,         \* entries of /proc that readdir still has buffered
  pos,         \* position in /proc: the pids up to here have been read
  v,           \* the local v
  target_pid,  \* the pid found
  exiting,     \* the flag sig_handler sets
  seen         \* history: pids that bore the name since opendir

vars == <<arg, proc, pc, dir, pos, v, target_pid, exiting, seen>>
scan == <<dir, pos, v>>

Alive(p) == proc[p] # Gone

Init ==
  /\ arg \in -1..IntMax + 1
  /\ proc \in [Pids -> Images \cup {Gone}]
  /\ pc = "args" /\ dir = {} /\ pos = 0 /\ v = 0
  /\ target_pid = 0 /\ exiting = FALSE /\ seen = {}
-----------------------------------------------------------------------------
(* Mutant: v < 0.                                                           *)
parse_pid_zero(n) == n \in 0..IntMax

(* v <= 0 || v > 0x7fffffff is refused.                                     *)
parse_pid(n) == n \in 1..IntMax

(* Mutant: the character after the prefix is not looked at.                 *)
process_name_match_prefix(n) == n.prefix

(* strcmp, or strncmp over the length of the target followed by ':'.        *)
process_name_match(n) == n.prefix /\ (n.next = "end" \/ n.next = ":")

Args ==
  /\ pc = "args"
  /\ \/ parse_pid(arg) /\ target_pid' = arg /\ pc' = "open"
     \/ ~parse_pid(arg) /\ pc' = "loop" /\ UNCHANGED target_pid
  /\ UNCHANGED <<arg, proc, scan, exiting, seen>>

(* Mutant: while (1).                                                       *)
LoopEnds_never == FALSE
LoopEnds == exiting

(* The name of a process, for the history: the one asked for, or one of its *)
(* children of the form name:suffix.                                        *)
Bears(image) ==
  \E n \in {image.cmdline, image.comm} : n.prefix /\ n.next \in {"end", ":"}

(* while (!exiting), and opendir: the entries of /proc that are not pids    *)
(* come first; 0 stands for them.                                           *)
Opendir ==
  /\ pc = "loop"
  /\ ~LoopEnds
  /\ pc' = "readdir" /\ dir' = {0} /\ pos' = 0
  /\ seen' = {p \in Pids : Bears(proc[p])}
  /\ UNCHANGED <<arg, proc, v, target_pid, exiting>>

OpendirFails ==
  /\ pc = "loop"
  /\ ~LoopEnds
  /\ pc' = "sleep"
  /\ UNCHANGED <<arg, proc, scan, target_pid, exiting, seen>>

LeaveLoop ==
  /\ pc = "loop"
  /\ LoopEnds
  /\ pc' = "found"
  /\ UNCHANGED <<arg, proc, scan, target_pid, exiting, seen>>

(* Mutant: v >= 0x7fffffff is refused as well.                              *)
is_pid_below(e) == e \in 1..IntMax - 1
is_pid(e) == e \in 1..IntMax

(* readdir hands out a buffered entry, the smallest first, and continues    *)
(* when it is no pid; an empty buffer is filled with some of the live       *)
(* processes that come next.                                                *)
Readdir ==
  /\ pc = "readdir"
  /\ \/ \E e \in dir :
          /\ \A d \in dir : e <= d
          /\ dir' = dir \ {e} /\ v' = e
          /\ pc' = IF is_pid(e) THEN "cmdline" ELSE "readdir"
          /\ UNCHANGED pos
     \/ \E last \in Pids :
          /\ dir = {} /\ last > pos /\ Alive(last)
          /\ dir' = {p \in pos + 1..last : Alive(p)} /\ pos' = last
          /\ UNCHANGED <<pc, v>>
  /\ UNCHANGED <<arg, proc, target_pid, exiting, seen>>

(* readdir gives NULL; closedir; return -1.                                 *)
Closedir ==
  /\ pc = "readdir"
  /\ dir = {} /\ ~\E p \in Pids : p > pos /\ Alive(p)
  /\ pc' = "sleep"
  /\ UNCHANGED <<arg, proc, scan, target_pid, exiting, seen>>

(* *pid = v; closedir; return 0; break.                                     *)
Found(name, else) ==
  /\ \/ process_name_match(name) /\ target_pid' = v /\ pc' = "found"
     \/ ~process_name_match(name) /\ pc' = else /\ UNCHANGED target_pid
  /\ UNCHANGED <<arg, proc, scan, exiting, seen>>

(* read_proc_cmdline and read_proc_comm: a process that is gone, and an     *)
(* empty cmdline, give -1, which matches nothing.                           *)
Cmdline == pc = "cmdline" /\ Found(proc[v].cmdline, "comm")
Comm == pc = "comm" /\ Found(proc[v].comm, "readdir")

Sleep ==
  /\ pc = "sleep" /\ pc' = "loop"
  /\ UNCHANGED <<arg, proc, scan, target_pid, exiting, seen>>

(* The check after the loop.  Mutant: the flag is forgotten.                *)
GivenUp_pid == target_pid <= 0
GivenUp == exiting \/ target_pid <= 0

(* "done" is return 1.                                                      *)
Check ==
  /\ pc = "found"
  /\ pc' = IF GivenUp THEN "done" ELSE "open"
  /\ UNCHANGED <<arg, proc, scan, target_pid, exiting, seen>>
-----------------------------------------------------------------------------
sig_handler ==
  /\ pc \notin {"open", "done"}
  /\ exiting' = TRUE
  /\ UNCHANGED <<arg, proc, pc, scan, target_pid, seen>>

(* A process starts, ends, or gets other names by execve or prctl           *)
(* (external).                                                              *)
Process(p) ==
  /\ proc' \in {[proc EXCEPT ![p] = image] : image \in Images \cup {Gone}}
  /\ seen' = IF Bears(proc'[p]) THEN seen \cup {p} ELSE seen
  /\ UNCHANGED <<arg, pc, scan, target_pid, exiting>>

Main ==
  \/ Args \/ Opendir \/ OpendirFails \/ LeaveLoop \/ Readdir \/ Closedir
  \/ Cmdline \/ Comm \/ Sleep \/ Check

Next == Main \/ sig_handler \/ \E p \in Pids : Process(p)

Spec == Init /\ [][Next]_vars

(* main is scheduled, sleep(1) ends, and opendir does not fail for ever.    *)
FairSpec == Spec /\ WF_vars(Main) /\ SF_vars(Opendir)
-----------------------------------------------------------------------------
(* Every variable has its type.                                             *)
TypeOK ==
  /\ arg \in -1..IntMax + 1 /\ proc \in [Pids -> Images \cup {Gone}]
  /\ pc \in {"args", "loop", "readdir", "cmdline", "comm", "sleep", "found", "open", "done"}
  /\ dir \subseteq 0..IntMax /\ pos \in 0..IntMax /\ v \in 0..IntMax
  /\ target_pid \in 0..IntMax /\ exiting \in BOOLEAN /\ seen \subseteq Pids

(* The pid a search returns belonged, at some moment of this scan, to a     *)
(* process that bore the name, although entries are buffered, cmdline and   *)
(* comm are read one after the other, and processes come and go meanwhile.  *)
(* (That it still does when the programs are attached nobody can promise.)  *)
FoundBoreName ==
  ~parse_pid(arg) /\ target_pid # 0 => target_pid \in seen

(* main never goes on with pid 0 or a number that is no pid: to the BPF     *)
(* programs target_tgid = 0 means every process of the machine.             *)
TracesOnePid == pc = "open" => target_pid \in 1..IntMax

(* A process that keeps its names, one of them the name asked for, is found *)
(* in the end: no order of readdir, no other process and no failed opendir  *)
(* hides it.  (One whose cmdline and comm bear the name by turns can be     *)
(* missed for ever, since the two are read one after the other.)            *)
PatientSearchFinds ==
  \A p \in Pids : \A image \in {i \in Images : Bears(i)} :
    <>[](proc[p] = image) => <>(pc \in {"open", "done"})

(* A signal ends the search for a name, in the middle of a scan too and     *)
(* even when that scan finds a process.                                     *)
SignalEndsSearch == exiting /\ ~parse_pid(arg) ~> pc = "done"
-----------------------------------------------------------------------------
(***************************************************************************)
(* The whole search is the one step Find of StraceMain.  FindTarget starts  *)
(* after the calls of signal(), where StraceMain has left "args".           *)
(***************************************************************************)
MainPc ==
  IF pc \in {"open", "done"} THEN pc
  ELSE IF pc = "args" /\ parse_pid(arg) THEN "open" ELSE "find"

(* To main the traced process is alive once the search has met it.          *)
SM == INSTANCE StraceMain WITH RingMax <- 1, pc <- MainPc, err <- "unset",
        status <- IF pc = "done" THEN "1" ELSE "running", skel <- "null", rodata <- 0,
        links <- {}, rb <- FALSE, avail <- 0, failed <- FALSE,
        proc <- IF target_pid = 0 THEN "absent" ELSE "alive"

(* Scanning /proc entry by entry implements the single step StraceMain      *)
(* takes for it: main goes on only with a pid that was found and without a  *)
(* signal, also when the signal comes between the hit and the check, and    *)
(* otherwise ends with status 1 and nothing opened.                         *)
ImplementsFind == MainPc \in {"find", "open"} /\ [][SM!Next]_(SM!vars)
=============================================================================
