------------------------------ MODULE LibbpfSo -------------------------------
(***************************************************************************)
(* libbpfso: the uprobe program on android_dlopen_ext (libbpfso.bpf.c) and  *)
(* main with its signal handler (libbpfso.c), composed over the ring buffer *)
(* events.  The program is attached before the ring buffer manager exists   *)
(* and before the signal handlers are installed.                            *)
(*                                                                         *)
(* Data.  Every call of android_dlopen_ext has a number, which stands for   *)
(* pid, comm and file name of its record.                                   *)
(***************************************************************************)
EXTENDS Integers, Sequences

CONSTANTS
  Threads,   \* threads of the machine that load libraries
  RingMax,   \* records that fit into events (1 << 24 bytes in the code)
  MaxCalls   \* bound on the calls of android_dlopen_ext

ASSUME SoAssumption == RingMax \in Nat \ {0} /\ MaxCalls \in Nat

VARIABLES
  pc,        \* the next statement of main
  exiting,   \* the flag sig_handler sets
  handled,   \* signals with a handler
  err,       \* the local err; "unset": not assigned yet
  status,    \* "running", "killed" or what main returned
  held,      \* what main has to release: of "skel", "link", "rb"
  failed     \* history: the call of main that failed, "no" without one

VARIABLES
  at,        \* at[t]: "user", or the next step of the program
  call,      \* call[t]: the call thread t made last
  calls,     \* number of calls made so far
  log,       \* the ring buffer: every record ever reserved, in order
  cons,      \* consumer position
  lost       \* history: calls that found the ring full

mainVars == <<pc, exiting, handled, err, status, held, failed>>
progVars == <<at, call, calls, log, lost>>
vars == <<mainVars, progVars, cons>>

Signals == {"SIGINT", "SIGTERM"}
Resources == {"skel", "link", "rb"}
Errs == {"unset", "zero", "EINTR", "negative", "positive"}
Labels == {"setrlimit", "load", "attach", "new_ring", "sigint", "sigterm", "loop",
           "wait", "consume", "free_rb", "free_link", "free_skel", "done"}
Cleanup == {"free_rb", "free_link", "free_skel"}

Init ==
  /\ pc = "setrlimit" /\ exiting = FALSE /\ handled = {} /\ err = "unset"
  /\ status = "running" /\ held = {} /\ failed = "no"
  /\ at = [t \in Threads |-> "user"]
  /\ call = [t \in Threads |-> 0]
  /\ calls = 0 /\ log = << >> /\ cons = 0 /\ lost = {}
-----------------------------------------------------------------------------
(***************************************************************************)
(* handle_andrid_dlopen_ext, in the context of any thread.                  *)
(***************************************************************************)

(* A thread calls android_dlopen_ext while the uprobe is attached; with a   *)
(* NULL file name the program returns at once.                              *)
Dlopen(t) ==
  /\ at[t] = "user"
  /\ "link" \in held
  /\ calls < MaxCalls
  /\ calls' = calls + 1
  /\ call' = [call EXCEPT ![t] = calls + 1]
  /\ at' = [at EXCEPT ![t] = "reserve"]
  /\ UNCHANGED <<mainVars, log, cons, lost>>

(* bpf_ringbuf_reserve; a full ring loses the call.                         *)
Reserve(t) ==
  /\ at[t] = "reserve"
  /\ \/ /\ Len(log) - cons >= RingMax
        /\ lost' = lost \cup {call[t]}
        /\ at' = [at EXCEPT ![t] = "user"]
        /\ UNCHANGED log
     \/ /\ Len(log) - cons < RingMax
        /\ log' = Append(log, [by |-> t, busy |-> TRUE, of |-> 0, name |-> "none"])
        /\ at' = [at EXCEPT ![t] = "submit"]
        /\ UNCHANGED lost
  /\ UNCHANGED <<mainVars, call, calls, cons>>

(* The record thread t is filling.                                          *)
Slot(t) == CHOOSE i \in 1..Len(log) : log[i].busy /\ log[i].by = t

(* Mutants: a file name that cannot be read returns past the submit; the    *)
(* record is submitted unfilled.                                            *)
Filled_return(t, n) == [by |-> t, busy |-> n = "<failed>", of |-> call[t], name |-> n]
Filled_not(t, n) == [by |-> t, busy |-> FALSE, of |-> 0, name |-> n]

(* A file name that cannot be read becomes "<failed>".                      *)
Filled(t, n) == [by |-> t, busy |-> FALSE, of |-> call[t], name |-> n]

Submit(t) ==
  /\ at[t] = "submit"
  /\ \E n \in {"filename", "<failed>"} : log' = [log EXCEPT ![Slot(t)] = Filled(t, n)]
  /\ at' = [at EXCEPT ![t] = "user"]
  /\ UNCHANGED <<mainVars, call, calls, cons, lost>>

Program(t) == Reserve(t) \/ Submit(t)
-----------------------------------------------------------------------------
(***************************************************************************)
(* main.                                                                    *)
(***************************************************************************)
MainOnly == UNCHANGED <<progVars, cons>>

(* setrlimit and open_and_load: nothing to release on failure, return 1.    *)
Early(from, to, res) ==
  /\ pc = from
  /\ \/ /\ pc' = "done" /\ status' = "1" /\ failed' = pc
        /\ UNCHANGED held
     \/ /\ pc' = to /\ held' = held \cup res
        /\ UNCHANGED <<status, failed>>
  /\ UNCHANGED <<exiting, handled, err>> /\ MainOnly

Setrlimit == Early("setrlimit", "load", {})
OpenAndLoad == Early("load", "attach", {"skel"})

(* Mutant: err is not assigned here either.                                 *)
AttachErr_unset == err

(* err = -errno                                                             *)
AttachErr == "negative"

AttachUprobe ==
  /\ pc = "attach"
  /\ \/ pc' = "free_rb" /\ err' = AttachErr /\ failed' = pc /\ UNCHANGED held
     \/ pc' = "new_ring" /\ held' = held \cup {"link"} /\ UNCHANGED <<err, failed>>
  /\ UNCHANGED <<exiting, handled, status>> /\ MainOnly

(* On failure goto cleanup; err is left as it is.                           *)
NewRing ==
  /\ pc = "new_ring"
  /\ \/ pc' = "free_rb" /\ failed' = pc /\ UNCHANGED held
     \/ pc' = "sigint" /\ held' = held \cup {"rb"} /\ UNCHANGED failed
  /\ UNCHANGED <<exiting, handled, err, status>> /\ MainOnly

(* signal(SIGINT, sig_handler); signal(SIGTERM, sig_handler);               *)
InstallHandlers ==
  /\ \/ pc = "sigint" /\ pc' = "sigterm" /\ handled' = {"SIGINT"}
     \/ pc = "sigterm" /\ pc' = "loop" /\ handled' = Signals
  /\ UNCHANGED <<exiting, err, status, held, failed>> /\ MainOnly

(* Mutant: the flag is never read.                                          *)
LoopEnds_never == FALSE
LoopEnds == exiting

Loop ==
  /\ pc = "loop"
  /\ pc' = IF LoopEnds THEN "free_rb" ELSE "wait"
  /\ UNCHANGED <<exiting, handled, err, status, held, failed>> /\ MainOnly

(* The next record is submitted.                                            *)
Ready == cons < Len(log) /\ ~log[cons + 1].busy

(* ring_buffer__poll waits for a submitted record, 100 ms at most, or until *)
(* a stop and a continue interrupt it, when the flag may still be 0 and     *)
(* main polls on; or it fails.                                              *)
Wait ==
  /\ pc = "wait"
  /\ \/ Ready /\ pc' = "consume" /\ UNCHANGED <<err, failed>>
     \/ ~Ready /\ pc' = "loop" /\ err' \in {"zero", "EINTR"} /\ UNCHANGED failed
     \/ pc' = "free_rb" /\ err' = "negative" /\ failed' = pc
  /\ UNCHANGED <<exiting, handled, status, held>> /\ MainOnly

(* The next record goes to handle_event, which returns 0; without one, poll *)
(* returns how many there were.                                             *)
Consume ==
  /\ pc = "consume"
  /\ \/ Ready /\ cons' = cons + 1 /\ UNCHANGED <<pc, err>>
     \/ ~Ready /\ pc' = "loop" /\ err' = "positive" /\ UNCHANGED cons
  /\ UNCHANGED <<exiting, handled, status, held, failed, progVars>>

(* cleanup: if (rb) ring_buffer__free; if (link) bpf_link__destroy.         *)
Release(from, res, to) ==
  /\ pc = from
  /\ pc' = to
  /\ held' = held \ {res}
  /\ UNCHANGED <<exiting, handled, err, status, failed>> /\ MainOnly

(* Mutant: the skeleton goes before the link of its program.                *)
FreeRing_skel == Release("free_rb", "skel", "free_link")

FreeRing == Release("free_rb", "rb", "free_link")
DestroyLink == Release("free_link", "link", "free_skel")

(* return err != 0; an err that was never assigned may hold any value.      *)
ReturnValues(e) ==
  CASE e = "unset" -> {"0", "1"} [] e = "zero" -> {"0"} [] OTHER -> {"1"}

(* libbpfso_bpf__destroy, then return.                                      *)
Destroy ==
  /\ pc = "free_skel"
  /\ held' = held \ {"skel"}
  /\ pc' = "done"
  /\ status' \in ReturnValues(err)
  /\ UNCHANGED <<exiting, handled, err, failed>> /\ MainOnly

(* A signal without handler ends the process, and the kernel closes its     *)
(* descriptors; otherwise sig_handler sets the flag, and a wait that has    *)
(* begun fails with EINTR.                                                  *)
sig_handler(sig) ==
  /\ pc # "done"
  /\ \/ /\ sig \notin handled
        /\ pc' = "done" /\ status' = "killed" /\ held' = {}
        /\ UNCHANGED <<exiting, err>>
     \/ /\ sig \in handled
        /\ exiting' = TRUE
        /\ \/ UNCHANGED <<pc, err>>
           \/ pc = "wait" /\ pc' = "loop" /\ err' = "EINTR"
        /\ UNCHANGED <<status, held>>
  /\ UNCHANGED <<handled, failed>> /\ MainOnly

Main ==
  \/ Setrlimit \/ OpenAndLoad \/ AttachUprobe \/ NewRing \/ InstallHandlers
  \/ Loop \/ Wait \/ Consume \/ FreeRing \/ DestroyLink \/ Destroy

Next ==
  \/ Main
  \/ \E sig \in Signals : sig_handler(sig)
  \/ \E t \in Threads : Dlopen(t) \/ Program(t)

Spec == Init /\ [][Next]_vars

(* main is scheduled, its wait ends, and a BPF program runs to completion.  *)
FairSpec ==
  Spec /\ WF_vars(Main) /\ \A t \in Threads : WF_vars(Program(t))
-----------------------------------------------------------------------------
(* Every variable has its type.                                             *)
TypeOK ==
  /\ pc \in Labels /\ exiting \in BOOLEAN /\ handled \subseteq Signals
  /\ err \in Errs /\ status \in {"running", "killed", "0", "1"}
  /\ held \subseteq Resources /\ failed \in Labels \cup {"no"}
  /\ at \in [Threads -> {"user", "reserve", "submit"}]
  /\ call \in [Threads -> 0..MaxCalls] /\ calls \in 0..MaxCalls
  /\ cons \in 0..Len(log) /\ lost \subseteq 1..MaxCalls

(* main ends with nothing held on any path, and on the way never holds      *)
(* something longer than what it was made from: the ring buffer manager     *)
(* goes before the link, the link before the skeleton.                      *)
ReleasedInReverse ==
  /\ pc = "done" => held = {}
  /\ "link" \in held => "skel" \in held
  /\ "rb" \in held => "link" \in held

(* main reads an err that was not assigned in two cases only: the ring      *)
(* buffer could not be created, or the signal came before the first poll.   *)
UnsetOnlyKnownCases ==
  pc \in Cleanup /\ err = "unset" =>
    failed = "new_ring" \/ (failed = "no" /\ exiting /\ cons = 0)

(* Every call the program saw is reported once, or lost at a full ring, or  *)
(* still in the program; and handle_event sees no record before it is       *)
(* filled.                                                                  *)
CallsAccounted ==
  /\ \A c \in 1..calls :
       \/ c \in lost
       \/ \E t \in Threads : at[t] # "user" /\ call[t] = c
       \/ \E i \in 1..Len(log) : log[i].of = c /\ ~log[i].busy
  /\ \A i \in 1..cons : ~log[i].busy
  /\ \A i, j \in 1..Len(log) : i # j /\ log[i].of = log[j].of => log[i].of = 0

(* A reserved record reaches handle_event, those reserved before the ring   *)
(* buffer manager exists included, unless main leaves its loop.             *)
EveryRecordDelivered ==
  \A n \in 1..MaxCalls : Len(log) >= n ~> cons >= n \/ pc \in Cleanup \cup {"done"}

(* Once the flag is set and no library is being loaded any more (MaxCalls   *)
(* bounds the calls), main ends.                                            *)
SignalEndsMain == exiting ~> pc = "done"

(* A failed step of main shows in its exit status.                          *)
FailureReported == pc = "done" /\ failed # "no" => status \in {"1", "killed"}
=============================================================================
