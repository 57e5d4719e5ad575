----------------------------- MODULE StraceMain ------------------------------
(***************************************************************************)
(* libbpfstrace/libbpfstrace.c: main(), from the arguments to the exit      *)
(* status, with the signal handler and the generated skeleton's open, load, *)
(* attach and destroy.  Every library call that can fail may fail.          *)
(*                                                                         *)
(* The ring buffer is seen from user space: the number of submitted         *)
(* records.  ring_buffer__poll waits at most 200 ms, and once it is woken   *)
(* hands records to handle_event until it finds none left.                  *)
(***************************************************************************)
EXTENDS Integers

CONSTANT RingMax     \* records that fit into the ring buffer

ASSUME MainAssumption == RingMax \in Nat \ {0}

VARIABLES
  pc,        \* the next statement of main, see Labels
  exiting,   \* the flag sig_handler sets
  err,       \* the local err: see Errs
  status,    \* what main returned, see Statuses
  skel,      \* the skeleton: "null", "open" or "loaded"
  rodata,    \* skel->rodata->target_tgid: 0, or Pid once written
  links,     \* programs attached: a subset of {"enter", "exit"}
  rb,        \* the ring buffer manager exists
  avail,     \* submitted records main can still hand to handle_event
  proc,      \* a process with the traced pid: "absent" or "alive"
  failed     \* history: a library call of main has failed

vars == <<pc, exiting, err, status, skel, rodata, links, rb, avail, proc, failed>>
lib == <<skel, rodata, links, rb>>         \* what the library calls change
env == <<exiting, avail, proc>>            \* what other processes change

Pid == 1
Both == {"enter", "exit"}
Errs == {"unset", "zero", "EINTR", "negative", "positive"}
Statuses == {"running", "killed", "0", "1"}
Labels == {"args", "find", "open", "rodata", "load", "attach_enter",
           "attach_exit", "new_ring", "loop", "wait", "consume",
           "free_ring", "destroy", "done"}

Init ==
  /\ pc = "args" /\ exiting = FALSE /\ err = "unset" /\ status = "running"
  /\ skel = "null" /\ rodata = 0 /\ links = {} /\ rb = FALSE
  /\ avail = 0
  /\ proc \in {"absent", "alive"}
  /\ failed = FALSE
-----------------------------------------------------------------------------
Return(s) == pc' = "done" /\ status' = s

(* err = e; goto cleanup.                                                   *)
Fail(e) ==
  /\ pc' = "free_ring" /\ err' = e /\ failed' = TRUE
  /\ UNCHANGED status

(* argc, parse_pid: a wrong number of arguments, a process name or a pid.   *)
Args ==
  /\ pc = "args"
  /\ \/ Return("1") \/ (pc' \in {"find", "open"} /\ UNCHANGED status)
  /\ UNCHANGED <<err, failed, lib, env>>

(* while (!exiting), and the check after it: find_pid_by_name sees the      *)
(* process when it is alive, and one that starts or ends during the scan    *)
(* may be missed.  FindTarget takes this step apart.                        *)
Find ==
  /\ pc = "find"
  /\ \/ exiting /\ Return("1")
     \/ ~exiting /\ proc = "alive" /\ pc' = "open" /\ UNCHANGED status
     \/ ~exiting /\ UNCHANGED <<pc, status>>
  /\ UNCHANGED <<err, failed, lib, env>>

(* libbpfstrace_bpf__open: on failure it has freed what it allocated.       *)
Open ==
  /\ pc = "open"
  /\ \/ /\ Return("1") /\ failed' = TRUE
        /\ UNCHANGED skel
     \/ /\ pc' = "rodata" /\ skel' = "open"
        /\ UNCHANGED <<status, failed>>
  /\ UNCHANGED <<err, rodata, links, rb, env>>

(* What is written to target_tgid.  Mutant: nothing.                        *)
Filter_unset == 0
Filter == Pid

(* skel->rodata->target_tgid = target_pid, before the load freezes .rodata. *)
Rodata ==
  /\ pc = "rodata"
  /\ rodata' = Filter
  /\ pc' = "load"
  /\ UNCHANGED <<err, status, failed, skel, links, rb, env>>

Load ==
  /\ pc = "load"
  /\ \/ Fail("negative") /\ UNCHANGED skel
     \/ /\ skel' = "loaded" /\ pc' = "attach_enter" /\ err' = "zero"
        /\ UNCHANGED <<status, failed>>
  /\ UNCHANGED <<rodata, links, rb, env>>

(* bpf_object__attach_skeleton attaches progs[0], then progs[1]; when one   *)
(* fails, the links made before it stay until the skeleton is destroyed.    *)
Attach(at, prog, next) ==
  /\ pc = at
  /\ \/ Fail("negative") /\ UNCHANGED links
     \/ /\ links' = links \cup {prog} /\ pc' = next
        /\ UNCHANGED <<err, status, failed>>
  /\ UNCHANGED <<skel, rodata, rb, env>>

(* err = -errno.  Mutant: err keeps the value of the attach.                *)
RingErr_kept == err
RingErr == "negative"

NewRing ==
  /\ pc = "new_ring"
  /\ \/ Fail(RingErr) /\ UNCHANGED rb
     \/ /\ rb' = TRUE /\ pc' = "loop"
        /\ UNCHANGED <<err, status, failed>>
  /\ UNCHANGED <<skel, rodata, links, env>>
-----------------------------------------------------------------------------
(***************************************************************************)
(* while (!exiting) { err = ring_buffer__poll(rb, 200); ... }               *)
(***************************************************************************)

(* Mutant: while (1).                                                       *)
LoopEnds_never == FALSE
LoopEnds == exiting

Loop ==
  /\ pc = "loop"
  /\ pc' = IF LoopEnds THEN "free_ring" ELSE "wait"
  /\ UNCHANGED <<err, status, failed, lib, env>>

(* With nothing to read epoll_wait times out, or returns EINTR after a stop *)
(* and a continue: then the flag may still be 0, and main polls on.  It may *)
(* fail.  A readable ring it reports before it looks at signals.            *)
Wait ==
  /\ pc = "wait"
  /\ \/ /\ avail = 0 /\ err' \in {"zero", "EINTR"} /\ pc' = "loop"
        /\ UNCHANGED <<status, failed>>
     \/ Fail("negative")
     \/ avail > 0 /\ pc' = "consume" /\ UNCHANGED <<err, status, failed>>
  /\ UNCHANGED <<lib, env>>

(* Mutant: one record more than there is.                                   *)
Readable_past == avail >= 0
Readable == avail > 0

(* The next record goes to handle_event, which always returns 0; without a  *)
(* next record poll returns how many there were.                            *)
Consume ==
  /\ pc = "consume"
  /\ \/ Readable /\ UNCHANGED <<pc, err>> /\ avail' = avail - 1
     \/ ~Readable /\ pc' = "loop" /\ err' = "positive" /\ UNCHANGED avail
  /\ UNCHANGED <<exiting, status, proc, failed, lib>>
-----------------------------------------------------------------------------
(***************************************************************************)
(* cleanup:                                                                 *)
(***************************************************************************)

(* ring_buffer__free, which accepts NULL.  Mutant: left out.                *)
Freed_not == rb
Freed == FALSE

FreeRing ==
  /\ pc = "free_ring"
  /\ pc' = "destroy"
  /\ rb' = Freed /\ avail' = 0
  /\ UNCHANGED <<exiting, proc, err, status, failed, skel, rodata, links>>

(* return err != 0.  Mutant: a negative err is forgotten.                   *)
ExitStatus_positive(e) == IF e = "positive" THEN "1" ELSE "0"
ExitStatus(e) == IF e = "zero" THEN "0" ELSE "1"

(* libbpfstrace_bpf__destroy detaches the programs in the order in which    *)
(* they were attached and frees the skeleton, and main returns.             *)
Destroy ==
  /\ pc = "destroy"
  /\ \/ /\ "enter" \in links /\ links' = links \ {"enter"}
        /\ UNCHANGED <<pc, status, skel>>
     \/ /\ links = {"exit"} /\ links' = {}
        /\ UNCHANGED <<pc, status, skel>>
     \/ /\ links = {} /\ skel' = "null"
        /\ Return(ExitStatus(err))
        /\ UNCHANGED links
  /\ UNCHANGED <<err, failed, rodata, rb, env>>
-----------------------------------------------------------------------------
(***************************************************************************)
(* The rest of the machine (external).                                      *)
(***************************************************************************)

(* SIGINT or SIGTERM.  Before signal() it ends the process; afterwards      *)
(* sig_handler sets the flag, and inside epoll_wait the call fails with     *)
(* EINTR unless the signal came just before the wait began.                 *)
sig_handler ==
  /\ pc # "done"
  /\ \/ /\ pc = "args" /\ Return("killed")
        /\ UNCHANGED <<exiting, err>>
     \/ /\ pc # "args" /\ exiting' = TRUE
        /\ UNCHANGED <<pc, err, status>>
     \/ /\ pc = "wait" /\ exiting' = TRUE /\ err' = "EINTR" /\ pc' = "loop"
        /\ UNCHANGED status
  /\ UNCHANGED <<avail, proc, failed, lib>>

(* The traced process starts, ends, and makes system calls.  The submission *)
(* of the oldest record can make several records readable at once.          *)
Process ==
  \/ /\ proc' = IF proc = "alive" THEN "absent" ELSE "alive"
     /\ UNCHANGED <<pc, exiting, err, status, avail, failed, lib>>
  \/ /\ proc = "alive" /\ "exit" \in links /\ pc # "destroy"
     /\ avail' \in avail + 1..RingMax
     /\ UNCHANGED <<pc, exiting, err, status, proc, failed, lib>>

AttachEnter == Attach("attach_enter", "enter", "attach_exit")
AttachExit == Attach("attach_exit", "exit", "new_ring")

Main ==
  \/ Args \/ Find \/ Open \/ Rodata \/ Load \/ AttachEnter \/ AttachExit
  \/ NewRing \/ Loop \/ Wait \/ Consume \/ FreeRing \/ Destroy

Next == Main \/ sig_handler \/ Process

Spec == Init /\ [][Next]_vars

(* main is scheduled, sleep(1) and the 200 ms wait end.                     *)
FairSpec == Spec /\ WF_vars(Main)
-----------------------------------------------------------------------------
(* Every variable has its type.                                             *)
TypeOK ==
  /\ pc \in Labels /\ exiting \in BOOLEAN /\ err \in Errs /\ status \in Statuses
  /\ skel \in {"null", "open", "loaded"} /\ rodata \in {0, Pid}
  /\ links \subseteq Both /\ rb \in BOOLEAN /\ avail \in 0..RingMax
  /\ proc \in {"absent", "alive"} /\ failed \in BOOLEAN

(* Whichever call fails and whenever a signal comes, a finished main has    *)
(* detached both programs, freed the skeleton and the ring buffer manager.  *)
EverythingReleased ==
  pc = "done" => links = {} /\ skel = "null" /\ ~rb

(* A call that failed shows in the exit status, a poll error after millions *)
(* of good polls included, and main never computes the status from an err   *)
(* that was not assigned.                                                   *)
FailureReported ==
  /\ pc = "done" /\ failed => status = "1"
  /\ pc = "destroy" => err # "unset"

(* While a program is attached the filter is set, and the ring is read only *)
(* while both programs are attached.                                        *)
AttachedIsFiltered ==
  /\ links # {} => rodata = Pid /\ skel = "loaded"
  /\ rb /\ pc # "free_ring" => links = Both

(* Once the traced process is gone for good a signal ends main, although    *)
(* poll does not look at the flag: the backlog of the ring is finite.       *)
StopsOnceQuiet ==
  <>[](proc = "absent") => (exiting ~> pc = "done")

(* When a signal ends the loop, the exit status is that of the last poll: 0 *)
(* only when it timed out, 1 when it was interrupted or had printed         *)
(* records.  No poll before it shows in the status, an interrupted one      *)
(* after which main polled on included.                                     *)
StatusOfLastPoll ==
  \A e \in Errs : pc = "loop" /\ exiting /\ err = e ~>
                   pc = "done" /\ status = IF e = "zero" THEN "0" ELSE "1"

(* The comment on the signal handlers: they guarantee that the poll loop    *)
(* can be interrupted and the resources are released.                       *)
InterruptEndsPoll ==
  exiting ~> pc = "done"
=============================================================================
