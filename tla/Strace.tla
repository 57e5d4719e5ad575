------------------------------- MODULE Strace --------------------------------
(***************************************************************************)
(* libbpfstrace as a whole: the kernel programs of StraceKernel and main of *)
(* StraceMain, joined where main's library calls act on the programs and    *)
(* where poll reads the ring buffer.  What StraceMain assumes of the ring   *)
(* and what StraceKernel assumes of its consumer are properties here.       *)
(***************************************************************************)
EXTENDS StraceKernel

CONSTANT Target      \* the pid main was given or has found

ASSUME StraceAssumption == Target \in Tgids

VARIABLES pc, exiting, err, status, skel, rb, failed    \* of StraceMain

mainVars == <<pc, exiting, err, status, skel, rb, failed>>
allVars == <<vars, mainVars>>

(***************************************************************************)
(* What main sees of the kernel.                                            *)
(***************************************************************************)
Links ==
  (IF EnterAttached THEN {"enter"} ELSE {}) \cup (IF ExitAttached THEN {"exit"} ELSE {})

(* The submitted records before the first busy one, while main reads them.  *)
Avail ==
  IF pc \in {"destroy", "done"} THEN 0
  ELSE Cardinality({n \in cons + 1..Len(log) : \A i \in cons + 1..n : ~log[i].busy})

Proc == IF \E id \in Live : Tgid(id) = Target THEN "alive" ELSE "absent"

M == INSTANCE StraceMain WITH rodata <- IF target = Target THEN 1 ELSE 0,
       links <- Links, avail <- Avail, proc <- Proc

StraceInit == Init /\ M!Init
-----------------------------------------------------------------------------
(* Mutant: the pid is not written.                                          *)
WriteTarget_none ==
  pc = "rodata" /\ pc' = "load" /\ UNCHANGED <<vars, exiting, err, status, skel, rb, failed>>

WriteTarget == SetTarget(Target) /\ M!Rodata
AttachProgram == (AttachEnter \/ AttachExit) /\ (M!AttachEnter \/ M!AttachExit)

(* Mutant: only the first record is handled.                                *)
HandleEvent_first == cons = 0 /\ Consume /\ M!Consume
HandleEvent == Consume /\ M!Consume
DetachProgram == (DetachEnter \/ DetachExit) /\ M!Destroy
MainAlone == UNCHANGED vars /\ M!Main

Main == WriteTarget \/ AttachProgram \/ HandleEvent \/ DetachProgram \/ MainAlone

Signal == UNCHANGED vars /\ M!sig_handler

Kernel(id) == (Thread(id) \/ Handler(id)) /\ UNCHANGED mainVars

StraceNext == Main \/ Signal \/ \E id \in Ids : Kernel(id)

(* main is scheduled, and a BPF program that has started runs to its end.   *)
StraceSpec ==
  /\ StraceInit /\ [][StraceNext]_allVars
  /\ WF_allVars(Main)
  /\ \A id \in Ids : WF_allVars(Handler(id) /\ UNCHANGED mainVars)
-----------------------------------------------------------------------------
(* main and the kernel together behave towards each other as StraceMain and *)
(* StraceKernel assume: a step of the kernel never changes what main holds, *)
(* records become readable only through links main has made, and the poll   *)
(* loop consumes every submitted record while both programs are attached.   *)
MainImplemented == M!FairSpec
KernelImplemented == FairSpec
=============================================================================
