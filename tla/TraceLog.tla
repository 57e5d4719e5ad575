------------------------------ MODULE TraceLog -------------------------------
(***************************************************************************)
(* What libbpfstrace promises its user: a log of system calls.  A call of a *)
(* traced thread is open from its entry on; it is finished with a result or *)
(* dropped, and what is finished is printed once, per thread in the order   *)
(* of the calls.  A result belongs to the open call when the call it comes  *)
(* from has been opened under the same id.                                  *)
(***************************************************************************)
EXTENDS Integers, Sequences

CONSTANTS
  Ids,      \* threads
  Numbers   \* numbers of system calls; 0: a call older than the log

VARIABLES
  traced,   \* the traced threads
  begun,    \* <<id, c>>: call c was opened under id
  open,     \* open[id]: the open call, 0 for none
  pending,  \* finished and not yet printed
  printed   \* the log

vars == <<traced, begun, open, pending, printed>>

Init ==
  /\ traced \subseteq Ids
  /\ begun = {} /\ open = [id \in Ids |-> 0]
  /\ pending = {} /\ printed = << >>

(* The user chooses what is traced, before the first call is seen.          *)
Choose ==
  /\ begun = {}
  /\ traced' \subseteq Ids
  /\ UNCHANGED <<begun, open, pending, printed>>

(* A new call replaces one whose end was never seen.                        *)
Begin(id, c) ==
  /\ id \in traced /\ c # 0
  /\ \A b \in begun : b[1] = id => b[2] < c
  /\ begun' = begun \cup {<<id, c>>}
  /\ open' = [open EXCEPT ![id] = c]
  /\ UNCHANGED <<traced, pending, printed>>

Finish(id, r) ==
  /\ open[id] # 0
  /\ <<id, r>> \in begun => r = open[id]
  /\ pending' = pending \cup {[id |-> id, enter |-> open[id], ret |-> r]}
  /\ open' = [open EXCEPT ![id] = 0]
  /\ UNCHANGED <<traced, begun, printed>>

Drop(id) ==
  /\ open[id] # 0
  /\ open' = [open EXCEPT ![id] = 0]
  /\ UNCHANGED <<traced, begun, pending, printed>>

Deliver(r) ==
  /\ \A q \in pending : q.id = r.id => r.enter <= q.enter
  /\ pending' = pending \ {r}
  /\ printed' = Append(printed, r)
  /\ UNCHANGED <<traced, begun, open>>

Next ==
  \/ Choose
  \/ \E id \in Ids, c \in Numbers : Begin(id, c) \/ Finish(id, c)
  \/ \E id \in Ids : Drop(id)
  \/ \E r \in pending : Deliver(r)

Spec == Init /\ [][Next]_vars
=============================================================================
