------------------------------- MODULE BpfMaps -------------------------------
(***************************************************************************)
(* The kernel's bounded hash map (BPF_MAP_TYPE_HASH), as the BPF programs   *)
(* of this repository use it.  A map is a function from the possible keys   *)
(* to values; a key that is not in the map has the value Absent.            *)
(***************************************************************************)
EXTENDS Integers, FiniteSets

Absent == 0

Keys(m) == {k \in DOMAIN m : m[k] # Absent}

(* bpf_map_update_elem refuses a new key once max_entries keys are stored.  *)
(* A key that is present can always be overwritten.                         *)
HasRoom(m, k, max) == m[k] # Absent \/ Cardinality(Keys(m)) < max

(* BPF_ANY; the callers ignore the -E2BIG of a full map.                    *)
UpdateAny(m, k, v, max) ==
  IF HasRoom(m, k, max) THEN [m EXCEPT ![k] = v] ELSE m

(* BPF_NOEXIST refuses a key that is present with -EEXIST.                  *)
CanInsert(m, k, max) == m[k] = Absent /\ Cardinality(Keys(m)) < max

DeleteElem(m, k) == [m EXCEPT ![k] = Absent]
=============================================================================
