---------------------------- MODULE MCFindTarget -----------------------------
(* The kinds of processes: a child of the one asked for, one with a longer  *)
(* name, and one without cmdline that is found by its comm.                 *)
EXTENDS FindTarget

Same == [prefix |-> TRUE, next |-> "end"]
Child == [prefix |-> TRUE, next |-> ":"]
Longer == [prefix |-> TRUE, next |-> "other"]
Other == [prefix |-> FALSE, next |-> "other"]

MCImages == {[cmdline |-> Child, comm |-> Other], [cmdline |-> Longer, comm |-> Longer],
             [cmdline |-> Empty, comm |-> Same]}
=============================================================================
