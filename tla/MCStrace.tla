------------------------------ MODULE MCStrace -------------------------------
(* Two threads of the traced process 1.                                     *)
EXTENDS Strace

MCTraced == {<<1, 1>>, <<1, 2>>}
=============================================================================
