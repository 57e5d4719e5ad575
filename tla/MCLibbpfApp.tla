----------------------------- MODULE MCLibbpfApp -----------------------------
(* Two threads of one process, and a process that may get a tid of theirs.  *)
EXTENDS LibbpfApp

MCIds == {<<2, 2>>, <<2, 3>>, <<3, 3>>, <<4, 4>>}
=============================================================================
