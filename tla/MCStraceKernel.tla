--------------------------- MODULE MCStraceKernel ----------------------------
(* Two threads of one process, a second process, and room for few entries.  *)
EXTENDS StraceKernel

MCIds == {<<1, 1>>, <<1, 2>>, <<3, 3>>}

(* One process alone, for the counterexamples.                              *)
MCOneProcess == {<<1, 1>>, <<1, 2>>}
=============================================================================
