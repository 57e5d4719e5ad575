--------------------------- MODULE MCStraceCapture ---------------------------
(* Sizes around the boundaries the code compares with.                      *)
EXTENDS StraceCapture

MCTexts == {0, 1, 2, 255, 256, 257}
MCLengths == {1, 2, 15, 16, 27, 28}
MCRooms == {0, 2, 16, 28}
MCFamilies == {1, AF_INET, AF_INET6}

(* Every flag alone, every two of them, all with a long access mode, and a  *)
(* flag the tool has no name for (O_PATH, 21).                              *)
MCFlags ==
  {f \in SUBSET Bits : Cardinality(f) <= 2} \cup {Bits \ {1}, {0, 21}}
=============================================================================
