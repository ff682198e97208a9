--------------------------- MODULE MCWriterGroup ---------------------------
(* Model checking of WriterGroup.                                          *)
EXTENDS WriterProperties, TLC

CONSTANTS g1, g2, g3

(* All groups are alike.                                                   *)
GroupSymmetry == Permutations(Groups)
=============================================================================
