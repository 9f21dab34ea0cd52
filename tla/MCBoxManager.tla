---------------------------- MODULE MCBoxManager ----------------------------
(* Model checking of BoxManager: model values for ids and boxes, one box   *)
(* in three a GitBox.                                                      *)
EXTENDS BoxManager, TLC

Symmetry == Permutations(Id) \cup Permutations(Box \ GitBox)
=============================================================================
