---------------------------- MODULE MCLazySandbox ----------------------------
(* Calls and sandboxes are interchangeable. *)
EXTENDS LazySandbox, TLC
CONSTANTS c1, c2, c3, b1, b2, b3
Symmetry == Permutations(Call) \cup Permutations(Box)
=============================================================================
