------------------------- MODULE MCCredentialChecker -------------------------
(* Model checking of CredentialChecker. *)
EXTENDS CredentialChecker, TLC

Symmetry == Permutations(Hooked) \cup Permutations(Orchestrator)
            \cup Permutations(Patcher)
==============================================================================
