-------------------------- MODULE MCSandboxRouting --------------------------
(* Model checking of SandboxRouting. *)
EXTENDS SandboxRouting, TLC

Symmetry == Permutations(Sandbox) \cup Permutations(Worker)
            \cup Permutations(Creator) \cup Permutations(Destroyer)
=============================================================================
