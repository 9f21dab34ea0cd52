-------------------------- MODULE MCWorkerRegistry --------------------------
(* Model checking of WorkerRegistry. *)
EXTENDS WorkerRegistry, TLC

Symmetry == Permutations(Worker) \cup Permutations(Handler)
HandlerSymmetry == Permutations(Handler)
=============================================================================
