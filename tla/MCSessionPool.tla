--------------------------- MODULE MCSessionPool ---------------------------
(* Model checking of SessionPool.  Liveness is checked in the same run, so *)
(* there is no symmetry.                                                   *)
EXTENDS SessionPool, TLC
=============================================================================
