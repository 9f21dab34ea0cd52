--------------------------- MODULE MCBrowserScript ---------------------------
(* Two executions, or two native tasks. *)
EXTENDS BrowserScript
CONSTANTS c1, c2, p1, p2
=============================================================================
