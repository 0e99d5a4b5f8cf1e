--------------------------- MODULE MCSessionStart ---------------------------
(* Model checking of SessionStart; its constants are given in the configurations. *)
EXTENDS SessionStart
=============================================================================
