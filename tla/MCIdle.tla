------------------------------- MODULE MCIdle -------------------------------
(* Model checking of Idle. *)
EXTENDS Idle
=============================================================================
