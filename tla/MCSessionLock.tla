--------------------------- MODULE MCSessionLock ---------------------------
(* Model checking of SessionLock. *)
EXTENDS SessionLock
=============================================================================
