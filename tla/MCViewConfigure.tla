-------------------------- MODULE MCViewConfigure --------------------------
(* Model checking of ViewConfigure. *)
EXTENDS ViewConfigure
=============================================================================
