----------------------------- MODULE MCJobQueue -----------------------------
(* Small instances of JobQueue. *)
EXTENDS JobQueue, TLC

CONSTANTS j1, j2, j3, j4, f1, f2

(* j1 and j3 share a fence, as load_files and load_theme do; j4 has none,
   like the screenshot jobs. *)
MCFenceOf == j1 :> f1 @@ j2 :> f2 @@ j3 :> f1 @@ j4 :> NoFence
=============================================================================
