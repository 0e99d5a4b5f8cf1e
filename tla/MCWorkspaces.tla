---------------------------- MODULE MCWorkspaces ----------------------------
(***************************************************************************)
(* A window, and a dialog of it.                                           *)
(***************************************************************************)
EXTENDS Workspaces

CONSTANTS window, dialog

MCViews == {window, dialog}

MCParentOf == [v \in MCViews |-> IF v = dialog THEN window ELSE NoView]

=============================================================================
