-------------------------- MODULE MCWorkspaceWatch --------------------------
(* An instance of WorkspaceWatch for TLC. *)
EXTENDS WorkspaceWatch
=============================================================================
