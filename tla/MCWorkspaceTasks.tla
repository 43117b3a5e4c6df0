-------------------------- MODULE MCWorkspaceTasks --------------------------
(* An instance of WorkspaceTasks for TLC. *)
EXTENDS WorkspaceTasks

CONSTANTS p1, p2, create, serve, check, dump, sync

\* A task that is waited for, a service, another task, and two PRE_STOP tasks.
StartTasks == <<create, serve, check>>
StopTasks == <<dump, sync>>
=============================================================================
