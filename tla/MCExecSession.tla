--------------------------- MODULE MCExecSession ----------------------------
(***************************************************************************)
(* ExecSession for TLC.  Whether the child ignores SIGTERM and whether the *)
(* caller drains the output concern the two ends of the session: both are  *)
(* explored in two of their four combinations.                             *)
(***************************************************************************)
EXTENDS ExecSession

MCInit == ExecInit /\ proc.stubborn = ~sess.drained

MCSpec == MCInit /\ [][ExecNext]_execVars /\ ExecFairness
=============================================================================
