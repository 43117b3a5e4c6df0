---------------------------- MODULE MCSnapshots -----------------------------
(***************************************************************************)
(* Snapshots for TLC: one snapshot that the storage loop and a handler     *)
(* reconcile at the same time, with crashes and the deletion of the        *)
(* Workspace ("overlap"), or two snapshots and the storage loop ("two").   *)
(***************************************************************************)
EXTENDS Snapshots

CONSTANTS s1, s2, c1, handler

VARIABLE scenario

Within ==
  /\ scenario = "two" => job'[handler] = NoJob /\ crashes' = 0 /\ ws'.st # "gone"
  /\ scenario = "overlap" => rec'[s2] = NoRec /\ \A c \in Callers : call'[c].s # s2

MCInit == Init /\ scenario \in {"overlap", "two"}

MCNext == Next /\ Within /\ UNCHANGED scenario

MCSpec == MCInit /\ [][MCNext]_<<vars, scenario>> /\ Fairness
=============================================================================
