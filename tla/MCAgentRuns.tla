---------------------------- MODULE MCAgentRuns -----------------------------
(***************************************************************************)
(* AgentRuns for TLC: one run that a portal follows over a connection that *)
(* is lost twice ("follow"), two runs nobody follows with two crashes      *)
(* ("crash"), or a run that is followed and asks for an approval, with a   *)
(* crash and a lost connection ("both").                                   *)
(***************************************************************************)
EXTENDS AgentRuns

VARIABLE scenario

Within ==
  /\ crashes' <= (CASE scenario = "follow" -> 0 [] scenario = "crash" -> 2 [] OTHER -> 1)
  /\ drops' <= (CASE scenario = "follow" -> 2 [] scenario = "crash" -> 0 [] OTHER -> 1)
  /\ scenario = "crash" => client'.st = "off"
  /\ \A r \in Runs :
       /\ run'[r].text > 1 => scenario = "follow"
       /\ run'[r].approval # "none" => scenario = "both"
       /\ r > 1 /\ run'[r].st # "none" => scenario = "crash"

MCInit == AgentInit /\ scenario \in {"follow", "crash", "both"}

MCNext == AgentNext /\ Within /\ UNCHANGED scenario

MCSpec == MCInit /\ [][MCNext]_<<agentVars, scenario>> /\ AgentFairness
=============================================================================
