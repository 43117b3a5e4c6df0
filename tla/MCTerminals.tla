---------------------------- MODULE MCTerminals -----------------------------
(***************************************************************************)
(* Terminals for TLC: one client and two chunks of output ("output"), one  *)
(* that also types ("input"), or a second one that attaches and never      *)
(* reads ("idle").                                                         *)
(***************************************************************************)
EXTENDS Terminals

CONSTANTS l1, l2

VARIABLE scenario

Within ==
  /\ shell'.made > 1 => scenario = "output"
  /\ stdin'.writes > 0 => scenario = "input"
  /\ client'[l2].st # "off" => scenario = "idle"
  /\ terminal'.removed => scenario # "idle"

MCInit == TerminalInit /\ scenario \in {"output", "input", "idle"}

MCNext == TerminalNext /\ Within /\ UNCHANGED scenario

MCSpec == MCInit /\ [][MCNext]_<<terminalVars, scenario>> /\ TerminalFairness
=============================================================================
