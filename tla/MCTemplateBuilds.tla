-------------------------- MODULE MCTemplateBuilds --------------------------
(***************************************************************************)
(* TemplateBuilds for TLC: two requests at the same time and edits of the  *)
(* Template ("races"), or one request at a time, the deletion of the       *)
(* Template and a crash of Nocturne ("crash") or another failure           *)
(* ("fault").                                                              *)
(***************************************************************************)
EXTENDS TemplateBuilds, TLC

CONSTANTS b1, b2, c1, c2

VARIABLE scenario

BuildSymmetry == Permutations(Builds) \cup Permutations(Callers)

Within ==
  /\ crashes' > 0 => scenario = "crash"
  /\ faults' > 0 => scenario = "fault"
  /\ tmpl'.st # "live" => scenario # "races"
  /\ UpdateTemplate => scenario = "races"
  /\ scenario # "races" => Cardinality({c \in Callers : call'[c].pc # "idle"}) <= 1

MCInit == Init /\ scenario \in {"races", "crash", "fault"}

MCNext == Next /\ Within /\ UNCHANGED scenario

MCSpec == MCInit /\ [][MCNext]_<<vars, scenario>>
=============================================================================
