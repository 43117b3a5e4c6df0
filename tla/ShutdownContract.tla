-------------------------- MODULE ShutdownContract --------------------------
(***************************************************************************)
(* What the supervisor of a pod promises about its end: it is up until a   *)
(* shutdown begins, there is one shutdown, the shutdown comes to an end or *)
(* the process does, and the process does not exit before a shutdown.      *)
(***************************************************************************)
VARIABLE phase

Init == phase = "up"

Begin == phase = "up" /\ phase' = "asked"
End == phase = "asked" /\ phase' = "down"
Exit == phase \in {"asked", "down"} /\ phase' = "gone"

Next == Begin \/ End \/ Exit

Spec == Init /\ [][Next]_phase

FairSpec == Spec /\ WF_phase(End)
=============================================================================
