------------------------ MODULE MCWorkspaceLifecycle ------------------------
EXTENDS WorkspaceLifecycle, TLC

Symmetry == Permutations(Watchers)

(***************************************************************************)
(* The states that are explored: two starts and a stop with nothing else,  *)
(* or one start that a stop, a pass, a crash, a container restart or a     *)
(* call that fails disturbs; a crash and a pass may both happen.           *)
(***************************************************************************)
Undisturbed == budget.passes + budget.crashes + budget.restarts + budget.faults = 0

Explored ==
  \/ Undisturbed
  \/ /\ ws.run <= 1
     /\ \/ budget.stops + budget.restarts + budget.faults = 0
        \/ budget.stops + budget.restarts + budget.faults = 1
           /\ budget.passes + budget.crashes = 0
=============================================================================
