-------------------------- MODULE MCStartAdmission --------------------------
(***************************************************************************)
(* StartAdmission for TLC: starts of four Workspaces at the same time with *)
(* failing store calls ("races"); all requests at the same time on two     *)
(* Workspaces whose runs end by themselves ("changes"); starts one after   *)
(* the other ("serial"), and all requests one after the other              *)
(* ("serialChanges").                                                      *)
(***************************************************************************)
EXTENDS StartAdmission, TLC

CONSTANTS w1, w2, w3, w4, v1, v2, c1, c2

VARIABLE scenario

\* Mounts of at most one Volume.
SingleMounts == {{}} \cup {{v} : v \in Volumes}

CallerSymmetry == Permutations(Callers)

Serial == scenario \in {"serial", "serialChanges"}

\* The Workspaces, Volumes and store failures of a scenario.
Used == IF scenario = "races" THEN Workspaces
        ELSE IF scenario = "serial" THEN {w1, w2, w3} ELSE {w1, w2}
Mountable == CASE scenario = "races" -> {{}}
               [] scenario = "serial" -> Mounts [] OTHER -> {{}, {v1}}

Within ==
  /\ \A w \in Workspaces \ Used : ws'[w] = ws[w]
  /\ faults' > 0 => scenario = "races"
  /\ scenario = "changes" => \A w \in Workspaces : ws'[w].state # "STOPPING_REQUEST"
  /\ \A c \in Callers :
       /\ call'[c].on \cap Workspaces \subseteq Used
       /\ call'[c].pc \in {"update", "template", "listed", "delete"}
            => /\ scenario \in {"changes", "serialChanges"}
               /\ call'[c].mounts \in Mountable
  /\ Serial => Cardinality({c \in Callers : call'[c].pc # "idle"}) <= 1

MCInit ==
  /\ Init
  /\ scenario \in {"races", "changes", "serial", "serialChanges"}
  /\ tmpl \in Mountable
  /\ \A w \in Workspaces : ws[w].mounts \in IF w \in Used THEN Mountable ELSE {{}}

MCNext == Next /\ Within /\ UNCHANGED scenario

MCSpec == MCInit /\ [][MCNext]_<<vars, scenario>>

\* One start at a time and no change of a spec: an exclusive Volume is mounted by the
\* pod of one Workspace at a time, be it by its spec or by its Template
\* (checkExclusiveVolumes).
SerialExclusive == scenario = "serial" => ExclusiveMounts

\* One request at a time: a Volume that the spec of a Workspace or of the Template
\* mounts is not deleted (checkVolumeIsNotMounted).
SerialMounted == scenario = "serialChanges" => MountedExists

\* What the checks of StartWorkspace and DeleteVolume promise of the Volumes holds when
\* requests do not overlap (checkExclusiveVolumes, checkVolumeIsNotMounted).
SerialMounts == SerialExclusive /\ SerialMounted
=============================================================================
