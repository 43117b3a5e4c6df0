---------------------------- MODULE MCSupervisor ----------------------------
(***************************************************************************)
(* The supervisor with one disturbance in a behaviour: a Shutdown call, a  *)
(* TERM signal, a failure, or none while the Workspace ends by itself; or  *)
(* a Shutdown call and a podman stop that fails ("podman"), where          *)
(* ListenState never gets to its subscription, which keeps this one small. *)
(***************************************************************************)
EXTENDS Supervisor

VARIABLE scenario

Within ==
  /\ (\E c \in Callers : Shutdown(c)) => scenario \in {"call", "podman"}
  /\ OuterTerm => scenario = "term"
  /\ faults' > 0 => scenario = "fault" \/ (scenario = "podman" /\ local'.podman = "failed")
  /\ scenario = "podman" => listener'.st # "on"

MCInit ==
  /\ Init
  /\ scenario \in {"call", "term", "fault", "podman", "oneShot"}
  /\ agent.oneShot = (scenario = "oneShot")

MCNext == Next /\ Within /\ UNCHANGED scenario

MCSpec == MCInit /\ [][MCNext]_<<vars, scenario>> /\ Fairness
=============================================================================
