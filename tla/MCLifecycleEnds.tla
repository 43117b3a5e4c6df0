-------------------------- MODULE MCLifecycleEnds ---------------------------
(***************************************************************************)
(* The lifecycle under fairness.  What disturbs the Workspace is chosen at *)
(* the start of a behaviour, so that the disturbances are explored side by *)
(* side and not multiplied: "crash", Nocturne crashes while a start is     *)
(* pending; "stop", a user stops the Workspace; "restart", its container   *)
(* restarts; "fault", a call fails.  The pass runs again and again in      *)
(* "crash", at most once in "fault".                                       *)
(***************************************************************************)
EXTENDS WorkspaceLifecycle

VARIABLES scenario, passed

Scenarios == {"crash", "stop", "restart", "fault"}

PassBegins == periodic.op = "idle" /\ periodic'.op # "idle"

Within ==
  /\ budget'.crashes > budget.crashes => scenario = "crash" /\ ws.state = "INIT_REQUEST"
  /\ budget'.stops > 0 => scenario = "stop"
  /\ budget'.restarts > 0 => scenario = "restart"
  /\ budget'.faults > 0 => scenario = "fault"
  /\ ~ws'.exists => scenario \in {"stop", "restart"}
  /\ OtherWrite => scenario = "stop"
  /\ PassBegins => scenario = "crash" \/ (scenario = "fault" /\ ~passed)
  /\ passed' = (passed \/ (PassBegins /\ scenario = "fault"))
  /\ scenario' = scenario

mcvars == <<vars, passed, scenario>>

MCInit == Init /\ scenario \in Scenarios /\ passed = FALSE
MCNext == Next /\ Within

MCFairness ==
  /\ WF_mcvars((\E h \in Handlers : Dispatch(h) \/ StartSteps(h)) /\ Within)
  /\ WF_mcvars((\E c \in Callers : StopSteps(c)) /\ Within)
  /\ WF_mcvars((\E w \in Watchers :
                  Supervise(w) \/ \E t \in Threads : ThreadSteps(w, t)) /\ Within)
  /\ WF_mcvars((\E w \in Watchers : HealthTimeout(w) \/ CleanupTimeout(w)) /\ Within)
  /\ WF_mcvars(Periodic /\ Within)
  /\ WF_mcvars(Age /\ Within)
  /\ WF_mcvars(PodObeys /\ Within)

MCSpec == MCInit /\ [][MCNext]_mcvars /\ MCFairness

\* A requested start is taken up, or the periodic pass gives it up: whatever
\* Nocturne loses in a crash, the Workspace does not stay at INIT_REQUEST as long
\* as the pass goes on (nocturne/watcher.go, doHandleStalledState).
StartRequestEnds ==
  scenario = "crash" /\ ws.state = "INIT_REQUEST" ~> ws.state # "INIT_REQUEST"

\* A requested stop ends at STOPPED when no pass revives the Workspace meanwhile
\* (cordium-go/workspace.go: "Stop requests a graceful stop ... shuts the Workspace
\* down asynchronously").
StopRequestEnds ==
  scenario = "stop" /\ ws.exists /\ ws.state = "STOPPING_REQUEST"
    ~> ws.state = "STOPPED" \/ ~ws.exists

\* The Deployment of a deleted Workspace is deleted, when no crash loses the event,
\* no deletion of its owner fails and no container restart makes the closing of the
\* watcher cut onStopped short (e2e/suite/lifecycle.go:
\* NocturneCleansUpADeletedRunningWorkspace).
DeletedPodEnds == scenario = "stop" /\ ~ws.exists ~> ~pod.owned
=============================================================================
