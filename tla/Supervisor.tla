----------------------------- MODULE Supervisor -----------------------------
(***************************************************************************)
(* The supervisor of one Workspace pod from the inside: the goroutines of  *)
(* the inner process (cluster/supervisor/supervisor), the outer process    *)
(* that runs it, and the Workspace agent in the container as far as the    *)
(* supervisor sees it (cluster/workspace/workspace/server.go).  The        *)
(* lifecycle module sees the same supervisor as one status.                *)
(*                                                                         *)
(* Two processes may start the shutdown: "main", in waitForTermInner, and  *)
(* "api", in waitAndDoShutdownByAPI.  Three write the status: the          *)
(* initialization ("init"), the copy of the agent's state ("sync") and     *)
(* whoever shuts down.  setStatus assigns under one lock and publishes     *)
(* under another: "publishing" is what a writer has still to publish.      *)
(*                                                                         *)
(* Time is not modelled: a timeout may fire as soon as it is waited for,   *)
(* except where a comment says what is over by then.                       *)
(***************************************************************************)
EXTENDS Naturals, Sequences

CONSTANTS
  Callers,    \* concurrent Shutdown calls
  ShutdownCh, \* capacity of apiShutdownCh (10 in the code)
  StatusCh,   \* capacity of a subscriber's channel (1000 in the code)
  NoStatus,   \* nothing to publish
  MaxTerms,   \* bound: TERM signals (0 or 1)
  MaxFaults   \* bound: failures of the initialization, health checks, tasks, streams

ASSUME SupervisorAssumption ==
  /\ ShutdownCh \in Nat \ {0} /\ StatusCh \in Nat \ {0}
  /\ MaxTerms \in Nat /\ MaxFaults \in Nat

Statuses == {"INITIALIZING", "PULLING_IMAGE", "STARTING_RUNTIME", "PREPARING",
             "RUNNING", "STOPPING", "STOPPED"}
ASSUME NoStatusAssumption == NoStatus \notin Statuses

Starters == {"main", "api"}
Writers == Starters \cup {"init", "sync"}
Goroutines == Writers \cup {"events", "health"}
Channels == {"api", "ack", "term", "init", "exit", "health"}

VARIABLES
  sup,        \* status, failure, isShuttingDown (and ctxMain canceled with it)
  pc,         \* the goroutines of the inner supervisor
  publishing, \* the second half of setStatus, by writer
  local,      \* the shutdown's lastStatus and podman stop; what doSyncState received
  chans,      \* how many items wait in each channel
  callers,    \* the Shutdown calls
  agent,      \* the container, the agent in it and its two streams
  listener,   \* Nocturne's ListenState stream
  outer,      \* the outer supervisor
  faults

vars == <<sup, pc, publishing, local, chans, callers, agent, listener, outer, faults>>

Exited == pc["main"] = "exited"

Init ==
  \* doRunInner has served, and started waitAndDoShutdownByAPI.
  /\ sup = [status |-> "INITIALIZING", failure |-> "none", isShuttingDown |-> FALSE]
  /\ pc = [g \in Goroutines |-> CASE g = "main" -> "select" [] g = "api" -> "recv"
                               [] g = "init" -> "idle" [] OTHER -> "off"]
  /\ publishing = [w \in Writers |-> NoStatus]
  /\ local = [lastStatus |-> "INITIALIZING", podman |-> "none",
              msg |-> "INITIALIZING", cause |-> "none"]
  /\ chans = [ch \in Channels |-> 0]
  /\ callers = [c \in Callers |-> "idle"]
  \* The Workspace may be one that ends once initialized: a build, or AutoStop.
  /\ \E oneShot \in BOOLEAN :
     agent = [container |-> "none", state |-> "none", states |-> "off", told |-> <<>>,
              events |-> FALSE, failures |-> 0, failed |-> FALSE, stop |-> FALSE,
              oneShot |-> oneShot]
  /\ listener = [st |-> "none", chan |-> <<>>, heard |-> {}]
  /\ outer = "select"
  /\ faults = 0

Fault == faults < MaxFaults /\ faults' = faults + 1

\* A goroutine of a process that has not exited, at a step, with nothing to publish.
At(g, step) ==
  ~Exited /\ pc[g] = step /\ (g \in Writers => publishing[g] = NoStatus)
Goto(g, step) == pc' = [pc EXCEPT ![g] = step]

-----------------------------------------------------------------------------
(* utils.go: setStatus, and the stream of ListenState (api.go). *)

SetStatus(g, st) ==
  /\ sup' = [sup EXCEPT !.status = st]
  /\ publishing' = [publishing EXCEPT ![g] = st]

\* The send to a subscriber's channel does not block.
Enqueued(chan, st) == IF Len(chan) < StatusCh THEN Append(chan, st) ELSE chan

Publish(g) ==
  /\ ~Exited /\ publishing[g] # NoStatus
  /\ publishing' = [publishing EXCEPT ![g] = NoStatus]
  /\ listener' = IF listener.st = "on"
                 THEN [listener EXCEPT !.chan = Enqueued(@, publishing[g])]
                 ELSE listener
  /\ UNCHANGED <<sup, pc, local, chans, callers, agent, outer, faults>>

\* ListenState sends the status it has read; it subscribes afterwards.
ListenState ==
  /\ ~Exited /\ listener.st = "none"
  /\ listener' = [listener EXCEPT !.st = "sent", !.heard = @ \cup {sup.status}]
  /\ UNCHANGED <<sup, pc, publishing, local, chans, callers, agent, outer, faults>>

SubscribeStatusListener ==
  /\ ~Exited /\ listener.st = "sent"
  /\ listener' = [listener EXCEPT !.st = "on"]
  /\ UNCHANGED <<sup, pc, publishing, local, chans, callers, agent, outer, faults>>

\* The loop sends what is in the channel, in order.
SendStatus ==
  /\ ~Exited /\ listener.st = "on" /\ listener.chan # <<>>
  /\ listener' = [listener EXCEPT !.chan = <<>>,
       !.heard = @ \cup {listener.chan[i] : i \in 1..Len(listener.chan)}]
  /\ UNCHANGED <<sup, pc, publishing, local, chans, callers, agent, outer, faults>>

\* The stream breaks; Nocturne opens another.
StreamBreaks ==
  /\ ~Exited /\ listener.st = "on" /\ Fault
  /\ listener' = [listener EXCEPT !.st = "none", !.chan = <<>>]
  /\ UNCHANGED <<sup, pc, publishing, local, chans, callers, agent, outer>>

-----------------------------------------------------------------------------
(* api.go: the calls that change something. *)

\* Nocturne calls Initialize when it hears INITIALIZING.
Initialize ==
  /\ At("init", "idle") /\ Goto("init", "start") /\ "INITIALIZING" \in listener.heard
  /\ UNCHANGED <<sup, publishing, local, chans, callers, agent, listener, outer, faults>>

\* Shutdown: a call that finds isShuttingDown returns, the others signal.
Shutdown(c) ==
  /\ ~Exited /\ callers[c] = "idle"
  /\ callers' = [callers EXCEPT ![c] = IF sup.isShuttingDown THEN "done" ELSE "send"]
  /\ UNCHANGED <<sup, pc, publishing, local, chans, agent, listener, outer, faults>>

ShutdownSend(c) ==
  /\ ~Exited /\ callers[c] = "send" /\ chans["api"] < ShutdownCh
  /\ callers' = [callers EXCEPT ![c] = "done"]
  /\ chans' = [chans EXCEPT !["api"] = @ + 1]
  /\ UNCHANGED <<sup, pc, publishing, local, agent, listener, outer, faults>>

\* Nocturne acknowledges once it has handled STOPPED.
ShutdownAck ==
  /\ ~Exited /\ "STOPPED" \in listener.heard /\ chans["ack"] = 0
  /\ chans' = [chans EXCEPT !["ack"] = 1]
  /\ UNCHANGED <<sup, pc, publishing, local, callers, agent, listener, outer, faults>>

-----------------------------------------------------------------------------
(***************************************************************************)
(* initialization.go.  Its calls use ctxMain: they fail once it is         *)
(* canceled, and may fail before.                                          *)
(***************************************************************************)
Live == ~sup.isShuttingDown

\* The image is pulled or built, for a fresh run.
InitImage ==
  /\ At("init", "start") /\ Live
  /\ SetStatus("init", "PULLING_IMAGE") /\ Goto("init", "image")
  /\ UNCHANGED <<local, chans, callers, agent, listener, outer, faults>>

\* There is no call that can fail between a run that is not fresh and this.
InitRuntime ==
  /\ At("init", "start") \/ (At("init", "image") /\ Live)
  /\ SetStatus("init", "STARTING_RUNTIME") /\ Goto("init", "runtime")
  /\ UNCHANGED <<local, chans, callers, agent, listener, outer, faults>>

\* podmanRunImage or doStartContainer: a canceled context kills podman, and the
\* container may come up all the same.
InitRun ==
  /\ At("init", "runtime") /\ Live /\ Goto("init", "starting")
  /\ UNCHANGED <<sup, publishing, local, chans, callers, agent, listener, outer, faults>>

InitContainer ==
  /\ At("init", "starting") /\ Goto("init", "container")
  /\ agent' = [agent EXCEPT !.container = "up"]
  /\ UNCHANGED <<sup, publishing, local, chans, callers, listener, outer, faults>>

\* waitUntilContainerIsRunning, then execWorkspaceBinary.
InitExec ==
  /\ At("init", "container") /\ Live /\ Goto("init", "ready")
  /\ agent' = [agent EXCEPT !.state = "STARTING_RUNTIME"]
  /\ UNCHANGED <<sup, publishing, local, chans, callers, listener, outer, faults>>

\* waitUntilWorkspaceAgentReady, then the health checks and doSyncState begin.
InitReady ==
  /\ At("init", "ready") /\ Live /\ agent.state # "exited"
  /\ pc' = [pc EXCEPT !["init"] = "prepare", !["health"] = "on", !["sync"] = "dial"]
  /\ UNCHANGED <<sup, publishing, local, chans, callers, agent, listener, outer, faults>>

InitPrepare ==
  /\ At("init", "prepare") /\ Live /\ agent.state = "STARTING_RUNTIME"
  /\ agent' = [agent EXCEPT !.state = "prepare"]
  /\ Goto("init", "events")
  /\ UNCHANGED <<sup, publishing, local, chans, callers, listener, outer, faults>>

\* The events of the agent are listened to after Prepare.
InitEvents ==
  /\ At("init", "events")
  /\ pc' = [pc EXCEPT !["init"] = "done", !["events"] = "dial"]
  /\ UNCHANGED <<sup, publishing, local, chans, callers, agent, listener, outer, faults>>

\* A step of doInitialize fails: by itself, or because of the shutdown, or because
\* the agent is gone.  setNetworkPolicy sets a Failure of its own.
InitFails ==
  /\ \E step \in {"start", "image", "runtime", "starting", "container", "ready", "prepare"} :
       At("init", step)
  /\ IF Live /\ agent.state # "exited" THEN Fault ELSE faults' = faults
  /\ Goto("init", "failed")
  /\ \/ sup' = sup
     \/ pc["init"] = "runtime" /\ sup' = [sup EXCEPT !.failure = "NetworkPolicy"]
  /\ UNCHANGED <<publishing, local, chans, callers, agent, listener, outer>>

\* initialize: guess a Failure when none is set, then tell waitForTermInner.
InitGuess ==
  /\ At("init", "failed")
  /\ Goto("init", IF sup.failure = "none" THEN "guess" ELSE "signal")
  /\ UNCHANGED <<sup, publishing, local, chans, callers, agent, listener, outer, faults>>

InitSetGuess ==
  /\ At("init", "guess")
  /\ sup' = [sup EXCEPT !.failure = "StartupUnknown"]
  /\ Goto("init", "signal")
  /\ UNCHANGED <<publishing, local, chans, callers, agent, listener, outer, faults>>

InitSignal ==
  /\ At("init", "signal")
  /\ chans' = [chans EXCEPT !["init"] = @ + 1]
  /\ Goto("init", "done")
  /\ UNCHANGED <<sup, publishing, local, callers, agent, listener, outer, faults>>

\* heathcheck.go: too many checks failed in a row.
HealthFails ==
  /\ At("health", "on") /\ Live /\ Fault
  /\ sup' = [sup EXCEPT !.failure = "HealthCheck"]
  /\ chans' = [chans EXCEPT !["health"] = @ + 1]
  /\ Goto("health", "off")
  /\ UNCHANGED <<publishing, local, callers, agent, listener, outer>>

-----------------------------------------------------------------------------
(***************************************************************************)
(* utils.go, doSyncState, and event.go, startListenEvent: streams from the *)
(* agent, on ctxMain.  The agent's ListenState too subscribes after it has *)
(* sent its state.                                                         *)
(***************************************************************************)
SyncDial ==
  /\ At("sync", "dial")
  /\ IF Live /\ agent.state # "exited"
     THEN /\ agent' = [agent EXCEPT !.states = "sent", !.told =
                         <<IF agent.state = "prepare" THEN "STARTING_RUNTIME" ELSE agent.state>>]
          /\ Goto("sync", "recv")
     ELSE agent' = agent /\ Goto("sync", "off")
  /\ UNCHANGED <<sup, publishing, local, chans, callers, listener, outer, faults>>

SyncSubscribed ==
  /\ ~Exited /\ agent.states = "sent" /\ agent' = [agent EXCEPT !.states = "on"]
  /\ UNCHANGED <<sup, pc, publishing, local, chans, callers, listener, outer, faults>>

SyncRecv ==
  /\ At("sync", "recv")
  /\ \/ /\ agent.told # <<>>
        /\ local' = [local EXCEPT !.msg = Head(agent.told)]
        /\ agent' = [agent EXCEPT !.told = Tail(@)]
        /\ Goto("sync", "got")
     \/ /\ ~Live \/ (agent.state = "exited" /\ agent.told = <<>>)
        /\ Goto("sync", "off") /\ UNCHANGED <<local, agent>>
  /\ UNCHANGED <<sup, publishing, chans, callers, listener, outer, faults>>

SyncSet ==
  /\ At("sync", "got")
  /\ SetStatus("sync", local.msg)
  /\ Goto("sync", IF Live THEN "recv" ELSE "off")
  /\ UNCHANGED <<local, chans, callers, agent, listener, outer, faults>>

EventsDial ==
  /\ At("events", "dial")
  /\ IF Live /\ agent.state # "exited"
     THEN agent' = [agent EXCEPT !.events = TRUE] /\ Goto("events", "recv")
     ELSE agent' = agent /\ Goto("events", "off")
  /\ UNCHANGED <<sup, publishing, local, chans, callers, listener, outer, faults>>

\* handleEvent: the Failure of a Task.
HandleEvent ==
  /\ At("events", "recv")
  /\ \/ /\ agent.failures > 0
        /\ agent' = [agent EXCEPT !.failures = @ - 1]
        /\ sup' = [sup EXCEPT !.failure = "Task"]
        /\ UNCHANGED pc
     \/ /\ ~Live \/ (agent.state = "exited" /\ agent.failures = 0)
        /\ Goto("events", "off") /\ UNCHANGED <<sup, agent>>
  /\ UNCHANGED <<publishing, local, chans, callers, listener, outer, faults>>

-----------------------------------------------------------------------------
(***************************************************************************)
(* The agent.  "prepare" is a Prepare whose state is not yet PREPARING.    *)
(***************************************************************************)
AgentSet(st, a) ==
  agent' = [a EXCEPT !.state = st,
                     !.told = IF a.states = "on" THEN Append(@, st) ELSE @]
AgentOnly ==
  UNCHANGED <<sup, pc, publishing, local, chans, callers, listener, outer>>

AgentPreparing ==
  /\ ~Exited /\ agent.state = "prepare" /\ AgentSet("PREPARING", agent)
  /\ AgentOnly /\ faults' = faults

\* A Task with ABORT fails: publishFailure reaches those that listen, and the agent
\* ends (signalDone).
AgentTaskFails ==
  /\ ~Exited /\ agent.state = "PREPARING" /\ ~agent.failed /\ Fault
  /\ agent' = [agent EXCEPT !.failed = TRUE,
                            !.failures = IF agent.events THEN @ + 1 ELSE @]
  /\ AgentOnly

AgentRunning ==
  /\ ~Exited /\ agent.state = "PREPARING" /\ ~agent.failed
  /\ AgentSet("RUNNING", agent)
  /\ AgentOnly /\ faults' = faults

\* taskManager.close.
AgentStopping ==
  /\ ~Exited /\ agent.state \in {"PREPARING", "RUNNING"}
  /\ agent.failed \/ agent.stop \/ (agent.oneShot /\ agent.state = "RUNNING")
  /\ AgentSet("STOPPING", agent)
  /\ AgentOnly /\ faults' = faults

\* waitForPodmanRunAndShutdown: the podman exec of the agent has returned.
\* (Variant: nobody is told.)
NoSignal == chans
ExitSignal == [chans EXCEPT !["exit"] = @ + 1]

\* The agent ends after its close, or is killed with the container.
AgentExits ==
  /\ ~Exited /\ agent.state \notin {"none", "exited"}
  /\ agent.stop \/ agent.state = "STOPPING"
  /\ agent' = [agent EXCEPT !.state = "exited",
                            !.container = IF agent.stop THEN "exited" ELSE @]
  /\ chans' = ExitSignal
  /\ UNCHANGED <<sup, pc, publishing, local, callers, listener, outer, faults>>

-----------------------------------------------------------------------------
(***************************************************************************)
(* server.go and shutdown.go.                                              *)
(***************************************************************************)
\* (Variant: isShuttingDown is not tested.)
NeverBegun == FALSE
Begun == sup.isShuttingDown

\* doShutdown: the first caller goes on, the others return.
DoShutdown(g, after) ==
  IF Begun
  THEN sup' = sup /\ Goto(g, after)
  ELSE sup' = [sup EXCEPT !.isShuttingDown = TRUE] /\ Goto(g, "wait")

\* What follows doShutdown.
After(g) == IF g = "main" THEN "ack" ELSE "off"

\* waitAndDoShutdownByAPI.
ApiRecv ==
  /\ At("api", "recv") /\ chans["api"] > 0
  /\ chans' = [chans EXCEPT !["api"] = @ - 1]
  /\ DoShutdown("api", "off")
  /\ UNCHANGED <<publishing, local, callers, agent, listener, outer, faults>>

\* waitForTermInner: a TERM signal, or one of its channels.
MainSelect ==
  /\ At("main", "select")
  /\ \E ch \in {"term", "init", "exit", "health"} :
       /\ chans[ch] > 0
       /\ chans' = [chans EXCEPT ![ch] = @ - 1]
       /\ local' = [local EXCEPT !.cause = ch]
  /\ DoShutdown("main", "ack")
  /\ UNCHANGED <<publishing, callers, agent, listener, outer, faults>>

\* waitUntilRunningForShutdown returns at once when the status is good for a shutdown.
Good == sup.status \in {"RUNNING", "STOPPING"}

DownWait(g) ==
  /\ At(g, "wait") /\ ~Good /\ Goto(g, "waiting")
  /\ UNCHANGED <<sup, publishing, local, chans, callers, agent, listener, outer, faults>>

\* Its loop ends at RUNNING, or after 20 seconds, by when doSyncState has noticed that
\* ctxMain is canceled.  (Variant: there is no timeout.)
WaitNoTimeout == sup.status = "RUNNING"
WaitOver ==
  sup.status = "RUNNING" \/ (pc["sync"] = "off" /\ publishing["sync"] = NoStatus)

\* doShutdownInner up to podman stop.
DownStopping(g) ==
  /\ (At(g, "wait") /\ Good) \/ (At(g, "waiting") /\ WaitOver)
  /\ local' = [local EXCEPT !.lastStatus = sup.status]
  /\ SetStatus(g, "STOPPING") /\ Goto(g, "podman")
  /\ UNCHANGED <<chans, callers, agent, listener, outer, faults>>

\* podman stop, on the container if there is one.
PodmanStop(g) ==
  /\ At(g, "podman") /\ Goto(g, "podmanWait")
  /\ local' = [local EXCEPT !.podman = IF agent.container = "none" THEN "absent" ELSE "told"]
  /\ agent' = [agent EXCEPT !.stop = agent.container = "up",
                            !.container =
       IF @ = "up" /\ agent.state \in {"none", "exited"} THEN "exited" ELSE @]
  /\ UNCHANGED <<sup, publishing, chans, callers, listener, outer, faults>>

\* It fails, before it has told the container anything or after, or is killed at the
\* end of its 60 minutes.
PodmanFails(g) ==
  /\ At(g, "podman") \/ At(g, "podmanWait")
  /\ agent.container = "up" /\ Fault
  /\ Goto(g, "podmanWait")
  /\ local' = [local EXCEPT !.podman = "failed"]
  /\ UNCHANGED <<sup, publishing, chans, callers, agent, listener, outer>>

\* It returns at once when it fails, and otherwise when the container has ended.  Its
\* error is logged.  (Variant: it is not waited for.)
PodmanStarted == TRUE
PodmanStopped == local.podman # "told" \/ agent.container # "up"

\* podman container cleanup and the two inspections, unless lastStatus says that
\* there is nothing to save; then STOPPED either way.
DownStopped(g) ==
  /\ At(g, "podmanWait") /\ PodmanStopped
  /\ SetStatus(g, "STOPPED") /\ Goto(g, After(g))
  /\ UNCHANGED <<local, chans, callers, agent, listener, outer, faults>>

\* waitForTermInner: the acknowledgement, or 10 seconds; GracefulStop, or 2 seconds.
\* Then the process ends, whatever its other goroutines are doing.
MainAck ==
  /\ At("main", "ack") /\ Goto("main", "drain")
  /\ chans' = [chans EXCEPT !["ack"] = IF @ > 0 THEN @ - 1 ELSE @]
  /\ UNCHANGED <<sup, publishing, local, callers, agent, listener, outer, faults>>

MainExit ==
  /\ At("main", "drain")
  /\ pc' = [g \in Goroutines |-> IF g = "main" THEN "exited" ELSE "off"]
  /\ publishing' = [w \in Writers |-> NoStatus]
  /\ chans' = [ch \in Channels |-> 0]
  /\ callers' = [c \in Callers |-> "done"]
  /\ agent' = [agent EXCEPT !.container = "exited", !.state = "exited", !.told = <<>>]
  /\ listener' = [listener EXCEPT !.st = "broken", !.chan = <<>>]
  /\ UNCHANGED <<sup, local, outer, faults>>

\* The outer supervisor: TERM, when the pod is deleted, stops the inner one; an
\* inner one that has ended ends the outer one.
OuterTerm ==
  /\ outer = "select" /\ outer' = "stop" /\ MaxTerms > 0
  /\ chans' = [chans EXCEPT !["term"] = IF Exited THEN @ ELSE @ + 1]
  /\ UNCHANGED <<sup, pc, publishing, local, callers, agent, listener, faults>>

OuterExit ==
  /\ outer \in {"select", "stop"} /\ Exited /\ outer' = "exited"
  /\ UNCHANGED <<sup, pc, publishing, local, chans, callers, agent, listener, faults>>

-----------------------------------------------------------------------------
Initialization ==
  \/ InitImage \/ InitRuntime \/ InitRun \/ InitContainer \/ InitExec
  \/ InitReady \/ InitPrepare \/ InitEvents \/ InitGuess \/ InitSetGuess \/ InitSignal

Streams ==
  \/ SyncDial \/ SyncSubscribed \/ SyncRecv \/ SyncSet
  \/ EventsDial \/ HandleEvent

Agent == AgentPreparing \/ AgentRunning \/ AgentStopping \/ AgentExits

Listening == SubscribeStatusListener \/ SendStatus \/ ShutdownAck

ShutdownSteps ==
  \/ ApiRecv \/ MainSelect \/ MainAck \/ MainExit \/ OuterExit
  \/ \E g \in Starters :
       DownWait(g) \/ DownStopping(g) \/ PodmanStop(g) \/ DownStopped(g)

Next ==
  \/ Initialize \/ ListenState \/ StreamBreaks \/ InitFails \/ HealthFails \/ AgentTaskFails \/ OuterTerm
  \/ \E g \in Starters : PodmanFails(g)
  \/ \E c \in Callers : Shutdown(c) \/ ShutdownSend(c)
  \/ \E g \in Writers : Publish(g)
  \/ Initialization \/ Streams \/ Agent \/ Listening \/ ShutdownSteps

Spec == Init /\ [][Next]_vars

\* The goroutines go on, the timeouts fire, and podman does what it is told.  Nobody
\* has to call, to fail, or to send TERM.
Fairness ==
  /\ \A c \in Callers : WF_vars(ShutdownSend(c))
  /\ \A g \in Writers : WF_vars(Publish(g))
  /\ WF_vars(Initialization \/ (InitFails /\ UNCHANGED faults))
  /\ WF_vars(SyncDial \/ SyncRecv \/ SyncSet) /\ WF_vars(SyncSubscribed)
  /\ WF_vars(EventsDial \/ HandleEvent)
  /\ WF_vars(Agent)
  /\ WF_vars(SubscribeStatusListener \/ SendStatus)
  /\ WF_vars(ApiRecv) /\ WF_vars(MainSelect \/ MainAck \/ MainExit) /\ WF_vars(OuterExit)
  /\ \A g \in Starters : 
       WF_vars(DownWait(g) \/ DownStopping(g) \/ PodmanStop(g) \/ DownStopped(g))

FairSpec == Spec /\ Fairness

-----------------------------------------------------------------------------
Steps ==
  {"select", "recv", "idle", "start", "image", "runtime", "starting", "container", "ready",
   "prepare", "events", "failed", "guess", "signal", "done", "on", "dial", "got", "wait",
   "waiting", "podman", "podmanWait", "ack", "drain", "off", "exited"}

\* What the agent reports: it never says STOPPED.
Reported == Statuses \ {"STOPPED"}

SupervisorRecords ==
  [status : Statuses, isShuttingDown : BOOLEAN,
   failure : {"none", "NetworkPolicy", "StartupUnknown", "HealthCheck", "Task"}]
LocalRecords ==
  [lastStatus : Statuses, podman : {"none", "absent", "told", "failed"}, msg : Reported,
   cause : {"none", "term", "init", "exit", "health"}]
AgentRecords ==
  [container : {"none", "up", "exited"}, states : {"off", "sent", "on"},
   state : Reported \cup {"none", "prepare", "exited"}, told : Seq(Reported),
   events : BOOLEAN, failures : Nat, failed : BOOLEAN, stop : BOOLEAN, oneShot : BOOLEAN]
ListenerRecords ==
  [st : {"none", "sent", "on", "broken"}, chan : Seq(Statuses), heard : SUBSET Statuses]

\* The type invariant.
TypeOK ==
  /\ sup \in SupervisorRecords
  /\ pc \in [Goroutines -> Steps]
  /\ publishing \in [Writers -> Statuses \cup {NoStatus}]
  /\ local \in LocalRecords
  /\ chans \in [Channels -> Nat]
  /\ callers \in [Callers -> {"idle", "send", "done"}]
  /\ agent \in AgentRecords
  /\ listener \in ListenerRecords /\ Len(listener.chan) <= StatusCh
  /\ outer \in {"select", "stop", "exited"}
  /\ faults \in Nat

ShuttingDown(g) == pc[g] \in {"wait", "waiting", "podman", "podmanWait"}

EarlyStatuses == {"INITIALIZING", "PULLING_IMAGE", "STARTING_RUNTIME"}

\* One shutdown: whatever triggers it (several Shutdown calls, the agent's exit, a
\* failed initialization, TERM), doShutdownInner runs in one goroutine, so that the
\* container is stopped once and no STOPPING follows STOPPED from a second one.
OneShutdown == ~(ShuttingDown("main") /\ ShuttingDown("api"))

\* STOPPED is not reported while the container still runs: Nocturne deletes the pod
\* and a snapshot of the volume is taken as clean on the strength of it.  There are two
\* ways out, and no other: doShutdownInner only logs an error of podman stop, and a
\* shutdown that overtakes podman run finds no container to stop.
StoppedMeansStopped ==
  sup.status = "STOPPED" /\ agent.container = "up"
    => \/ local.podman = "failed"
       \/ local.podman = "absent" /\ local.lastStatus \in EarlyStatuses

\* When a failed initialization shuts the supervisor down, whoever hears STOPPED
\* finds the Failure: initialize sets it before it signals.
InitFailureReported ==
  local.cause = "init" /\ "STOPPED" \in listener.heard => sup.failure # "none"

\* What holds in every state of the supervisor, whatever triggers its shutdown: one
\* shutdown, no STOPPED while the container runs unless podman stop failed or found no
\* container yet, and a Failure before STOPPED.
SupervisorInv ==
  /\ TypeOK
  /\ OneShutdown
  /\ StoppedMeansStopped
  /\ InitFailureReported

\* Why there is one shutdown: isShuttingDown is set before its steps and before those
\* that lead to the exit, and is never reset.
ShutdownFlagged ==
  /\ \A g \in Starters : ShuttingDown(g) => sup.isShuttingDown
  /\ pc["main"] \in {"ack", "drain", "exited"} => sup.isShuttingDown

\* The Failure of a failed initialization is set before the signal is sent.
FailureBeforeSignal ==
  pc["init"] = "signal" \/ chans["init"] > 0 \/ local.cause = "init" => sup.failure # "none"

\* Until the agent has been started the status is one of the initialization, unless a
\* shutdown has overwritten it; lastStatus then shows that there is nothing to save.
StatusBeforeAgent ==
  agent.state = "none" =>
    /\ pc["sync"] = "off" /\ local.lastStatus \in EarlyStatuses
    /\ ~sup.isShuttingDown \/ (\E g \in Starters : pc[g] \in {"wait", "waiting"})
         => sup.status \in EarlyStatuses

AgentAfterContainer ==
  /\ pc["init"] \in {"idle", "start", "image", "runtime", "starting", "container"}
       => agent.state = "none"
  /\ pc["init"] = "ready" => agent.state # "none"
  /\ pc["init"] = "container" \/ agent.state # "none" => agent.container # "none"
  /\ pc["init"] \in {"idle", "start", "image", "runtime", "starting"}
       => agent.container = "none"

\* podman stop is called once, and finds a container unless it has yet to come up.
StopIsAwaited ==
  /\ ~sup.isShuttingDown \/ (\E g \in Starters : pc[g] \in {"wait", "waiting", "podman"})
       => local.podman = "none"
  /\ sup.status = "STOPPED" \/ (\E g \in Starters : pc[g] = "podmanWait")
       => local.podman # "none"
  /\ local.podman = "told" => agent.container # "none"
  /\ local.podman = "absent" => local.lastStatus \in EarlyStatuses

\* The inductive invariant.
SupervisorIInv ==
  /\ TypeOK
  /\ ShutdownFlagged /\ OneShutdown
  /\ FailureBeforeSignal
  /\ StatusBeforeAgent /\ AgentAfterContainer
  /\ StopIsAwaited /\ StoppedMeansStopped

\* A stream that Nocturne has opened does not hang on a supervisor that has stopped:
\* it gets STOPPED, or it breaks.  ListenState may miss a status between its first
\* message and its subscription; then the agent's exit ends the process, unless podman
\* stop failed and the agent lives on.
StopIsNoticed ==
  sup.status = "STOPPED" /\ agent.state # "none" /\ listener.st # "none"
    ~> "STOPPED" \in listener.heard \/ Exited \/ local.podman = "failed"

\* The supervisor as a thing that is shut down once: see ShutdownContract.
Phase ==
  IF Exited THEN "gone"
  ELSE IF ~sup.isShuttingDown THEN "up"
  ELSE IF \E g \in Starters : ShuttingDown(g) THEN "asked" ELSE "down"

Contract == INSTANCE ShutdownContract WITH phase <- Phase

\* A shutdown that was begun ends, by its own end or with the process; it does not
\* begin again, and the process does not exit without one.
ShutdownContractKept == Contract!FairSpec
=============================================================================
