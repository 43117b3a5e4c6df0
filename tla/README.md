# Cordium: a verification project

Cordium runs developer Workspaces in Kubernetes pods. A user's request (start,
stop, delete) is a write of the API server into the Workspace resource; Nocturne,
the controller of a Region, sees the write, creates or stops the pod, follows the
supervisor inside it over a status stream, and writes what the supervisor reports
back into the resource. Around this lifecycle lie the admission of starts, the
storage (Volumes, WorkspaceSnapshots, the pre-builds of Templates), the agent in
the container with its tasks, commands and terminals, the streams on which the SDK
waits, and an AI agent with conversations of its own. Nothing holds a lock across
these processes: they meet in resources that are updated with optimistic
concurrency, in maps in the memory of one process, in Kubernetes objects that are
found by name, and in streams that break. This project models these meetings.

## Inventory

| Part | State | Operations | Meets the others through | Module |
|---|---|---|---|---|
| API server, Workspaces (`apiserver/mains/workspace.go`) | none of its own | Create, Start, Stop, Delete, Update | the Workspace and its Session | WorkspaceLifecycle, StartAdmission |
| Nocturne controller (`nocturne/controllers/workspaces/controller.go`) | `watcherMap` | OnUpdate, OnDelete, startWorkspace, stopWorkspace, ResumeWorkspace | watch events, store, Kubernetes, supervisor RPCs | WorkspaceLifecycle |
| statusWatcher (`watcher.go`, same directory) | flags, a supervisor client, a copy of the Workspace | supervise, health check, stale STOPPING timer, forced stop | the status stream, store, Kubernetes | WorkspaceLifecycle |
| Periodic watcher (`nocturne/watcher.go`) | a listed copy of each Workspace | resume, stall and inactivity handling every 5 minutes | store, Sessions, `watcherMap` | WorkspaceLifecycle |
| Kubernetes objects (`k8s.go`) | owner ConfigMap, Deployment, PVC | doOnAdd, doOnDeleteK8s, setPersistentVolumeClaim | found by the Workspace's name | WorkspaceLifecycle |
| Supervisor (`supervisor/supervisor`) | status, failure, subscribers, channels | Initialize, Shutdown, ListenState, setStatus, health check | Nocturne, podman, the agent's streams | Supervisor |
| Watch streams and waits (`workspacewatch.go`, `cordium-go/watch.go`) | subscriptions; the wait's copy | WatchWorkspace, publishMsg, WaitFor | the store's announcements, a gRPC stream | WorkspaceWatch |
| Exec (`workspace/terminal.go`, `task.go`, `broker.go`, `cordium-go/exec.go`) | process, task, broker, session | Exec, readOutputLoop, wait, close, Kill | pipes, a subscription, a stream | ExecSession |
| Terminals (`workspace/terminal.go`, `cordium-go/terminal.go`) | pty, replay buffer, subscriptions | Create, Listen, WriteData, Remove | channels and streams | Terminals |
| Agent, lifecycle tasks (`workspace/server.go`, `task.go`) | state, startedPrepare, prepareFailed, runningWG | Prepare, run, close | the supervisor's Prepare and TERM | WorkspaceTasks |
| AI agent (`agent/src`) and the portal's chat | runs in memory, three files per conversation | start, append, finalize, init, stream, cancel, approve | files, a server-sent event stream | AgentRuns |
| Admission (`workspace.go`, `volume.go`, `volumeresolve.go`) | none | check, then write | lists of Workspaces | StartAdmission |
| WorkspaceSnapshots (`snapshot.go`, `workspacesnapshot.go`) | record, VolumeSnapshot | create, delete, restore, reconcile | the record's version, Kubernetes | Snapshots |
| Volumes (`volume.go` of both) | record, claim | update, delete, reconcile | the same | Volumes |
| Template builds (`build.go`, `template.go`, `onStopped`) | BuildInfo of the Template | build, cancel, record | the Template's version, build Workspaces | TemplateBuilds |
| Spaces, Memberships, Secrets, Git providers; Portal, Vigil; network policy, podman command lines | see PROJECT.json | | | none |

What is hard in it: the goroutines of a watcher race with each other, with the
event handlers and with the pass; a copy of a record is used long after it was
read; a list that admits a request is old when the request writes; Nocturne, the
API server or the agent may crash between any two calls; what one run left behind
meets the next; messages are dropped by full channels and by subscriptions that
come too late; a stop must end whatever fails on its way. PROJECT.json lists these
places line by line under "hazards".

What makes the parts correct: one watcher per Workspace, closed once, that reports
nothing after it is removed; work on an old copy does not touch a later run; what
was requested ends; one shutdown of a supervisor, and STOPPED only when the
container has stopped, or could not be stopped; a stream without gaps and a wait that ends; output in order
and sessions that leave nothing behind; an answer written once and never lost;
limits and mounts that hold as far as the checks can make them; records that are
final when they say so, and backed by storage; tasks that run once, before RUNNING
is said, or before the container stops.

## Modules

Each component has a module with its state, its actions, its fairness and its
properties, and an MC module that instantiates it for TLC. Next to a definition
that stands for a decision of the code there may be a variant of it ("(Variant:
...)"), the mistake that a property has to notice; PROJECT.json pairs them under
"mutants". WorkspaceLifecycle has two MC modules, `MCWorkspaceLifecycle` for safety and
`MCLifecycleEnds` for liveness. Eight modules hold the proofs: `WorkspaceLifecycleProofs`,
`AdmissionProofs`, `BuildProofs`, `VolumeProofs` and `SnapshotProofs` for one component
each, `ContainerProofs` for Supervisor and AgentRuns, `ProgramProofs` for WorkspaceTasks
and Terminals, `StreamProofs` for WorkspaceWatch and ExecSession. A module that shares a
proof module with another one names its parts for itself (ExecInit, ExecSpec, AgentNext,
TerminalTypeOK).

### WorkspaceLifecycle: state and steps

* `ws` is the resource: `exists`, `state` (Status.State), `region` (RegionRef is
  set), `session` (SessionRef, by the number of the run it was created for), `run`
  (which start this is: Status.Run), `aged` (CurrentStateSetAt is older than the
  limits of doHandleStalledState). INITIALIZING stands for INITIALIZING to
  PREPARING. A deleted Workspace keeps a normalised record.
* Resource versions are not counted. `fresh` is the set of those whose copy no
  write has overtaken, which is what an Update compares. A read followed by an
  Update that succeeds (or that is retried until it does) is therefore one step; a
  copy that is kept across other calls is part of the state: in an event, in a
  handler's call, in a watcher (`sess`, `run`) or in the pass.
* `calls[h]` is the handler in progress: handlers run one at a time, in the order
  of the events (`Handlers` is a singleton, which `ConstAssumption` states).
  `calls[w]` is the stopWorkspace that a closing watcher makes. `op` is the next
  call of the code; one action per call that another process can observe.
* `threads[w][t]` is a goroutine of a watcher with its next call (`pc`) and who
  called it (`path`), so that doUpdateStatus, onStopped and doClose are written
  once and return to the right place.
* `pod` is the Deployment with its pod: `owned` says that its owner ConfigMap is
  there. `pvc.run` is the run that created the claim.
* `sessions` are the Octelium Sessions that exist.

Steps that are joined, and why nothing is lost: onStopped's flag with its
DeleteSession, and doOnDeleteK8s with the write of the Failure (a deletion that
another process cannot undo commutes with what it is joined to); stopWorkspace's
Update with the start of its forceOnStop goroutine (a goroutine may start late
anyway); the two deletions of the stalled cleanup. onStopped tests and sets
didOnStopped under two locks; the model joins them (a second execution deletes
what the first has deleted). At most one forced-stop goroutine per watcher is
modelled at a time. The watch dispatcher, the store and Kubernetes are not in the
repository; they are modelled from how the code uses them.


### The other modules

* `Supervisor`: `sup` is the status, the Failure and isShuttingDown; `pc` the
  goroutines (initialization, the copy of the agent's state, events, health, main,
  the API's shutdown); `publishing` the second half of a setStatus, since it assigns
  and publishes under two locks; `chans` how much waits in each channel; `agent` the
  container as podman and the two streams show it; `listener` Nocturne's ListenState
  stream, which is sent the status before it is subscribed. podman stop tells the
  container and returns when it has exited, finds none, or fails on one that runs
  (`PodmanFails`, at any point of the call); the shutdown goes on in each case.
  `ShutdownContract` is what
  it promises (up, asked, down, gone), and `ShutdownContractKept` the refinement, with
  the shutdown's end as a fair step of the contract. A one-shot Workspace (a build, or
  AutoStop) is a choice of the initial state.
* `WorkspaceWatch`: every write is a version; the store announces them in order
  (`feed`); a stream has the subscription's channel (`ch`) and what is on its way
  (`wire`). WaitFor opens, reconciles, consumes, polls by its ticker, backs off and
  opens again.
* `ExecSession`: a shell with a child in its group, the pipe, readOutputLoop, wait,
  close with its two signals, the broker with one bounded subscription, the handler's
  two goroutines and the session of the SDK with its grace period.
* `Terminals`: the pty, stdoutCh, the replay buffer, the subscriptions, stdinCh and
  the waiter of one terminal, with the clients of the SDK that listen to it.
* `WorkspaceTasks`: the goroutines of Prepare, the tasks (ON_CREATE and POST_START as
  one list, PRE_STOP as another), the waiter that says RUNNING, and Run with the close
  of the task manager. The kind of the run (plain, AutoStop, build) is a choice of the
  initial state. After the supervisor's TERM, podman stop may kill the agent at any
  time (`Kill`), whatever its tasks are doing.
* `AgentRuns`: one thread per process, so a handler changes memory at once and leaves
  its writes to the files in `todo`; a crash may come between any two of them. A write
  that fails throws, so that the handler leaves only those before it and does not do the
  rest of its work in memory (`StartFails`, `FinalizeFails`): its run is "unstarted" or
  "stuck". The portal's chat loads, subscribes, loses its connection and resumes by sequence number.
* `StartAdmission`: requests of the API server step by step (count, read, resolve,
  check, create the Session, write), with the updates of Workspaces and of the Template
  and the deletions of Volumes that change what was read. The run between INIT_REQUEST
  and STOPPED is three steps here and is WorkspaceLifecycle's.
* `Snapshots`, `Volumes`: the record, the reconciliations with their copies (the
  handlers of the watch and the storage loop run at the same time), Kubernetes and the
  storage backend, which binds, cuts, loses and forgets. Any call of a reconciliation may
  fail (`CallFails`), as often as it likes and with or without its effect where it
  creates something; the growth of a claim may be refused (`GrowthRefused`), and the
  deletion of a VolumeSnapshot or claim may fail. Reconciliations are repeated by the
  storage loop; deletions are not, as their event comes once.
* `TemplateBuilds`: the Template's list of builds, the build Workspaces, the requests,
  the watchers that record the result in onStopped, the pass, and crashes.

Everywhere a record is written under the version that was read, `fresh` says that
nobody has written it since, as in WorkspaceLifecycle.

The invariants of a module are named one by one and joined in one that the run
checks (`SupervisorInv`, `WatchInv`, `ExecInv`, `TerminalInv`, `RunInv`,
`ConversationInv`, `AdmissionInv`, `SnapshotInv`, `BuildInv`, `VolumeInv`,
`TaskInv`), with the type invariant as a part.

## Runs

The disturbances of a component are chosen at the start of a behaviour where their
product would be too large (`scenario` in the MC modules): TLC explores them side by
side in one run. Deadlock is not checked: when the bounds are used up and all
requests are done, these systems really rest.

| Run | Instance and scenarios | Shows |
|---|---|---|
| TwoRuns | 2 watchers; 2 starts and a stop, or 1 start with a pass, a crash (or both), a container restart or a failing call (`Explored`); `Watchers` symmetric | OneWatcher, CloseOnce, OnlyRegisteredReports, PendingStartKeepsSession, StaleCopyStopsNothing |
| LifecycleEnds | 1 start with a crash of Nocturne while it is pending and unbounded passes; a stop or a deletion; a restart of the container; or one failing call anywhere and a pass | TypeOK, StartRequestEnds, StopRequestEnds, ClosingEnds, DeletedPodEnds |
| SupervisorShutdown | a Shutdown call, TERM, one failure anywhere, a Shutdown call whose podman stop fails (without a subscriber, to keep it small), or the end of a one-shot agent; channels of 1 | SupervisorInv, ShutdownContractKept, StopIsNoticed |
| WatchWaits | 1 wait, 6 versions, a buffer of 2, 2 faults of any kind | WatchInv, WaitEnds |
| ExecStream | 3 chunks, buffers of 2, 1 and 1; killed or given up at any time, drained or not, with a child that ignores SIGTERM or not | ExecInv, SessionEnds |
| TerminalClients | 2 clients; 2 chunks of output, a write, or a client that never reads | TerminalInv, TerminalEnds |
| AgentTasks | 2 Prepare calls, 3 start tasks (one in the background), 2 PRE_STOP tasks, one of each kind and the background one abort on failure (`Aborting`), 1 fault, a kill at any time after TERM, in each kind of run | TaskInv, RunningIsReady, PreStopRuns, AgentEnds |
| AgentFollowed | a run followed over 2 lost connections; 2 runs with 2 crashes; or a run with an approval, a crash and a lost connection; any write may fail | RunInv, ConversationInv, FollowerEnds, CancelEnds |
| Admission | 2 requests; 4 Workspaces with a limit of 2 and a failing store call, all requests on 2 Workspaces, and both one request at a time | AdmissionInv, SessionsAgree, SerialMounts |
| SnapshotLives | 1 snapshot with 2 overlapping reconciliations, a crash, a start and the deletion of the Workspace; or 2 snapshots; any call may fail, again and again | SnapshotInv, SerialRequests, FinalIsKept, SnapshotEnds |
| BuildRecords | 2 builds; 2 requests with edits of the Template, or one at a time with a crash or a failure | BuildInv, CurrentStaysReady |
| VolumeStorage | 2 reconciliations, a request, sizes to 3, a loss and a crash; any call may fail, again and again | VolumeInv, OnlyGrows, NeverReprovisioned, StorageFollowed |

Why the bounds are enough to be interesting: two runs and two watchers are what one
goroutine left over and one new run need; a channel of one or two fills with the
second or third message, as one of a thousand does later; two reconcilers, two
requests and one crash are what it takes to have an old copy, a lost race and a
recovery; three sizes let an old copy be smaller than the claim and larger than an
older one.

Fairness. Users, failures, crashes, commands and shells are never fair. The steps of
a goroutine, timers and deadlines are weakly fair: Go schedules what can run, and no
call of the code that is modelled as fair waits forever. In detail:

* WorkspaceLifecycle: handlers, watchers, timers, the pass, time, and the pod that
  obeys. Each conjunct is about a kind of goroutine rather than about each one.
* Supervisor: goroutines, the timeouts of the shutdown, podman (whose stop is bounded by
  its context of 60 minutes), the exit of the outer process when the inner one has ended.
* WorkspaceWatch: the server, the client and the ticker, each on its own, because
  `select` does not neglect a channel that stays ready.
* ExecSession, Terminals: goroutines, signals, the client that drains or reads. The end
  of a listener by doneCh is strongly fair: `select` chooses at random among ready
  channels, so it is not passed over forever while messages come and go.
* AgentRuns: the writes, the restart of the process by its service, the flush timer
  and the reconnection of the browser, which are strongly fair since a crash disables
  them in between; an aborted backend returns, unless a tool still waits for an
  approval.
* Snapshots, Volumes: the storage loop has its ticker (strongly fair in Snapshots,
  where Nocturne may be down), Kubernetes restarts Nocturne, time passes. The storage
  backend is not fair: it may never answer. Calls that fail are not bounded and nothing
  says that they succeed one day; SnapshotEnds and StorageFollowed therefore speak of
  the behaviours in which the failures, the panics or the refused growths they name do
  not go on for ever (`GoesOnFailing`, `GoesOnRefusing`).
* WorkspaceTasks: goroutines and the two timeouts. A task may run forever.
* StartAdmission and TemplateBuilds are checked for safety only.

## Disagreements

What the models showed of the code that a comment, a document or a test of the
repository describes otherwise. The properties above are stated so that they hold;
their comments name the exception where there is one.

Lifecycle

* `watcher.go:432`: doUpdateStatusOnce writes what the stream delivered over the state
  it reads, STOPPED included. A slow start that the 5-minute stall of the pass has
  overtaken can end RUNNING in no Region, and a later stop waits forever
  (`cordium-go/workspace.go:376`).
* `watcher.go:869`: onStopped uses the supervisor client without the nil test of
  doClose; a stop before the client is set panics, and the Session stays
  (`e2e/suite/lifecycle.go:143`).
* `controller.go:368`: an ephemeral Workspace that stops by itself, or fails to start,
  keeps its claim for the next start (`cordium-go/spec.go:1182`).
* `apiserver/mains/workspace.go:760`: StopWorkspace leaves CurrentStateSetAt, from which
  the 120 minutes of a stalled stop are measured (`cordiumv1.pb.go:6467`).
* `watcher.go:848`: a restart of the container lets the health check close the watcher,
  which cancels onStopped between setting didOnStopped and deleting the owner; the
  Deployment of a deleted Workspace then stays. So it does when Nocturne crashes before
  it has handled the deletion.

Supervisor and waits

* `supervisor/event.go:82`: the failure of a task that comes before the event stream is
  open, or after ctxMain is canceled, is recorded nowhere (`cordium-go/watch.go:86`).
* `supervisor/shutdown.go:36`: ctxMain is canceled before the wait for RUNNING, whose only
  writer ends with it (the comment at `shutdown.go:84`).
* `cordium-go/watch.go:152`: a state reached between the reconciliation and the
  subscription is in neither; only the ticker finds it (the comment at `watch.go:147`).
* `cordium-go/watch.go:271`: a version older than what the wait has read is judged too: a
  stop before the last start ends WaitUntilRunning (`watch.go:47`).

Exec, terminals and tasks

* `task.go:488`: cmd.Wait closes the pipe under its reader, and the Exit may overtake the
  last chunk (`cordium-go/exec.go:553`).
* `broker.go:82`: the Exit is dropped when the subscription is full, and Wait never
  returns (`exec.go:629`).
* `task.go:426`: a command that cannot be started is reported to nobody (`exec.go:406`).
* `task.go:553` and `:591`: close kills the shell at once instead of letting it exit, and
  the group is not killed afterwards since hasExited is set (`exec.go:596`).
* `terminal.go:548`: a shell that exits before its terminal is entered into the table
  leaves a closed terminal in it (`cordium-go/terminal.go:181`). `terminal.go:455`: a
  listener that subscribes after the Close sees the stream end without it
  (`cordium-go/terminal.go:36`). `terminal.go:717`: a write to a closed terminal with a
  full stdinCh waits for its context.
* `task.go:247`: a stop between the creation of the task manager and its list of tasks
  skips the PRE_STOP tasks while the start tasks still begin (`cordiumv1.pb.go:72`).
* `workspace/server.go:682`: RUNNING may be said after STOPPING (`cordiumv1.pb.go:370`).
* `task.go:444`: the failure of a background task with ON_FAILURE_ABORT does not abort
  (`cordiumv1.pb.go:126`).

Admission and storage

* `apiserver/mains/workspace.go:547` and `:988`: two concurrent starts pass the limit, and
  mount one exclusive Volume twice (`cordiumv1.pb.go:15293`, `volume_test.go:436`);
  `workspace.go:1006`: a mount removed from the spec of a running Workspace is still
  mounted by its pod. AdmissionInv has the bound that does hold.
* `apiserver/mains/volume.go:283`: a Volume is deleted while an update mounts it
  (`volume_test.go:266`).
* `snapshot.go:167`: with the Workspace deleted, or with any other error of GetWorkspace
  (`snapshot.go:213`), Nocturne panics in the reconciliation of a CLEAN snapshot that has no
  VolumeSnapshot yet (`snapshot_test.go:341`); and a start between the check and the cut
  leaves a CLEAN snapshot of a running Workspace (`cordiumv1.pb.go:621`);
  `snapshot.go:170`: a downgrade is lost when the other reconciliation writes first
  (`snapshot_test.go:183`).
* `apiserver/mains/workspacesnapshot.go:126` and `:272`: two requests take two snapshots at
  a time, and a snapshot is deleted while a Workspace is created from it
  (`workspacesnapshot_test.go:160`, `:500`).
* `nocturne/.../volume.go:168`: a reconciliation with an old copy gives a READY Volume
  empty storage (`volume_test.go:275`); `volume.go:186`: one that is under way creates the
  claim again after the Volume was deleted (`volume_test.go:260`).
* `apiserver/mains/build.go:173`: a build Workspace whose Template could not be saved runs
  unlisted (`cordiumv1_grpc.pb.go:148`); `build.go:154`: a build that was stopped by a
  request that failed afterwards becomes READY (`cordiumv1.pb.go:798`); `build.go:133`:
  the cancellation of a build whose Workspace is gone changes nothing
  (`cordiumv1_grpc.pb.go:152`).
* `watcher.go:933`: after a crash a READY build is recorded as FAILED and stays the current
  one (`cordiumv1.pb.go:11884`); `watcher.go:950`: a READY build whose VolumeSnapshot
  could not be created never has one (`cordiumv1.pb.go:795`);
  `nocturne/watcher.go:277`: a build Workspace that was never started is deleted without
  the Template being told (`cordiumv1.pb.go:11887`).

Errors that are only logged. The properties except them by name, and what follows from
them is the code's behaviour, not a restriction of the models:

* `shutdown.go:137`: podman stop fails, or is killed at the end of its 60 minutes, and the
  shutdown goes on to STOPPED (lines 156 and 190), "the Workspace is not running"
  (`cordiumv1.pb.go:373`), with the container possibly up. The other way to it is a
  shutdown that finds no container because podman run is still starting it
  (`shutdown.go:36`); then the status has not got past STARTING_RUNTIME. StoppedMeansStopped
  says that there is no third.
* `shutdown.go:130`: `podman stop -t 60` gives the container a minute, and close gives its
  PRE_STOP tasks ten (`task.go:254`). The agent runs in the container by podman exec
  (`podman.go:50`), so it is killed with it: after the minute, or as soon as the container's
  first process has obeyed the TERM. PRE_STOP tasks that take longer are cut off
  (`cordiumv1.pb.go:72`); PreStopRuns is about an agent that ends by itself.
* `agent/src/runs/manager.ts:252`: a write of finalize that throws (lines 330 to 332) leaves
  the run not done, although its status is set: nobody who follows it gets an end event, a
  cancelled run stays, and activeByConversation refuses every other run of the conversation
  until the agent is started again. A write of startRun that throws after line 193 does the
  same with a run that was never executed. FollowerEnds and CancelEnds except both.
* `snapshot.go:126`, `:150`, `:186`: an error of Kubernetes that is not "unsupported" leaves
  the snapshot CREATING. The timeout is looked at only with a VolumeSnapshot at hand
  (line 258), so that calls that go on failing keep it CREATING for ever, and with it the
  Workspace without another snapshot. SnapshotEnds excepts a storage loop that goes on
  failing, and a Nocturne that goes on panicking.
* `nocturne/.../volume.go:237`: an error of the growth of a claim is logged, and the record
  has the new size. In a backend without expansion it never reaches the claim (as
  `cordiumv1.pb.go:10855` warns); every reconciliation tries again. StorageFollowed excepts it.
* `snapshot.go:46`, `volume.go:48`, `controller.go:285`: a deletion in Kubernetes that fails is
  not repeated, since the watch announces the deletion of the record once; the
  VolumeSnapshot or the claim stays behind.

AI agent

* `agent/src/store/conversations.ts:71`: messageCount stays one behind after a crash
  between the two writes of a message, when no answer is pending (`store.test.ts:223`).

## Proofs

These theorems hold for every value of the constants that the named assumptions
allow: any number of watchers, requests, builds, snapshots, tasks and so on, and any
bounds. TLC checked every inductive invariant on the run of its component before it
was proved (`SPECIFICATION` as in the cfg, the invariant added), so that a failed proof
was a missing fact and not a false one.

`WorkspaceLifecycleProofs`, from `ConstAssumption` (the identifiers are distinct, at
most one handler runs, the bounds are naturals):

* `TypeCorrect`: Spec => []TypeOK. By induction, one lemma per group of actions.
* `Supervised`: Spec => []SupervisionInv. OneWatcher and CloseOnce are not
  inductive. RegisteredLives adds that the registered watcher is one that has not
  been removed and that a watcher in preparation has the handler that prepares it
  (hence the single handler); ThreadsFollowPhase that nothing runs before run() and
  only forced stops after removal; CloserHoldsWatcher that a goroutine inside
  doClose has set isClosed and that its watcher is still live. `OneWatcherHolds`,
  `CloseOnceHolds` and `OnlyRegisteredReportsHolds` follow.
* `CopiesCurrent`: Spec => []CopiesAreCurrent: whoever holds the current version
  works on the current run. `StaleCopies` (Spec => StaleCopyStopsNothing) follows,
  because an Update is only taken from a holder of the current version. So the
  store's version check is all that this property needs.
* `SessionsOwned`: Spec => []SessionsOfRuns: each copy names the Session of its own
  run, and a copy whose Session is about to be deleted belongs to a start that is
  not pending. That a start never becomes pending again (`NotPendingKept`) is where
  "only StartWorkspace writes INIT_REQUEST" is used. `PendingStarts` (Spec =>
  PendingStartKeepsSession) follows with SupervisionInv, which is needed to know
  that a goroutine inside onStopped belongs to a watcher with a Session.

The storage, the admission and the builds:

* `VolumeProofs`, from VolumeAssumption (the bounds are naturals). `CopiesCorrect`:
  Spec => []CopiesInv. Neither VolumeInv nor OnlyGrows is inductive, because both
  depend on what a copy says when it is written much later. CopiesInv adds that a
  fresh copy agrees with the record, that a current view of the claim is smaller than
  the size it will be given, that a claim is only made from a copy that says it never
  was bound, and that "was bound", which an old copy may repeat, is never taken back.
  `VolumeCorrect` (VolumeInv), `GrowsOnly` (OnlyGrows) and `ReprovisionedNever`
  (NeverReprovisioned) follow. The last rests on the version check of UpdateVolume: an old
  copy that says PENDING without ReadyAt is refused (MayWrite), and a fresh copy has the
  record's ReadyAt. That a READY Volume becomes PENDING only after its claim was replaced
  is ClaimTrue: a claim that waits although storage was bound has replaced another one,
  and a copy of a Volume with ReadyAt that saw a claim wait knows such a one (CopiesTrue).
  Calls that fail drop a copy and change nothing
  else, except the Create whose answer is lost, which makes the claim (WithClaim).
* `SnapshotProofs`, from SnapshotAssumption (the names are not the two reserved ones,
  there are finitely many requests, the bounds are naturals). `JobsCorrect`: Spec =>
  []SnapJobsInv. A fresh copy is of a record that is CREATING, or deleted since; a
  VolumeSnapshot that a copy saw ready is removed only after its record (RemovedLast),
  so an old copy cannot make READY what has lost its data. `SnapshotCorrect` (SnapshotInv)
  and `FinalKept` (FinalIsKept) follow. A call that fails, at any step, leaves the record
  as it is and drops the copy.
  `SerialRequestsHold` (Spec => []SerialRequests) rests on ChecksHold: while requests
  do not overlap, what one has checked is still so when it writes. CREATING snapshots
  and those that are being restored are changed by Nocturne as well, in one direction.
* `AdmissionProofs`, from AdmissionAssumption (finite sets, at least one request).
  `AdmissionBounded`: Spec => []AdmissionInv. ActiveBounded counts only what is active;
  the inductive RoomForPending counts the starts that are past their count as well: a
  start that passes finds fewer than MaxActive active and at most all requests under
  way, and a write moves one from under way to active.
  `SessionsPaid`: Spec => []SessionsAgree, from SessionIInv: DebtsPaid counts every
  stray Session and every run without one, and those that a call under way is about to
  leave behind, against the faults that have happened; SessionsHeld and CallsHold say
  whose each Session is meanwhile.
  `SerialDeletes` and `SerialStarts` say what holds of requests one at a time: under
  []OneRequest the specs of Workspaces and of the Template mount only Volumes that exist,
  and if the requests only start and stop ([]OnlyStarts) no two running pods mount the
  same exclusive Volume. VolumesLooked and ExclusiveLooked say that what a request has
  looked at stays so up to its write. Without the hypotheses both
  are false (see Disagreements), so the hypotheses carry the content. `SerialMountsHold`
  brings the two to the specification that the Admission run checks, whose serial
  scenarios satisfy them.
* `BuildProofs`, from TemplateBuildsAssumption. `BuildsRecorded`: Spec => []BuildInv.
  BuildIInv adds RunningIsListed, CallOK (what a request knows of the Template from its
  copy, and until when it holds) and JobsListed (the build whose result is about to be
  saved is one that the Template lists).
  `CurrentReady`: Spec => []CurrentStaysReady. ReadyIInv adds RecordedOnce: the watcher
  of a build that is recorded READY is past that write, and nothing starts another one,
  so no later write makes it FAILED. A crash of Nocturne does (see Disagreements),
  therefore the property is about the time before the first one.

What runs in a container, and who follows it:

* `ContainerProofs`, about Supervisor, from SupervisorAssumption and NoStatusAssumption.
  `SupervisorSafe`: Spec => []SupervisorInv. SupervisorIInv adds that isShuttingDown is
  up whenever a goroutine is inside the shutdown (ShutdownFlagged), that the Failure is
  set before it is signalled, what the status can be before the agent is there, and that
  a podman stop that does not fail returns only when the container it was told of has
  exited (StopIsAwaited). StoppedMeansStopped follows for every path to STOPPED but two: a
  podman stop that failed, and one that found no container, of which StopIsAwaited says
  that the status before was one of EarlyStatuses.
  `ShutdownContractSafe` is the safety part of the refinement of ShutdownContract: the
  initial states map, and every step maps to a step or a stutter; its fairness stays
  with TLC.
* `ContainerProofs`, about AgentRuns, from AgentAssumption (the bounds are naturals, one
  run at least). `RunCorrect` (AgentSpec => []RunInv) and `ConversationKept`
  (AgentSpec => []ConversationInv) follow from AgentIInv, which has four parts:
  RunsOK (a run waits for approval if and only if one is pending, none of its tools is
  left open when it is over, and only a live one has a timer to save it);
  FilesOK, which ties each write that a handler has left in `todo` to memory and to the
  files, so that a crash between any two of them loses nothing, nor a failing one after
  which the rest is not made (a handler appends one
  message at most, a new one, AppendsOnce; pending.json is cleared after the append,
  ClearedLast; a saved answer is in pending.json or in the conversation, SavedIsPending;
  the last conversation.json of a handler names the active run, SaveIsLive);
  LogsOK (the events of a run are numbered without a gap, a "message" holds what the
  deltas before it told, and what is told and what waits make up the answer); and
  StreamOK (what the portal has and what is on its way to it is a beginning of the run's
  log, or of the log of a run that was forgotten).
* How much of the answer a log tells (Told) and what a portal shows that has read it
  (Replay) are recursive functions over the log. What they do when an event is appended or
  a log is cut is proved by induction: the least number at which a claim fails
  (LeastNumber, from the library's theorem on well-founded relations) contradicts the
  step. ToldFacts, ToldPrefix, ToldStays and ReplayAfter are the results; the text of a
  portal agrees with the answer (TextAgrees) because of them.
* `StreamProofs`. `WatchCorrect`: Spec => []WatchInv of WorkspaceWatch, from FeedFollows
  (what the store has not published yet is in the feed, each version once) and, for every
  stream, InOrder (the two buffers continue what the client has received) and UpToDate.
  `ExecCorrect`: ExecSpec => []ExecInv, from ExecAssumption: ExecIInv adds that nothing is
  on its way that the command has not written (OutputIsWritten) and that an Exit is
  published for a dead shell only (ExitIsTrue), so that the order of what is in the six
  places between the pipe and the caller is kept by each move from one to the next.
* `ProgramProofs`, about WorkspaceTasks, from TasksAssumption (no task is listed twice).
  `TasksHold`: Spec => []TaskInv; `RunningSettled` (RunningIsReady) and `PreStopsRun`
  (PreStopRuns), which are action properties, the second of an agent that podman stop
  leaves the time. TaskIInv says that one call of Prepare
  gets past startedPrepare, and that runningWG is up until that call has ended; StopOrder
  that the PRE_STOP tasks before the present one have run.
* `ProgramProofs`, about Terminals, from TerminalAssumption (the capacities are not 0).
  `TerminalCorrect`: TerminalSpec => []TerminalInv. TerminalIInv adds PipeInOrder (the
  output rises from the replay buffer back to the pty), ClosedForAReason, and for every
  client StreamInOrder: a chunk b such that all that comes as a message of its own is
  newer than b, while what the client has read, or the replay buffer it has not read yet,
  ends at b + 1 at the latest. That is where the one chunk comes from that a client can
  read twice: setBuf had stored it and publishMsg had not sent it when the handler
  subscribed. After it, b is the newest chunk read.

Only model-checked: the liveness properties and the fairness of ShutdownContract, since
fairness, leads-to and ENABLED are outside the provers' reach. Every invariant and
every action property that a run checks is a theorem.

## Not modelled

* About two thirds of the implementation's lines are generated (`*.pb.go`, gRPC stubs,
  clients) and have no behaviour of their own to state.
* The host side of the supervisor (podman, nftables, cgroups, images), network policy,
  Git utilities and everything else that translates a specification into command lines,
  rules or pod specs: functions of their input, without state that another actor shares.
* Spaces, Memberships, Secrets, Git providers: validation and one write each.
* Portal and Vigil apart from the chat: proxies with authorization.
* The AI agent's model, tools, artifacts and sign-in; the deletion of conversations.
* In the modelled parts: a second approval that is pending in one run (the code counts a
  map of them, `manager.ts:648`; the model has one at a time); a CreateSession whose answer
  is lost, which would leave a Session that no request knows of; the errors of pipes and
  connections in `task.go` and `terminal.go` other than a command that cannot be started and
  a stream that breaks; the saves of titles and of sessions of the AI agent (an error of the
  first title's is in StartFails). The Volume run has one UpdateVolume at a time: that two
  overlapping ones do not shrink it is GrowsOnly alone. A STOPPED that follows a failed
  podman stop may be missed by a ListenState in its gap, as any STOPPED may (StopIsNoticed
  says that the end of the stream is noticed). OnAdd of the controller (it starts builds, which TemplateBuilds
  has, and resumes what the watch replays, as the pass does); the computation of compute
  limits and the choice of a Region; window sizes and the limit of 150 terminals; the
  cut of a Template's history at 1000 entries, and the removal of finished build
  Workspaces, which the code does not do; the liveness of builds. That two calls of
  Prepare test startedPrepare before either sets it (two locks) is assumed away: the
  supervisor repeats a call a second later.

## Plan

1. `WorkspaceContract`: the lifecycle as the SDK and the end-to-end suite describe it,
   and the refinement by WorkspaceLifecycle with the steps that break it named.
2. The composition of Supervisor with the status stream that WorkspaceLifecycle assumes.
3. Liveness of builds, with WorkspaceLifecycle's run in place of the short one.
