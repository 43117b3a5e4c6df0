--------------------------- MODULE TemplateBuilds ---------------------------
(***************************************************************************)
(* The pre-builds of one Template: BuildTemplate and CancelBuildTemplate   *)
(* of the API server, the statusWatcher of each hidden build Workspace,    *)
(* which records the result in the Template, and the snapshot of its       *)
(* storage that new Workspaces are restored from.                          *)
(*                                                                         *)
(* Template and Workspace are written under the version that was read.  A  *)
(* writer's copy is the current Template as long as its version is, so     *)
(* only "fresh" is kept.  Of the run of a build Workspace                 *)
(* (WorkspaceLifecycle) only what reaches the Template is kept.  The       *)
(* history is not cut (the code keeps 1000 entries).                       *)
(***************************************************************************)
EXTENDS Naturals, FiniteSets

CONSTANTS
  Builds,      \* IDs of pre-builds, each used once
  Callers,     \* requests at the same time
  Edits,       \* what else happens to the Template: "update", "delete"
  MaxFaults,   \* bound: failed starts, lost pods, failed calls and snapshots
  MaxCrashes   \* bound: crashes of Nocturne

ASSUME TemplateBuildsAssumption ==
  /\ "none" \notin Builds /\ Edits \subseteq {"update", "delete"}
  /\ MaxFaults \in Nat /\ MaxCrashes \in Nat

VARIABLES
  tmpl,    \* the Template: state per build, canceled builds, current builds
  ws,      \* the state of each build Workspace
  pods,    \* builds with a pod
  added,   \* builds whose creation Nocturne has still to handle
  stops,   \* builds whose STOPPING_REQUEST Nocturne has still to handle
  call,    \* the requests in the API server
  job,     \* the statusWatchers
  vs,      \* builds with a VolumeSnapshot
  up, faults, crashes

vars == <<tmpl, ws, pods, added, stops, call, job, vs, up, faults, crashes>>

None == "none"
NoCall == [pc |-> "idle", op |-> None, seen |-> None, marked |-> FALSE, new |-> None, fresh |-> FALSE]
NoJob == [pc |-> None, failed |-> FALSE]

Init ==
  /\ tmpl = [st |-> "live", builds |-> [b \in Builds |-> None], canceled |-> {},
             running |-> None, ready |-> None]
  /\ ws = [b \in Builds |-> None]
  /\ pods = {} /\ added = {} /\ stops = {} /\ vs = {}
  /\ call = [c \in Callers |-> NoCall]
  /\ job = [b \in Builds |-> NoJob]
  /\ up = TRUE /\ faults = 0 /\ crashes = 0

Exists(b) == ws[b] \notin {None, "gone"}

\* A write of the Template: every other copy is out of date.  A request, or an
\* onStopped, that has only the save left to do returns its conflict; the
\* watcher is then closed and the Workspace stays STOPPING.
StaleCalls(calls) ==
  [c \in Callers |-> IF calls[c].pc = "save" THEN NoCall ELSE [calls[c] EXCEPT !.fresh = FALSE]]
StaleJobs(jobs) ==
  [b \in Builds |-> IF jobs[b].pc = "save" THEN NoJob ELSE jobs[b]]

\* A write of the Workspace of b: the request that has read it conflicts.
Outdated(calls, b) ==
  [c \in Callers |-> IF calls[c].pc = "stop" /\ calls[c].seen = b THEN NoCall ELSE calls[c]]

-----------------------------------------------------------------------------
(* The API server. *)

BuildTemplate(c) ==
  /\ call[c].pc = "idle" /\ tmpl.st = "live"
  /\ \E b \in Builds : ws[b] = None
  /\ call' = [call EXCEPT ![c] = [NoCall EXCEPT !.pc = "cancel", !.op = "build",
                                    !.seen = tmpl.running, !.fresh = TRUE]]
  /\ UNCHANGED <<tmpl, ws, pods, added, stops, job, vs, up, faults, crashes>>

\* It returns at once when no build is running.
CancelBuildTemplate(c) ==
  /\ call[c].pc = "idle" /\ tmpl.st = "live" /\ tmpl.running # None
  /\ call' = [call EXCEPT ![c] = [NoCall EXCEPT !.pc = "cancel", !.op = "cancel",
                                    !.seen = tmpl.running, !.fresh = TRUE]]
  /\ UNCHANGED <<tmpl, ws, pods, added, stops, job, vs, up, faults, crashes>>

AfterCancel(c) == IF call[c].op = "build" THEN "create" ELSE "save"

\* doCancelBuild reads the build's Workspace.  Without a running build, or
\* without the Workspace, there is nothing to do and nothing is changed.
CancelGet(c) ==
  /\ call[c].pc = "cancel"
  /\ call' = [call EXCEPT ![c] =
       IF call[c].seen # None /\ Exists(call[c].seen) THEN [@ EXCEPT !.pc = "stop"]
       ELSE IF AfterCancel(c) = "save" /\ ~call[c].fresh THEN NoCall
       ELSE [@ EXCEPT !.pc = AfterCancel(c)]]
  /\ UNCHANGED <<tmpl, ws, pods, added, stops, job, vs, up, faults, crashes>>

\* doCancelBuild marks the build in its copy of the Template and asks the
\* Workspace to stop, in whatever state it is.  One that is STOPPED has no
\* Region any more: no Nocturne takes it up.
StopState(b) == IF ws[b] \in {"stopped", "limbo"} THEN "limbo" ELSE "stopreq"
CancelStop(c) ==
  LET b == call[c].seen IN
  /\ call[c].pc = "stop"
  /\ ws' = [ws EXCEPT ![b] = StopState(b)]
  /\ stops' = IF StopState(b) = "stopreq" THEN stops \cup {b} ELSE stops
  /\ call' = [Outdated(call, b) EXCEPT ![c] =
       IF AfterCancel(c) = "save" /\ ~call[c].fresh THEN NoCall
       ELSE [call[c] EXCEPT !.pc = AfterCancel(c), !.marked = TRUE]]
  /\ UNCHANGED <<tmpl, pods, added, job, vs, up, faults, crashes>>

\* createBuildRun: the limits may refuse it, after the cancellation.
CreateRefused(c) ==
  /\ call[c].pc = "create"
  /\ call' = [call EXCEPT ![c] = NoCall]
  /\ UNCHANGED <<tmpl, ws, pods, added, stops, job, vs, up, faults, crashes>>

CreateBuildRun(c) ==
  /\ call[c].pc = "create"
  /\ \E b \in Builds :
       /\ ws[b] = None
       /\ ws' = [ws EXCEPT ![b] = "init"]
       /\ added' = added \cup {b}
       /\ call' = [call EXCEPT ![c] =
            IF call[c].fresh THEN [@ EXCEPT !.pc = "save", !.new = b] ELSE NoCall]
  /\ UNCHANGED <<tmpl, pods, stops, job, vs, up, faults, crashes>>

\* What doCancelBuild and createBuildRun have changed in the copy.
Canceled(t, c) ==
  IF ~call[c].marked THEN t
  ELSE [t EXCEPT !.canceled = @ \cup {call[c].seen}, !.running = None,
                 !.builds[call[c].seen] = "failed"]
Added(t, c) ==
  IF call[c].new = None THEN t
  ELSE [t EXCEPT !.builds[call[c].new] = "running", !.running = call[c].new]

\* UpdateTemplate under the version that was read.
SaveTemplate(c) ==
  /\ call[c].pc = "save"
  /\ tmpl' = Added(Canceled(tmpl, c), c)
  /\ call' = StaleCalls(call)
  /\ job' = StaleJobs(job)
  /\ UNCHANGED <<ws, pods, added, stops, vs, up, faults, crashes>>

\* UpdateTemplate of the API server: another change of the Template.
UpdateTemplate ==
  /\ "update" \in Edits /\ tmpl.st = "live"
  /\ call' = StaleCalls(call) /\ job' = StaleJobs(job)
  /\ UNCHANGED <<tmpl, ws, pods, added, stops, vs, up, faults, crashes>>

DeleteTemplate ==
  /\ "delete" \in Edits /\ tmpl.st = "live"
  /\ tmpl' = [tmpl EXCEPT !.st = "deleted"]
  /\ call' = StaleCalls(call) /\ job' = StaleJobs(job)
  /\ UNCHANGED <<ws, pods, added, stops, vs, up, faults, crashes>>

-----------------------------------------------------------------------------
(* Nocturne. *)

\* The Template controller deletes the VolumeSnapshots of the Template.
OnDeleteTemplate ==
  /\ up /\ tmpl.st = "deleted"
  /\ tmpl' = [tmpl EXCEPT !.st = "cleaned"]
  /\ vs' = {}
  /\ UNCHANGED <<ws, pods, added, stops, call, job, up, faults, crashes>>

\* OnAdd of a build Workspace, which starts it or fails to.
OnAdd(b) ==
  /\ up /\ b \in added
  /\ added' = added \ {b}
  /\ \/ /\ job' = [job EXCEPT ![b] = [NoJob EXCEPT !.pc = "watch"]]
        /\ pods' = pods \cup {b}
        /\ UNCHANGED faults
     \/ /\ faults < MaxFaults /\ faults' = faults + 1
        /\ UNCHANGED <<job, pods>>
  /\ UNCHANGED <<tmpl, ws, stops, call, vs, up, crashes>>

Watched(b) == up /\ job[b].pc = "watch" /\ b \in pods

SetState(b, st) ==
  /\ ws' = [ws EXCEPT ![b] = st]
  /\ call' = Outdated(call, b)

\* The Supervisor reports INITIALIZING, BUILDING or RUNNING.
Report(b) ==
  /\ Watched(b) /\ ws[b] \in {"init", "stopreq", "active"}
  /\ SetState(b, "active")
  /\ UNCHANGED <<tmpl, pods, added, stops, job, vs, up, faults, crashes>>

\* The build ends, by itself or because of the Shutdown call.
Stopping(b) ==
  /\ Watched(b)
  /\ IF Exists(b) THEN SetState(b, "stopping") ELSE UNCHANGED <<ws, call>>
  /\ job' = [job EXCEPT ![b].pc = "ending"]
  /\ UNCHANGED <<tmpl, pods, added, stops, vs, up, faults, crashes>>

\* onStopped up to the Template: the failure that GetFailure returns, none
\* for a build that succeeded or was shut down, and doOnDeleteK8s.
OnStopped(b, failed) ==
  /\ up /\ job[b].pc = "ending" /\ b \in pods
  /\ job' = [job EXCEPT ![b] = [NoJob EXCEPT !.pc = "get", !.failed = failed]]
  /\ pods' = pods \ {b}
  /\ UNCHANGED <<tmpl, ws, added, stops, call, vs, up, faults, crashes>>

\* forceOnStop without a Supervisor that answers: STOPPED first, then
\* onStopped with a failure.
ForceOnStop(b) ==
  /\ up /\ job[b].pc \in {"watch", "ending"} /\ b \notin pods
  /\ IF Exists(b) THEN SetState(b, "stopped") ELSE UNCHANGED <<ws, call>>
  /\ job' = [job EXCEPT ![b] = [NoJob EXCEPT !.pc = "get", !.failed = TRUE]]
  /\ UNCHANGED <<tmpl, pods, added, stops, vs, up, faults, crashes>>

\* A Template that is gone, or that does not list the build, is left alone.
OnStoppedGet(b) ==
  /\ up /\ job[b].pc = "get"
  /\ job' = IF tmpl.st = "live" /\ tmpl.builds[b] # None
            THEN [job EXCEPT ![b].pc = "save"]
            ELSE [job EXCEPT ![b].pc = "status"]
  /\ UNCHANGED <<tmpl, ws, pods, added, stops, call, vs, up, faults, crashes>>

\* The state that onStopped gives the build.  (Variant: a cancellation is not
\* looked at.)
ResultUncanceled(t, b) == IF job[b].failed THEN "failed" ELSE "ready"
Result(t, b) == IF b \in t.canceled \/ job[b].failed THEN "failed" ELSE "ready"

\* (Variant: a build that failed becomes the current one.)
RecordedAlways(t, b) ==
  [t EXCEPT !.builds[b] = Result(t, b), !.ready = b,
            !.running = IF @ = b THEN None ELSE @]
Recorded(t, b) ==
  [t EXCEPT !.builds[b] = Result(t, b),
            !.ready = IF Result(t, b) = "ready" THEN b ELSE @,
            !.running = IF @ = b THEN None ELSE @]

\* UpdateTemplate of onStopped under the version that was read.
OnStoppedSave(b) ==
  /\ up /\ job[b].pc = "save"
  /\ tmpl' = Recorded(tmpl, b)
  /\ call' = StaleCalls(call)
  /\ job' = [StaleJobs(job) EXCEPT ![b] =
       [job[b] EXCEPT !.pc = IF Result(tmpl, b) = "ready" THEN "snap" ELSE "status"]]
  /\ UNCHANGED <<ws, pods, added, stops, vs, up, faults, crashes>>

\* createTemplateSnapshot, whose errors are only logged.
CreateTemplateSnapshot(b) ==
  /\ up /\ job[b].pc = "snap"
  /\ job' = [job EXCEPT ![b].pc = "status"]
  /\ \/ vs' = vs \cup {b} /\ UNCHANGED faults
     \/ faults < MaxFaults /\ faults' = faults + 1 /\ UNCHANGED vs
  /\ UNCHANGED <<tmpl, ws, pods, added, stops, call, up, crashes>>

\* doUpdateStatus(STOPPED), which retries, and the end of the watcher.
SetStopped(b) ==
  /\ up /\ job[b].pc = "status"
  /\ IF Exists(b) THEN SetState(b, "stopped") ELSE UNCHANGED <<ws, call>>
  /\ job' = [job EXCEPT ![b] = NoJob]
  /\ UNCHANGED <<tmpl, pods, added, stops, vs, up, faults, crashes>>

\* stopWorkspace: the Shutdown call succeeds, and the pod ends the build, or
\* it fails, and Nocturne removes the pod and sets STOPPED itself.
StopWorkspace(b) ==
  /\ up /\ b \in stops
  /\ stops' = stops \ {b}
  /\ \/ /\ b \in pods
        /\ UNCHANGED <<ws, pods, call, faults>>
     \/ /\ IF b \notin pods THEN UNCHANGED faults
           ELSE faults < MaxFaults /\ faults' = faults + 1
        /\ pods' = pods \ {b}
        /\ IF ws[b] = "stopreq" THEN SetState(b, "stopped") ELSE UNCHANGED <<ws, call>>
  /\ UNCHANGED <<tmpl, added, job, vs, up, crashes>>

-----------------------------------------------------------------------------
(* The periodic pass over the Workspaces, and faults. *)

Unwatched(b) == up /\ job[b].pc = None

\* ResumeWorkspace.
Resume(b) ==
  /\ Unwatched(b) /\ ws[b] \in {"active", "stopreq", "stopping"}
  /\ job' = [job EXCEPT ![b].pc = "watch"]
  /\ UNCHANGED <<tmpl, ws, pods, added, stops, call, vs, up, faults, crashes>>

\* A start that was never handled: the Workspace is stopped and deleted, and
\* the Template is not told.
StalledInit(b) ==
  /\ Unwatched(b) /\ ws[b] = "init" /\ b \notin added
  /\ SetState(b, "gone")
  /\ UNCHANGED <<tmpl, pods, added, stops, job, vs, up, faults, crashes>>

\* A stop older than two hours, found after a long absence: the pass resumes
\* the Workspace, and then deletes it.
StalledStop(b) ==
  /\ Unwatched(b) /\ crashes > 0 /\ ws[b] \in {"stopreq", "stopping"}
  /\ SetState(b, "gone")
  /\ pods' = pods \ {b}
  /\ job' = [job EXCEPT ![b].pc = "watch"]
  /\ UNCHANGED <<tmpl, added, stops, vs, up, faults, crashes>>

PodLost(b) ==
  /\ faults < MaxFaults /\ faults' = faults + 1
  /\ b \in pods
  /\ pods' = pods \ {b}
  /\ UNCHANGED <<tmpl, ws, added, stops, call, job, vs, up, crashes>>

Crash ==
  /\ up /\ crashes < MaxCrashes /\ crashes' = crashes + 1
  /\ up' = FALSE
  /\ added' = {} /\ stops' = {}
  /\ job' = [b \in Builds |-> NoJob]
  /\ UNCHANGED <<tmpl, ws, pods, call, vs, faults>>

Restart ==
  /\ ~up /\ up' = TRUE
  /\ UNCHANGED <<tmpl, ws, pods, added, stops, call, job, vs, faults, crashes>>

-----------------------------------------------------------------------------
Request(c) ==
  \/ CancelGet(c) \/ CancelStop(c)
  \/ CreateRefused(c) \/ CreateBuildRun(c) \/ SaveTemplate(c)

Run(b) ==
  \/ OnAdd(b) \/ Stopping(b) \/ OnStopped(b, TRUE) \/ OnStopped(b, FALSE)
  \/ ForceOnStop(b) \/ OnStoppedGet(b) \/ OnStoppedSave(b)
  \/ CreateTemplateSnapshot(b) \/ SetStopped(b)

Next ==
  \/ \E c \in Callers : BuildTemplate(c) \/ CancelBuildTemplate(c) \/ Request(c)
  \/ UpdateTemplate \/ DeleteTemplate \/ OnDeleteTemplate
  \/ \E b \in Builds :
       \/ Run(b) \/ Report(b) \/ StopWorkspace(b)
       \/ Resume(b) \/ StalledInit(b) \/ StalledStop(b) \/ PodLost(b)
  \/ Crash \/ Restart

Spec == Init /\ [][Next]_vars

-----------------------------------------------------------------------------
(* Properties. *)

TemplateRecords ==
  [st : {"live", "deleted", "cleaned"},
   builds : [Builds -> {None, "running", "ready", "failed"}],
   canceled : SUBSET Builds, running : Builds \cup {None}, ready : Builds \cup {None}]
CallRecords ==
  [pc : {"idle", "cancel", "stop", "create", "save"}, op : {None, "build", "cancel"},
   seen : Builds \cup {None}, marked : BOOLEAN, new : Builds \cup {None}, fresh : BOOLEAN]
JobRecords ==
  [pc : {None, "watch", "ending", "get", "save", "snap", "status"}, failed : BOOLEAN]

\* The variables have their types.
TypeOK ==
  /\ tmpl \in TemplateRecords
  /\ ws \in [Builds -> {None, "init", "active", "stopreq", "stopping", "stopped", "limbo", "gone"}]
  /\ pods \subseteq Builds /\ added \subseteq Builds /\ stops \subseteq Builds
  /\ vs \subseteq Builds
  /\ call \in [Callers -> CallRecords]
  /\ job \in [Builds -> JobRecords]
  /\ up \in BOOLEAN /\ faults \in 0..MaxFaults /\ crashes \in 0..MaxCrashes

\* A build that the Template has as canceled stays FAILED: the watcher that
\* ends it later, or again, never makes it READY or the current one
\* (doCancelBuild, onStopped).
CanceledIsFailed ==
  \A b \in tmpl.canceled : tmpl.builds[b] = "failed" /\ tmpl.ready # b

\* The build that new Workspaces are restored from is one that is READY
\* (onStopped)...
CurrentIsReady == tmpl.ready # None => tmpl.builds[tmpl.ready] = "ready"

\* ... unless a crash of Nocturne makes onStopped record a build a second time.
CurrentStaysReady == crashes = 0 => CurrentIsReady

\* Of the builds that the Template lists as running one Workspace works at a
\* time: a new build replaces the one before it (getOrCreateBuild).
OneListedBuild ==
  Cardinality({b \in Builds : tmpl.builds[b] = "running" /\ ws[b] \in {"init", "active"}}) <= 1

\* A build is listed as running until it is recorded, canceled, or replaced because its
\* Workspace is gone.
RunningIsListed ==
  /\ tmpl.running # None => tmpl.builds[tmpl.running] = "running"
  /\ \A b \in Builds : tmpl.builds[b] = "running" /\ b # tmpl.running => ws[b] = "gone"
  /\ \A b \in Builds : ws[b] = None => tmpl.builds[b] = None
  /\ tmpl.ready # None => tmpl.builds[tmpl.ready] \in {"ready", "failed"}

\* What a request q knows of the Template t and of the Workspaces w.  A copy of the
\* Template that is current says which build is running; doCancelBuild has marked the
\* build, or its Workspace is gone; the Template does not list the new build yet.
CallOK(q, t, w) ==
  /\ q.pc # "idle" /\ q.fresh => q.seen = t.running
  /\ q.pc = "save" => q.fresh
  /\ q.seen # None => w[q.seen] # None
  /\ q.pc = "stop" => q.seen # None /\ w[q.seen] # "gone"
  /\ q.marked => q.seen # None
  /\ q.pc \in {"create", "save"} /\ q.seen # None /\ ~q.marked => w[q.seen] = "gone"
  /\ q.new # None => q.pc = "save" /\ w[q.new] # None /\ t.builds[q.new] = None

\* onStopped saves the result of a build that the Template lists.
JobsListed == \A b \in Builds : job[b].pc = "save" => tmpl.builds[b] # None

\* The inductive invariant.
BuildIInv ==
  /\ TypeOK /\ CanceledIsFailed /\ RunningIsListed
  /\ (\A c \in Callers : CallOK(call[c], tmpl, ws)) /\ JobsListed

\* Without a crash only the watcher that OnAdd starts records a build as READY: one that
\* the periodic pass starts before has no pod and fails.  The Workspace of a READY build
\* is on its way to STOPPED, or was stopped, and nothing watches it again.
RecordedOnce(b) ==
  /\ ws[b] = None => job[b].pc = None /\ b \notin pods /\ b \notin added
  /\ b \in added => /\ b \notin pods /\ tmpl.builds[b] # "ready"
                    /\ job[b].pc \notin {"ending", "snap"}
                    /\ job[b].pc \in {"get", "save"} => job[b].failed
  /\ tmpl.builds[b] = "ready" =>
       \/ job[b].pc \in {"snap", "status"}
       \/ job[b].pc = None /\ ws[b] \in {"stopped", "limbo", "gone"}

ReadyIInv == crashes = 0 => CurrentIsReady /\ \A b \in Builds : RecordedOnce(b)

\* What the Template records of its builds, whoever writes it last.
BuildInv == TypeOK /\ CanceledIsFailed /\ OneListedBuild
=============================================================================
