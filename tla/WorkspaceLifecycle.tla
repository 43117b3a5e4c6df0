------------------------- MODULE WorkspaceLifecycle -------------------------
(***************************************************************************)
(* The lifecycle of one Workspace across the processes that share it:      *)
(*                                                                         *)
(*  - the API server, which writes start, stop and delete requests into    *)
(*    the Workspace resource (apiserver/mains/workspace.go);               *)
(*  - Nocturne, the Region's controller: the event handlers                *)
(*    (controllers/workspaces/controller.go), one statusWatcher per        *)
(*    supervised Workspace with its goroutines (watcher.go), and the       *)
(*    periodic pass over all Workspaces (nocturne/watcher.go);             *)
(*  - the supervisor inside the Workspace's pod, seen through its status   *)
(*    stream and its RPCs;                                                 *)
(*  - Kubernetes, as far as the owner ConfigMap, the pod and the PVC go.   *)
(*                                                                         *)
(* The resource store refuses an Update whose resource version is not the  *)
(* current one.  Versions are not counted: "fresh" is the set of those who *)
(* hold a copy of the Workspace that no write has overtaken.  A read and   *)
(* an Update that succeeds are therefore one step; a copy kept across      *)
(* other calls (an event, a listed item) is kept in the state.             *)
(***************************************************************************)
EXTENDS Naturals, Sequences

CONSTANTS
  Watchers,       \* slots for statusWatcher objects
  Handlers,       \* goroutines that run event handlers (one: handled in order)
  None,           \* no watcher
  Ephemeral,      \* Spec.IsEphemeral of the Workspace
  MaxRuns,        \* bound: StartWorkspace calls that succeed
  MaxStops,       \* bound: StopWorkspace calls that write
  MaxPasses,      \* bound: passes that list the Workspace
  BoundPasses,    \* whether MaxPasses applies
  MaxEvents,      \* bound: undelivered watch events
  MaxReports,     \* bound: unread statuses of a supervisor's stream
  MaxCrashes,     \* bound: crashes of Nocturne
  MaxPodRestarts, \* bound: container restarts
  MaxFaults       \* bound: other transient failures (RPC, store, Kubernetes)

ASSUME ConstAssumption ==
  /\ None \notin Watchers
  /\ "queue" \notin Watchers \cup Handlers
  /\ Watchers \cap Handlers = {}
  /\ \A g, h \in Handlers : g = h
  /\ Ephemeral \in BOOLEAN /\ BoundPasses \in BOOLEAN
  /\ MaxRuns \in Nat /\ MaxStops \in Nat /\ MaxPasses \in Nat
  /\ MaxEvents \in Nat /\ MaxReports \in Nat
  /\ MaxCrashes \in Nat /\ MaxPodRestarts \in Nat /\ MaxFaults \in Nat

VARIABLES
  ws,         \* the Workspace resource in the store
  fresh,      \* who holds the current version of it
  events,     \* watch events not yet delivered to Nocturne
  calls,      \* calls of the controller: by an event handler, or by a watcher
  registered, \* watcherMap: the watcher of the Workspace, or None
  watchers,   \* the statusWatcher objects
  threads,    \* the goroutines of each statusWatcher
  periodic,   \* nocturne/watcher.go: the pass over the Workspaces
  pod,        \* the Workspace's Deployment and the supervisor in its pod
  pvc,        \* the Workspace's PersistentVolumeClaim
  sessions,   \* the live Octelium Sessions of the Workspace, by run
  budget      \* how much of MaxCrashes, MaxPodRestarts, MaxFaults is used

store == <<ws, fresh, events>>
supervision == <<registered, watchers, threads>>
k8s == <<pod, pvc>>
vars == <<ws, fresh, events, calls, registered, watchers, threads,
          periodic, pod, pvc, sessions, budget>>

(***************************************************************************)
(* States.  INITIALIZING stands for the states from INITIALIZING to        *)
(* PREPARING: the supervisor passes through them without taking part of    *)
(* Nocturne, which copies them into the resource.                          *)
(***************************************************************************)
PreRunning == {"INIT_REQUEST", "INITIALIZING"}
Stopping == {"STOPPING_REQUEST", "STOPPING"}
States == PreRunning \cup {"RUNNING"} \cup Stopping \cup {"STOPPED"}

\* What the supervisor reports on its stream.
Reports == {"INITIALIZING", "RUNNING", "STOPPING", "STOPPED"}

(***************************************************************************)
(* The goroutines of a statusWatcher: "sup" is startSupervise, "health"    *)
(* startHealthCheckLoop, "clean" cleanupStaleStoppingState and "force" the *)
(* forceOnStop that stopWorkspace spawns.  "pc" is the next call of the    *)
(* goroutine; "path" is the function that called doUpdateStatus/onStopped: *)
(* handleStatus of STOPPED ("handle") or of another state ("status"), or   *)
(* forceOnStop from a goroutine ("force") or from doClose ("closing");     *)
(* "st" is the state that doUpdateStatus is to write.                      *)
(***************************************************************************)
Threads == {"sup", "health", "clean", "force"}
PCs == {"off", "wait", "recv", "watch", "timer", "init", "update", "onStopped",
        "delK8s", "close", "stop", "finish"}
Paths == {"status", "handle", "force", "closing"}

At(pc, path, st) == [pc |-> pc, path |-> path, st |-> st]
Off == At("off", "status", "STOPPED")
AllOff == [t \in Threads |-> Off]

FreeWatcher ==
  [phase |-> "free", run |-> 0, sess |-> 0, connected |-> FALSE,
   subscribed |-> FALSE, chan |-> <<>>, didOnInit |-> FALSE,
   didOnStopping |-> FALSE, didOnStopped |-> FALSE,
   healthCheckErr |-> FALSE, isClosed |-> FALSE]

\* newStatusWatcher for a copy of the Workspace.
NewWatcher(copy, phase) ==
  [FreeWatcher EXCEPT !.phase = phase, !.run = copy.run, !.sess = copy.sess]

NoPod == [run |-> 0, st |-> "GONE", owned |-> FALSE, init |-> FALSE, stop |-> FALSE]
NoPVC == [run |-> 0, terminating |-> FALSE]

\* A call of the controller: an event handler's, or the stopWorkspace that a
\* closing watcher makes.  "op" is its next step.
Callers == Handlers \cup Watchers
NoCall == [op |-> "idle", kind |-> "stop", run |-> 0, sess |-> 0, w |-> None]
NoPass == [op |-> "idle", resumable |-> FALSE, verdict |-> "none", run |-> 0, sess |-> 0]

Init ==
  \* CreateWorkspace: a Workspace is created STOPPED, without Region or Session.
  /\ ws = [exists |-> TRUE, state |-> "STOPPED", region |-> FALSE,
           session |-> 0, run |-> 0, aged |-> FALSE]
  /\ fresh = {}
  /\ events = <<>>
  /\ calls = [c \in Callers |-> NoCall]
  /\ registered = None
  /\ watchers = [w \in Watchers |-> FreeWatcher]
  /\ threads = [w \in Watchers |-> AllOff]
  /\ periodic = NoPass
  /\ pod = NoPod
  /\ pvc = NoPVC
  /\ sessions = {}
  /\ budget = [stops |-> 0, passes |-> 0, crashes |-> 0, restarts |-> 0, faults |-> 0]

-----------------------------------------------------------------------------
(***************************************************************************)
(* The resource store.  A write notifies Nocturne's watch; OnUpdate acts   *)
(* only on the changes below, so the others are not queued.                *)
(***************************************************************************)
Event(kind, r) == [kind |-> kind, run |-> r.run, sess |-> r.session]

\* controller.OnUpdate: which updates it acts on.
OnUpdate(old, new) ==
  IF ~new.region THEN <<>>
  ELSE IF new.state = "INIT_REQUEST" /\ old.state = "STOPPED"
       THEN <<Event("start", new)>>
  ELSE IF new.state = "STOPPING_REQUEST" /\ old.state # "STOPPING_REQUEST"
       THEN <<Event("stop", new)>>
  ELSE <<>>

Notify(evs) ==
  /\ events' = events \o evs
  /\ fresh' = IF evs = <<>> THEN {} ELSE {"queue"}

Put(new) == ws' = new /\ Notify(OnUpdate(ws, new))

\* What every writer of STOPPED but doSetState writes.
Cleared(r) == [r EXCEPT !.state = "STOPPED", !.region = FALSE, !.session = 0]

\* Status.CurrentStateSetAt := now.
Stamped(r) == [r EXCEPT !.aged = FALSE]

Room == Len(events) < MaxEvents
NoFault == budget' = budget
Fault ==
  /\ budget.faults < MaxFaults
  /\ budget' = [budget EXCEPT !.faults = @ + 1]

-----------------------------------------------------------------------------
(* The API server. *)

StartWorkspace ==
  /\ ws.exists /\ ws.state = "STOPPED"
  /\ ws.run < MaxRuns /\ Room
  /\ LET run == ws.run + 1 IN
       /\ sessions' = sessions \cup {run}
       /\ Put(Stamped([ws EXCEPT !.state = "INIT_REQUEST", !.run = run,
                                 !.region = TRUE, !.session = run]))
  /\ UNCHANGED <<calls, supervision, periodic, k8s, budget>>

\* CurrentStateSetAt is left alone.
StopWorkspace ==
  /\ ws.exists /\ ws.state \notin Stopping \cup {"STOPPED"} /\ Room
  /\ budget.stops < MaxStops
  /\ budget' = [budget EXCEPT !.stops = @ + 1]
  /\ Put([ws EXCEPT !.state = "STOPPING_REQUEST"])
  /\ UNCHANGED <<calls, supervision, periodic, k8s, sessions>>

\* OnDelete stops the Workspace unless it is STOPPED or of another Region.
DeleteWorkspace ==
  /\ ws.exists /\ Room
  /\ ws' = [Stamped(Cleared(ws)) EXCEPT !.exists = FALSE]
  /\ Notify(<<Event(IF ws.region /\ ws.state # "STOPPED"
                    THEN "delete" ELSE "purge", ws)>>)
  /\ UNCHANGED <<calls, supervision, periodic, k8s, sessions, budget>>

\* UpdateWorkspace, ShareWorkspacePort, UnshareWorkspacePort, activity reports:
\* writes that leave the lifecycle alone but change the resource version.
OtherWrite ==
  /\ ws.exists /\ fresh # {}
  /\ Put(ws)
  /\ UNCHANGED <<calls, supervision, periodic, k8s, sessions, budget>>

-----------------------------------------------------------------------------
(* Kubernetes calls of Nocturne. *)

Serving == pod.st \notin {"GONE", "PENDING"}

\* doOnDeleteK8s, DoDeleteWorkspaceOwner: the owner ConfigMap is found by the
\* Workspace's name, whichever run the Deployment belongs to.
DeleteOwner == pod' = [pod EXCEPT !.owned = FALSE]

\* removePersistentClaim.  A claim in use is kept until its pod is gone.
RemoveClaim ==
  pvc' = IF pvc.run # 0 /\ pod.st # "GONE"
         THEN [pvc EXCEPT !.terminating = TRUE] ELSE NoPVC

-----------------------------------------------------------------------------
(***************************************************************************)
(* controllers/workspaces/controller.go: the event handlers.               *)
(***************************************************************************)
GotoOp(c, op) == calls' = [calls EXCEPT ![c].op = op]
Return(c) == calls' = [calls EXCEPT ![c] = NoCall]

\* The first step of each handler.  (Variant: OnDelete forgets stopWorkspace.)
FirstOpNoStop(kind) ==
  CASE kind = "start" -> "setPVC" [] kind \in {"delete", "purge"} -> "pvc"
    [] OTHER -> "shutdown"

FirstOp(kind) ==
  CASE kind = "start" -> "setPVC" [] kind = "purge" -> "pvc" [] OTHER -> "shutdown"

Dispatch(h) ==
  /\ calls[h].op = "idle" /\ events # <<>>
  /\ LET e == Head(events) IN
       calls' = [calls EXCEPT ![h] =
         [op |-> FirstOp(e.kind), kind |-> e.kind, run |-> e.run,
          sess |-> e.sess, w |-> None]]
  /\ events' = Tail(events)
  \* Only the newest event can hold the current version.
  /\ fresh' = IF "queue" \in fresh /\ Len(events) = 1
              THEN (fresh \ {"queue"}) \cup {h} ELSE fresh
  /\ UNCHANGED <<ws, supervision, periodic, k8s, sessions, budget>>

\* startWorkspace: setPersistentVolumeClaim keeps a claim that exists already.
SetPVC(h) ==
  /\ calls[h].op = "setPVC"
  /\ \/ /\ NoFault /\ GotoOp(h, "setWatcher")
        /\ pvc' = IF pvc.run = 0 THEN [NoPVC EXCEPT !.run = calls[h].run] ELSE pvc
     \/ Fault /\ Return(h) /\ pvc' = pvc
  /\ UNCHANGED <<store, supervision, periodic, pod, sessions>>

\* setWatcher registers a watcher when watcherMap has none.  (Variant: no check.)
MayRegisterAlways == TRUE
MayRegister == registered = None

\* startWorkspace: the mounts resolve; setWatcher registers a watcher unless the
\* Workspace has one.
SetWatcher(h) ==
  /\ calls[h].op = "setWatcher"
  /\ IF ~MayRegister
     THEN Return(h) /\ UNCHANGED supervision
     ELSE \E w \in Watchers :
            /\ watchers[w].phase = "free"
            /\ watchers' = [watchers EXCEPT ![w] = NewWatcher(calls[h], "new")]
            /\ registered' = w
            /\ calls' = [calls EXCEPT ![h].op = "doOnAdd", ![h].w = w]
            /\ UNCHANGED threads
  /\ UNCHANGED <<store, periodic, k8s, sessions, budget>>

\* startWorkspace: resolveVolumeMounts fails, with a VolumeMountError (a mount that
\* cannot be had: setWorkspaceStartFailure on the Workspace as it is now) or another.
ResolveFails(h) ==
  /\ calls[h].op = "setWatcher"
  /\ \/ /\ ws.exists /\ NoFault
        /\ Put(Stamped(Cleared(ws)))
        /\ calls' = [calls EXCEPT ![h].op = "failSession", ![h].sess = ws.session]
     \/ /\ IF ws.exists THEN Fault ELSE NoFault
        /\ Return(h) /\ UNCHANGED store
  /\ UNCHANGED <<supervision, periodic, k8s, sessions>>

\* setWorkspaceStartFailure: DeleteSession.
FailSession(h) ==
  /\ calls[h].op = "failSession"
  /\ \/ sessions' = sessions \ {calls[h].sess} /\ NoFault
     \/ Fault /\ UNCHANGED sessions
  /\ Return(h)
  /\ UNCHANGED <<store, supervision, periodic, k8s>>

\* startWorkspace: doOnAdd creates the Deployment, then the watcher runs.  The
\* owner of an old Deployment is deleted first; while the old Deployment is
\* there, the new one cannot be created.
DoOnAdd(h) ==
  /\ calls[h].op = "doOnAdd" /\ pod.st = "GONE"
  /\ pod' = [NoPod EXCEPT !.run = calls[h].run, !.st = "PENDING", !.owned = TRUE]
  /\ watchers' = [watchers EXCEPT ![calls[h].w].phase = "live"]
  /\ threads' = [threads EXCEPT ![calls[h].w]["sup"] = At("wait", "status", "STOPPED")]
  /\ Return(h)
  /\ UNCHANGED <<store, registered, periodic, pvc, sessions, budget>>

\* doOnAdd fails: the watcher is detached and the state stays as it is.
DoOnAddFails(h) ==
  /\ calls[h].op = "doOnAdd"
  /\ IF pod.st = "GONE" THEN Fault ELSE NoFault
  /\ DeleteOwner
  /\ registered' = None
  /\ watchers' = [watchers EXCEPT ![calls[h].w] = FreeWatcher]
  /\ Return(h)
  /\ UNCHANGED <<store, threads, periodic, pvc, sessions>>

(***************************************************************************)
(* stopWorkspace, called by OnUpdate ("stop"), OnDelete ("delete") or a    *)
(* closing watcher ("close").                                              *)
(***************************************************************************)
\* What follows the call of Shutdown and the writes after its failure.
AfterStop(c) == IF Ephemeral \/ calls[c].kind = "delete"
                THEN GotoOp(c, "pvc") ELSE Return(c)

\* stopWorkspace returned an error, or nil because the Workspace is deleted.
AbortStop(c) == IF calls[c].kind = "delete" THEN GotoOp(c, "pvc") ELSE Return(c)

\* The Shutdown call failed.  (Variant: stopWorkspace returns the error.)
ShutdownErrReturns(c) == Return(c)
ShutdownErr(c) == GotoOp(c, "delK8s")

Shutdown(c) ==
  /\ calls[c].op = "shutdown"
  /\ \/ /\ Serving /\ NoFault
        /\ pod' = [pod EXCEPT !.stop = TRUE]
        /\ AfterStop(c)
     \/ /\ IF Serving THEN Fault ELSE NoFault
        /\ ShutdownErr(c) /\ pod' = pod
  /\ UNCHANGED <<store, supervision, periodic, pvc, sessions>>

\* A failure of doOnDeleteK8s is only logged.
StopDelK8s(c) ==
  /\ calls[c].op = "delK8s"
  /\ GotoOp(c, "update")
  /\ \/ DeleteOwner /\ NoFault
     \/ Fault /\ pod' = pod
  /\ UNCHANGED <<store, supervision, periodic, pvc, sessions>>

\* Whether the store takes an Update of the caller's copy.  (Variant: versions
\* are not compared.)
UpdateUnversioned(c) == ws.exists
UpdateAccepted(c) == ws.exists /\ c \in fresh

\* The registered watcher, whoever it is by now, gets a forceOnStop goroutine
\* (at most one at a time is modelled).
SpawnForce ==
  threads' =
    IF registered # None /\ threads[registered]["force"] = Off
    THEN [threads EXCEPT ![registered]["force"] = At("update", "force", "STOPPED")]
    ELSE threads

StopUpdate(c) ==
  /\ calls[c].op = "update"
  /\ \/ /\ UpdateAccepted(c) /\ NoFault
        /\ Put(Cleared(ws))
        /\ SpawnForce
        /\ AfterStop(c)
     \/ /\ IF UpdateAccepted(c) THEN Fault ELSE NoFault
        /\ AbortStop(c)
        /\ UNCHANGED <<store, threads>>
  /\ UNCHANGED <<registered, watchers, periodic, k8s, sessions>>

\* removePersistentClaim; its failure is only logged.
StopPVC(c) ==
  /\ calls[c].op = "pvc"
  /\ \/ RemoveClaim /\ NoFault
     \/ Fault /\ pvc' = pvc
  /\ Return(c)
  /\ UNCHANGED <<store, supervision, periodic, pod, sessions>>

-----------------------------------------------------------------------------
(***************************************************************************)
(* controllers/workspaces/watcher.go: the statusWatcher's goroutines.      *)
(***************************************************************************)
Goto(w, t, pc) == threads' = [threads EXCEPT ![w][t].pc = pc]
Set(w, t, th) == threads' = [threads EXCEPT ![w][t] = th]

\* The goroutine returns.  A watcher that nothing refers to any more is freed.
Exit(w, t) ==
  LET rest == [threads[w] EXCEPT ![t] = Off] IN
  /\ threads' = [threads EXCEPT ![w] = rest]
  /\ watchers' = IF watchers[w].phase = "gone" /\ rest = AllOff
                 THEN [watchers EXCEPT ![w] = FreeWatcher] ELSE watchers

others == <<periodic, pvc, calls>>

\* waitUntilWorkspaceSupInitialized, then go startHealthCheckLoop.
WaitReady(w) ==
  /\ threads[w]["sup"].pc = "wait" /\ Serving
  /\ watchers' = [watchers EXCEPT ![w].connected = TRUE]
  /\ threads' = [threads EXCEPT ![w]["sup"].pc = "recv",
                                ![w]["health"].pc = "watch"]
  /\ UNCHANGED <<store, registered, others, pod, sessions, budget>>

WaitTimeout(w) ==
  /\ threads[w]["sup"].pc = "wait"
  /\ IF Serving THEN Fault ELSE NoFault
  /\ watchers' = [watchers EXCEPT ![w].healthCheckErr = TRUE]
  /\ Goto(w, "sup", "close")
  /\ UNCHANGED <<store, registered, others, pod, sessions>>

\* The ListenState call: the supervisor sends its status at once, then each change.
ListenState(w) ==
  /\ threads[w]["sup"].pc = "recv" /\ ~watchers[w].isClosed
  /\ ~watchers[w].subscribed /\ watchers[w].chan = <<>> /\ Serving
  /\ watchers' = [watchers EXCEPT ![w].subscribed = TRUE, ![w].chan = <<pod.st>>]
  /\ UNCHANGED <<store, registered, threads, others, pod, sessions, budget>>

\* The stream breaks.  startRunLoop opens another, unless the error is Canceled:
\* then startSupervise closes the watcher.
StreamBreaks(w) ==
  /\ threads[w]["sup"].pc = "recv" /\ ~watchers[w].isClosed
  /\ watchers[w].subscribed /\ Fault
  /\ watchers' = [watchers EXCEPT ![w].subscribed = FALSE, ![w].chan = <<>>]
  /\ \/ UNCHANGED threads
     \/ Goto(w, "sup", "close")
  /\ UNCHANGED <<store, registered, others, pod, sessions>>

\* handleStatus up to its first call.
HandleStatus(w) ==
  /\ threads[w]["sup"].pc = "recv" /\ ~watchers[w].isClosed
  /\ watchers[w].chan # <<>>
  /\ LET st == Head(watchers[w].chan)
         read == [watchers EXCEPT ![w].chan = Tail(@)]
     IN \/ /\ st = "INITIALIZING"
           /\ watchers' = [read EXCEPT ![w].didOnInit = TRUE]
           /\ Set(w, "sup", At(IF watchers[w].didOnInit THEN "update" ELSE "init",
                               "status", st))
        \/ /\ st = "STOPPING"
           /\ watchers' = [read EXCEPT ![w].didOnStopping = TRUE]
           /\ threads' = [threads EXCEPT
                ![w]["sup"] = At("update", "status", st),
                ![w]["clean"] = IF watchers[w].didOnStopping THEN @
                                ELSE At("timer", "force", "STOPPED")]
        \/ /\ st = "STOPPED"
           /\ watchers' = read
           /\ Set(w, "sup", At("onStopped", "handle", st))
        \/ /\ st = "RUNNING"
           /\ watchers' = read
           /\ Set(w, "sup", At("update", "status", st))
  /\ UNCHANGED <<store, registered, others, pod, sessions, budget>>

\* onReadyInit reads the Workspace and the Session that it names now.
CanInitialize == ws.exists /\ (ws.session # 0 => ws.session \in sessions)

\* onReadyInit: the Initialize RPC is retried until it is taken or given up;
\* on an error handleStatus returns without updating the state.
OnReadyInit(w) ==
  /\ threads[w]["sup"].pc = "init"
  /\ \/ /\ CanInitialize /\ Serving /\ NoFault
        /\ pod' = [pod EXCEPT !.init = TRUE]
        /\ Goto(w, "sup", "update")
     \/ /\ IF CanInitialize /\ Serving THEN Fault ELSE NoFault
        /\ Goto(w, "sup", "recv") /\ pod' = pod
  /\ UNCHANGED <<store, registered, watchers, others, sessions>>

\* doUpdateStatus: what is written when the state is another one.
NewStatus(st) == Stamped(IF st = "STOPPED" THEN Cleared(ws) ELSE [ws EXCEPT !.state = st])

\* What follows doUpdateStatus, whether it succeeded or not.
AfterUpdate(path) ==
  CASE path = "status" -> "recv" [] path = "handle" -> "close" [] OTHER -> "onStopped"

DoUpdateStatus(w, t) ==
  /\ threads[w][t].pc = "update"
  /\ LET st == threads[w][t].st IN
       \/ /\ NoFault
          /\ IF ws.exists /\ ws.state # st THEN Put(NewStatus(st)) ELSE UNCHANGED store
       \/ Fault /\ UNCHANGED store
  /\ Goto(w, t, AfterUpdate(threads[w][t].path))
  /\ UNCHANGED <<registered, watchers, others, pod, sessions>>

\* What follows onStopped, when it returns nil and when it returns an error.
AfterOnStopped(path) ==
  CASE path = "handle" -> "update" [] path = "force" -> "close" [] OTHER -> "finish"
FailOnStopped(path) == IF path = "closing" THEN "finish" ELSE "close"

\* getSessionRef: the Session of the watcher's own copy of the Workspace, or the
\* current one when that copy has none.  (Variant: always the current one.)
GetSessionRefNow(w) == IF ws.exists THEN ws.session ELSE 0

GetSessionRef(w) ==
  IF watchers[w].sess # 0 THEN watchers[w].sess
  ELSE IF ws.exists THEN ws.session ELSE 0

\* Without a supervisor client, onStopped dereferences a nil pointer.
Panics(w) ==
  ~watchers[w].didOnStopped /\ ~watchers[w].healthCheckErr /\ ~watchers[w].connected

\* onStopped up to DeleteSession.  Errors of GetFailure and ShutdownAck are only
\* logged.
OnStopped(w, t) ==
  /\ threads[w][t].pc = "onStopped" /\ ~Panics(w)
  /\ LET path == threads[w][t].path IN
       \/ /\ watchers[w].didOnStopped /\ NoFault
          /\ Goto(w, t, AfterOnStopped(path)) /\ UNCHANGED sessions
       \/ /\ ~watchers[w].didOnStopped /\ NoFault
          /\ sessions' = sessions \ {GetSessionRef(w)}
          /\ Goto(w, t, "delK8s")
       \/ /\ ~watchers[w].didOnStopped /\ Fault
          /\ Goto(w, t, FailOnStopped(path)) /\ UNCHANGED sessions
  /\ watchers' = [watchers EXCEPT ![w].didOnStopped = TRUE]
  /\ UNCHANGED <<store, registered, others, pod>>

\* onStopped from doOnDeleteK8s on.  The Failure is written when there is one to
\* set or to clear; an Update overtaken by another write is an error.
OnStoppedK8s(w, t) ==
  /\ threads[w][t].pc = "delK8s"
  /\ LET path == threads[w][t].path IN
       \/ /\ NoFault /\ DeleteOwner
          /\ UNCHANGED store \/ (ws.exists /\ Put(ws))
          /\ Goto(w, t, AfterOnStopped(path))
       \/ /\ Fault /\ UNCHANGED store
          /\ DeleteOwner \/ pod' = pod
          /\ Goto(w, t, FailOnStopped(path))
  /\ UNCHANGED <<registered, watchers, others, sessions>>

\* doClose: what it does before it cancels the watcher's context.
CloseDecision(w) ==
  LET r == watchers[w] IN
  IF r.healthCheckErr \/ (r.didOnStopping /\ ~r.didOnStopped) THEN "update"
  ELSE IF ~r.didOnStopping /\ ~r.didOnStopped THEN "stop"
  ELSE "finish"

\* doStopWorkspace: it reads the Workspace; stopWorkspace does the rest.
DoStopWorkspace(w, t) ==
  /\ threads[w][t].pc = "stop"
  /\ \/ /\ ws.exists /\ ws.state \notin Stopping \cup {"STOPPED"}
        /\ calls' = [calls EXCEPT ![w] = [NoCall EXCEPT
             !.op = "shutdown", !.kind = "close", !.run = ws.run, !.sess = ws.session]]
        /\ fresh' = fresh \cup {w}
        /\ NoFault
     \/ /\ IF ~ws.exists \/ ws.state \in Stopping \cup {"STOPPED"} THEN NoFault ELSE Fault
        /\ UNCHANGED <<calls, fresh>>
  /\ Goto(w, t, "finish")
  /\ UNCHANGED <<ws, events, registered, watchers, periodic, k8s, sessions>>

\* doClose: cancelFn and removeWatcher.  The goroutines that wait on the
\* watcher's context end; those inside forceOnStop go on.
\* (Variant: the context is not passed on to the supervising goroutine.)
EndedButSup(w, t, u) == u = t \/ threads[w][u].pc \in {"watch", "timer"}

Ended(w, t, u) ==
  u \in {t, "sup"} \/ threads[w][u].pc \in {"watch", "timer"}

\* (Variant: removeWatcher is not called.)
StillRegistered(w) == registered
Deregistered(w) == IF registered = w THEN None ELSE registered

RemoveWatcher(w, t) ==
  /\ LET rest == [u \in Threads |-> IF Ended(w, t, u) THEN Off ELSE threads[w][u]] IN
       /\ threads' = [threads EXCEPT ![w] = rest]
       /\ watchers' = [watchers EXCEPT ![w] =
            IF rest = AllOff THEN FreeWatcher
            ELSE [@ EXCEPT !.phase = "gone", !.isClosed = TRUE,
                           !.subscribed = FALSE, !.chan = <<>>]]
  /\ registered' = Deregistered(w)

\* (Variant: isClosed is not tested.)
NeverClosed(w) == FALSE
AlreadyClosed(w) == watchers[w].isClosed

DoClose(w, t) ==
  /\ threads[w][t].pc = "close"
  /\ \/ /\ AlreadyClosed(w)
        /\ Exit(w, t) /\ UNCHANGED registered
     \/ /\ ~AlreadyClosed(w) /\ CloseDecision(w) = "finish"
        /\ RemoveWatcher(w, t)
     \/ /\ ~AlreadyClosed(w) /\ CloseDecision(w) # "finish"
        /\ Set(w, t, At(CloseDecision(w), "closing", "STOPPED"))
        /\ watchers' = [watchers EXCEPT ![w].isClosed = TRUE]
        /\ UNCHANGED registered
  /\ UNCHANGED <<store, others, pod, sessions, budget>>

FinishClose(w, t) ==
  /\ threads[w][t].pc = "finish" /\ calls[w].op = "idle"
  /\ RemoveWatcher(w, t)
  /\ UNCHANGED <<store, others, pod, sessions, budget>>

\* startHealthCheckLoop: too many failed checks in a row.
HealthTimeout(w) ==
  /\ threads[w]["health"].pc = "watch"
  /\ ~watchers[w].didOnStopping /\ ~watchers[w].didOnStopped
  /\ IF Serving THEN Fault ELSE NoFault
  /\ watchers' = [watchers EXCEPT ![w].healthCheckErr = TRUE]
  /\ Goto(w, "health", "close")
  /\ UNCHANGED <<store, registered, others, pod, sessions>>

\* cleanupStaleStoppingState: 45 minutes after STOPPING was reported.  (A pod that
\* takes that long to stop is one of the faults.)
CleanupTimeout(w) ==
  /\ threads[w]["clean"].pc = "timer" /\ ~watchers[w].isClosed
  /\ IF pod.st \in {"STOPPING", "STOPPED"} THEN Fault ELSE NoFault
  /\ Goto(w, "clean", "update")
  /\ UNCHANGED <<store, registered, watchers, others, pod, sessions>>

-----------------------------------------------------------------------------
(***************************************************************************)
(* nocturne/watcher.go: handleWorkspaces, every 5 minutes.                 *)
(***************************************************************************)
\* doHandleStalledState: the state that a listed Workspace is to be put in.  A
\* RUNNING one whose state is old may be inactive (doHandleInactiveRunning) or not.
\* (Variant: a stale INIT_REQUEST is not handled.)
VerdictsNoInit(r) ==
  IF ~r.aged \/ r.state = "INIT_REQUEST" THEN {"none"}
  ELSE CASE r.state \in Stopping -> {"STOPPED"}
         [] r.state = "RUNNING" -> {"none", "STOPPING_REQUEST"}
         [] OTHER -> {"STOPPING_REQUEST"}

Verdicts(r) ==
  IF ~r.aged THEN {"none"}
  ELSE CASE r.state \in {"INIT_REQUEST"} \cup Stopping -> {"STOPPED"}
         [] r.state = "RUNNING" -> {"none", "STOPPING_REQUEST"}
         [] OTHER -> {"STOPPING_REQUEST"}

\* The list.  What is decided later depends on the listed copy only.
HandleWorkspaces ==
  /\ periodic.op = "idle"
  /\ ws.exists /\ ws.region /\ ws.state # "STOPPED"
  /\ \E v \in Verdicts(ws) :
       periodic' = [op |-> "resume", resumable |-> ws.state # "INIT_REQUEST",
                    verdict |-> v, run |-> ws.run, sess |-> ws.session]
  /\ IF BoundPasses
     THEN /\ budget.passes < MaxPasses
          /\ budget' = [budget EXCEPT !.passes = @ + 1]
     ELSE NoFault
  /\ UNCHANGED <<store, calls, supervision, k8s, sessions>>

\* doHandleStalledState has cases it does nothing in.  (Variant: it has none.)
AfterResumeAlways == [periodic EXCEPT !.op = "stall", !.resumable = FALSE]
AfterResume ==
  IF periodic.verdict = "none" THEN NoPass
  ELSE [periodic EXCEPT !.op = "stall", !.resumable = FALSE]

\* ResumeWorkspace for the listed copy.
ResumeWorkspace ==
  /\ periodic.op = "resume"
  /\ periodic' = AfterResume
  /\ IF ~periodic.resumable \/ ~MayRegister
     THEN UNCHANGED supervision
     ELSE \E w \in Watchers :
            /\ watchers[w].phase = "free"
            /\ watchers' = [watchers EXCEPT ![w] = NewWatcher(periodic, "live")]
            /\ threads' = [threads EXCEPT ![w]["sup"] = At("wait", "status", "STOPPED")]
            /\ registered' = w
  /\ UNCHANGED <<store, calls, k8s, sessions, budget>>

\* doSetState reads the Workspace again but checks nothing of what was listed.
DoSetState(state) ==
  IF ws.exists /\ ws.state # state
  THEN Room /\ Put(Stamped([ws EXCEPT !.state = state])) ELSE UNCHANGED store

DoHandleStalledState ==
  /\ periodic.op = "stall"
  /\ \/ /\ NoFault /\ DoSetState(periodic.verdict)
        /\ periodic' = IF ws.exists /\ periodic.verdict = "STOPPED"
                       THEN [periodic EXCEPT !.op = "cleanup"] ELSE NoPass
     \/ Fault /\ UNCHANGED store /\ periodic' = NoPass
  /\ UNCHANGED <<calls, supervision, k8s, sessions>>

\* doHandleStalledStateInitializingOrStopping after doSetState.
\* The Session to delete is the listed one's.
ListedSession == periodic.sess

StalledCleanup ==
  /\ periodic.op = "cleanup"
  /\ periodic' = NoPass
  /\ \/ NoFault /\ sessions' = sessions \ {ListedSession} /\ DeleteOwner
     \/ Fault /\ UNCHANGED sessions /\ pod' = pod
     \/ Fault /\ sessions' = sessions \ {ListedSession} /\ pod' = pod
  /\ UNCHANGED <<store, calls, supervision, pvc>>

-----------------------------------------------------------------------------
(***************************************************************************)
(* The pod.  The supervisor's statuses go to the streams that it has       *)
(* subscribed; a container that restarts breaks them.                      *)
(***************************************************************************)
nocturne == <<calls, registered, threads, periodic>>

\* The watchers that read their stream.  (A closed one ignores what it reads.)
Listening(w) == watchers[w].subscribed /\ ~watchers[w].isClosed

Report(st) ==
  /\ \A w \in Watchers : Listening(w) => Len(watchers[w].chan) < MaxReports
  /\ pod' = [pod EXCEPT !.st = st, !.init = @ /\ st = "RUNNING",
                        !.stop = @ /\ st = "RUNNING"]
  /\ watchers' = [w \in Watchers |->
       IF Listening(w)
       THEN [watchers[w] EXCEPT !.chan = Append(@, st)] ELSE watchers[w]]
  /\ UNCHANGED <<store, nocturne, pvc, sessions, budget>>

BreakLinks == watchers' = [w \in Watchers |-> [watchers[w] EXCEPT !.subscribed = FALSE]]

\* The claim is bound, the container starts.
PodServe == pod.st = "PENDING" /\ pod.owned /\ pvc.run # 0 /\ Report("INITIALIZING")
PodRun == pod.st = "INITIALIZING" /\ pod.init /\ ~pod.stop /\ Report("RUNNING")

\* A Shutdown, a TERM signal, or the Workspace ends by itself once initialized.
PodStopping ==
  /\ pod.st \in {"INITIALIZING", "RUNNING"}
  /\ pod.stop \/ ~pod.owned \/ pod.init
  /\ Report("STOPPING")
PodStopped == pod.st = "STOPPING" /\ Report("STOPPED")

PodRestart ==
  /\ Serving /\ pod.owned /\ budget.restarts < MaxPodRestarts
  /\ budget' = [budget EXCEPT !.restarts = @ + 1]
  /\ pod' = [pod EXCEPT !.st = "PENDING", !.init = FALSE, !.stop = FALSE]
  /\ BreakLinks
  /\ UNCHANGED <<store, nocturne, pvc, sessions>>

\* Kubernetes has removed what the deleted owner owned.
PodGone ==
  /\ pod.st # "GONE" /\ ~pod.owned
  /\ pod' = NoPod
  /\ pvc' = IF pvc.terminating THEN NoPVC ELSE pvc
  /\ BreakLinks
  /\ UNCHANGED <<store, nocturne, sessions, budget>>

-----------------------------------------------------------------------------
(* Time and crashes. *)

\* CurrentStateSetAt is older than the limits of doHandleStalledState.
Age ==
  /\ ~ws.aged /\ ws.state # "STOPPED"
  /\ ws' = [ws EXCEPT !.aged = TRUE]
  /\ UNCHANGED <<fresh, events, calls, supervision, periodic, k8s, sessions, budget>>

\* Nocturne starts again with an empty watcherMap.  What its watch had not
\* delivered is lost.  (Its TERM handling detaches the watchers: the same.)
Restarted ==
  /\ events' = <<>> /\ fresh' = {}
  /\ calls' = [c \in Callers |-> NoCall]
  /\ registered' = None
  /\ watchers' = [w \in Watchers |-> FreeWatcher]
  /\ threads' = [w \in Watchers |-> AllOff]
  /\ periodic' = NoPass
  /\ UNCHANGED <<ws, k8s, sessions>>

NocturneCrash ==
  /\ budget.crashes < MaxCrashes
  /\ budget' = [budget EXCEPT !.crashes = @ + 1]
  /\ Restarted

OnStoppedPanics(w, t) ==
  /\ threads[w][t].pc = "onStopped" /\ Panics(w)
  /\ Restarted /\ NoFault

-----------------------------------------------------------------------------
User == StartWorkspace \/ StopWorkspace \/ DeleteWorkspace \/ OtherWrite

StartSteps(h) ==
  \/ SetPVC(h) \/ SetWatcher(h) \/ ResolveFails(h) \/ FailSession(h)
  \/ DoOnAdd(h) \/ DoOnAddFails(h)

StopSteps(c) == Shutdown(c) \/ StopDelK8s(c) \/ StopUpdate(c) \/ StopPVC(c)

ThreadSteps(w, t) ==
  \/ DoUpdateStatus(w, t) \/ OnStopped(w, t) \/ OnStoppedPanics(w, t)
  \/ OnStoppedK8s(w, t) \/ DoClose(w, t) \/ DoStopWorkspace(w, t) \/ FinishClose(w, t)

\* The supervising goroutine up to handleStatus, without the stream's failures.
Supervise(w) ==
  WaitReady(w) \/ WaitTimeout(w) \/ ListenState(w)
    \/ HandleStatus(w) \/ OnReadyInit(w)

Periodic == HandleWorkspaces \/ ResumeWorkspace \/ DoHandleStalledState
              \/ StalledCleanup

Pod == PodServe \/ PodRun \/ PodStopping \/ PodStopped
         \/ PodRestart \/ PodGone

Next ==
  \/ User
  \/ \E h \in Handlers : Dispatch(h) \/ StartSteps(h)
  \/ \E c \in Callers : StopSteps(c)
  \/ \E w \in Watchers :
       \/ Supervise(w) \/ StreamBreaks(w) \/ HealthTimeout(w) \/ CleanupTimeout(w)
       \/ \E t \in Threads : ThreadSteps(w, t)
  \/ Periodic
  \/ Pod
  \/ Age \/ NocturneCrash

Spec == Init /\ [][Next]_vars

(***************************************************************************)
(* Fairness.  The goroutines of Nocturne go on, its timers fire, time      *)
(* passes and Kubernetes and the supervisor do what they were told.  Each  *)
(* conjunct is about a kind of goroutine, which is weaker than one         *)
(* conjunct for each.  Users, faults and crashes are not fair, nor is a    *)
(* Workspace that ends by itself or becomes RUNNING.                       *)
(***************************************************************************)
PodObeys ==
  PodServe \/ (PodStopping /\ (pod.stop \/ ~pod.owned)) \/ PodStopped \/ PodGone

Fairness ==
  /\ WF_vars(\E h \in Handlers : Dispatch(h) \/ StartSteps(h))
  /\ WF_vars(\E c \in Callers : StopSteps(c))
  /\ WF_vars(\E w \in Watchers : Supervise(w) \/ \E t \in Threads : ThreadSteps(w, t))
  /\ WF_vars(\E w \in Watchers : HealthTimeout(w) \/ CleanupTimeout(w))
  /\ WF_vars(Periodic)
  /\ WF_vars(Age)
  /\ WF_vars(PodObeys)

FairSpec == Spec /\ Fairness

-----------------------------------------------------------------------------
WorkspaceRecords ==
  [exists : BOOLEAN, state : States, region : BOOLEAN,
   session : Nat, run : Nat, aged : BOOLEAN]
EventRecords == [kind : {"start", "stop", "delete", "purge"}, run : Nat, sess : Nat]
CallRecords ==
  [op : {"idle", "setPVC", "setWatcher", "failSession", "doOnAdd",
         "shutdown", "delK8s", "update", "pvc"},
   kind : {"start", "stop", "delete", "purge", "close"},
   run : Nat, sess : Nat, w : Watchers \cup {None}]
WatcherRecords ==
  [phase : {"free", "new", "live", "gone"}, run : Nat, sess : Nat,
   connected : BOOLEAN, subscribed : BOOLEAN, chan : Seq(Reports),
   didOnInit : BOOLEAN, didOnStopping : BOOLEAN, didOnStopped : BOOLEAN,
   healthCheckErr : BOOLEAN, isClosed : BOOLEAN]
ThreadRecords == [pc : PCs, path : Paths, st : Reports]
PassRecords ==
  [op : {"idle", "resume", "stall", "cleanup"}, resumable : BOOLEAN,
   verdict : {"none", "STOPPED", "STOPPING_REQUEST"}, run : Nat, sess : Nat]
PodRecords ==
  [run : Nat, st : Reports \cup {"GONE", "PENDING"}, owned : BOOLEAN,
   init : BOOLEAN, stop : BOOLEAN]

\* The type invariant.  A pass that is to set a state has one to set.
TypeOK ==
  /\ ws \in WorkspaceRecords
  /\ fresh \subseteq Callers \cup {"queue"}
  /\ events \in Seq(EventRecords)
  /\ calls \in [Callers -> CallRecords]
  /\ registered \in Watchers \cup {None}
  /\ watchers \in [Watchers -> WatcherRecords]
  /\ threads \in [Watchers -> [Threads -> ThreadRecords]]
  /\ periodic \in PassRecords
  /\ periodic.op = "stall" => periodic.verdict # "none"
  /\ pod \in PodRecords
  /\ pvc \in [run : Nat, terminating : BOOLEAN]
  /\ sessions \subseteq Nat
  /\ budget \in [stops : Nat, passes : Nat, crashes : Nat, restarts : Nat, faults : Nat]

-----------------------------------------------------------------------------
(* Safety. *)

\* At most one statusWatcher supervises the Workspace: setWatcher never replaces
\* a watcher that has not been removed from watcherMap, whether the event handler
\* or the periodic pass calls it, and whatever copy of the Workspace it has.
OneWatcher ==
  \A w \in Watchers : watchers[w].phase \in {"new", "live"} => registered = w

\* doClose runs once for a watcher, whichever of its four goroutines closes it:
\* a second run would call wg.Done twice, which panics, and would undo a
\* registration made in between.
CloseOnce ==
  \A w \in Watchers : \A t, u \in Threads :
    threads[w][t].path = "closing" /\ threads[w][u].path = "closing"
      /\ threads[w][t].pc # "off" /\ threads[w][u].pc # "off" => t = u

\* A status other than STOPPED is only written for the registered watcher: once a
\* watcher is removed from watcherMap, a report that its stream delivered late
\* cannot overwrite the state that its successor reports.
OnlyRegisteredReports ==
  \A w \in Watchers : \A t \in Threads :
    threads[w][t].pc \in {"init", "update"} /\ threads[w][t].st # "STOPPED"
      => registered = w

\* Why: who may touch a watcher in each phase of its life.  It is registered from
\* setWatcher to removeWatcher; nothing runs before watcher.run(); what may outlive
\* removeWatcher is a goroutine inside forceOnStop, never the supervising one; the
\* goroutine that closes it is the only one, and the watcher stays registered while
\* the stopWorkspace that this goroutine calls goes on.
RegisteredLives ==
  /\ registered # None => watchers[registered].phase \in {"new", "live"}
  /\ \A h \in Handlers : calls[h].op = "doOnAdd"
       => calls[h].w \in Watchers /\ watchers[calls[h].w].phase = "new"
  /\ \A w \in Watchers : watchers[w].phase = "new"
       => \E h \in Handlers : calls[h].op = "doOnAdd"

ThreadsFollowPhase ==
  \A w \in Watchers :
    /\ watchers[w].phase \in {"free", "new"} => threads[w] = AllOff
    /\ watchers[w].phase = "gone" => watchers[w].isClosed
    /\ threads[w]["sup"].pc # "off" => watchers[w].phase = "live"
    /\ threads[w]["sup"].pc = "wait" => threads[w]["health"] = Off
    /\ \A t \in Threads \ {"sup"} : threads[w][t].st = "STOPPED"

CloserHoldsWatcher ==
  \A w \in Watchers :
    /\ calls[w].op # "idle" => \E t \in Threads : threads[w][t].pc = "finish"
    /\ \A t \in Threads :
         /\ threads[w][t].path = "closing" /\ threads[w][t].pc # "off"
              => watchers[w].isClosed /\ watchers[w].phase = "live"
         /\ threads[w][t].pc \in {"stop", "finish"} => threads[w][t].path = "closing"
         /\ threads[w][t].pc \in {"onStopped", "delK8s"} => threads[w][t].path # "status"

SupervisionInv ==
  OneWatcher /\ CloseOnce /\ RegisteredLives /\ ThreadsFollowPhase /\ CloserHoldsWatcher

\* While a start is pending, only a watcher of that same run deletes its Session:
\* a goroutine that a previous run left behind, a start that failed, or a pass over
\* stalled Workspaces that listed an older run, does not.
PendingStartKeepsSession ==
  [][ \A r \in sessions \ sessions' :
        ws.exists /\ ws.state = "INIT_REQUEST" /\ r = ws.session
        => \E w \in Watchers : watchers[w].run = r ]_vars

\* A stopWorkspace that worked on an old copy of the Workspace (its Shutdown call
\* may have been retried for a minute) does not mark a later run STOPPED.
StaleCopyStopsNothing ==
  [][ \A c \in Callers :
        calls[c].op = "update" /\ calls'[c].op # "update" /\ ws'.state # ws.state
        => calls[c].run = ws.run ]_vars

\* Why: whoever holds the current version of the Workspace works on the current run.
CopiesAreCurrent ==
  /\ "queue" \in fresh => events # <<>> /\ events[Len(events)].run = ws.run
  /\ \A h \in Handlers \cap fresh : events = <<>>
  /\ \A c \in Callers \cap fresh : calls[c].op # "idle" => calls[c].run = ws.run

\* Why: a copy of the Workspace names the Session of its own run, and a copy whose
\* Session is about to be deleted belongs to a start that is not pending any more.
NotPending(sess) == sess <= ws.run /\ (sess = ws.run => ws.state # "INIT_REQUEST")

StoreSessions ==
  /\ ws.session \in {0, ws.run} /\ (ws.region => ws.session # 0)
  /\ \A i \in 1..Len(events) : events[i].kind = "start"
       => events[i].sess = events[i].run /\ events[i].run # 0

CallSessions ==
  \A h \in Handlers :
    /\ calls[h].op \in {"setPVC", "setWatcher"}
         => calls[h].sess = calls[h].run /\ calls[h].run # 0
    /\ calls[h].op = "failSession" => NotPending(calls[h].sess)

PassSession ==
  /\ periodic.op # "idle"
       => periodic.sess = periodic.run /\ periodic.run # 0 /\ periodic.run <= ws.run
  /\ periodic.op = "cleanup" => NotPending(periodic.sess)

WatcherSessions ==
  \A w \in Watchers : watchers[w].phase # "free"
    => watchers[w].sess = watchers[w].run /\ watchers[w].run # 0

SessionsOfRuns ==
  0 \notin sessions /\ StoreSessions /\ CallSessions /\ PassSession /\ WatcherSessions

-----------------------------------------------------------------------------
(* Liveness. *)

\* A watcher that closes is removed from watcherMap, so that a later start can
\* register another: forceOnStop and stopWorkspace, which doClose calls in between,
\* wait for nothing.
ClosingEnds == \A w \in Watchers : watchers[w].isClosed /\ registered = w ~> registered # w
=============================================================================
