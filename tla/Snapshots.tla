----------------------------- MODULE Snapshots ------------------------------
(***************************************************************************)
(* The WorkspaceSnapshots of one Workspace: the requests of the API server *)
(* that create, delete and restore them, Nocturne's reconciliation, which  *)
(* runs in the handlers of the watch and in the storage loop at the same   *)
(* time, and the VolumeSnapshots of Kubernetes, whose cut comes later than *)
(* their creation.                                                         *)
(*                                                                         *)
(* A reconciliation works on a copy of the record and writes it under the  *)
(* version of that copy: "fresh" says that nobody has written since.  Any  *)
(* of its calls may fail, which leaves the record to the storage loop.     *)
(***************************************************************************)
EXTENDS Naturals, FiniteSets

CONSTANTS
  Snaps,        \* names of snapshots, each used once
  Callers,      \* requests at the same time
  Reconcilers,  \* reconciliations at the same time; the storage loop is one
  Loop,
  MaxStarts,    \* bound: starts of the source Workspace
  MaxCrash      \* bound: crashes of Nocturne that are not its own panic

ASSUME SnapshotAssumption ==
  /\ Loop \in Reconcilers /\ Snaps \cap {"none", "ws"} = {} /\ IsFiniteSet(Callers)
  /\ MaxStarts \in Nat /\ MaxCrash \in Nat

VARIABLES
  ws,       \* the source Workspace: state and persistent storage
  rec,      \* the WorkspaceSnapshot records
  vs,       \* the VolumeSnapshots
  clone,    \* a Workspace that is restored from a snapshot
  call,     \* the requests in the API server
  job,      \* the reconciliations
  up,       \* Nocturne runs
  events,   \* deletions that Nocturne has still to handle
  aged,     \* snapshots older than snapshotCreationTimeout
  starts, crashes

vars == <<ws, rec, vs, clone, call, job, up, events, aged, starts, crashes>>
nocturne == <<job, up, events>>

None == "none"
NoRec == [st |-> None, cons |-> None, vs |-> None]
NoCall == [pc |-> "idle", s |-> None, cons |-> None]
NoJob == [pc |-> "idle", s |-> None, cons |-> None, vs |-> None, fresh |-> FALSE]

\* The Workspace has run once and is STOPPED.
Init ==
  /\ ws = [st |-> "STOPPED", pvc |-> TRUE]
  /\ rec = [s \in Snaps |-> NoRec]
  /\ vs = [s \in Snaps |-> None]
  /\ clone = [ref |-> None, ran |-> FALSE]
  /\ call = [c \in Callers |-> NoCall]
  /\ job = [t \in Reconcilers |-> NoJob]
  /\ up = TRUE
  /\ events = {}
  /\ aged = {}
  /\ starts = 0 /\ crashes = 0

Exists(s) == rec[s].st \in {"CREATING", "READY", "FAILED"}
Creating(s) == rec[s].st = "CREATING"

-----------------------------------------------------------------------------
(* The API server. *)

Consistency == IF ws.st = "STOPPED" THEN "CLEAN" ELSE "CRASH"

\* CreateWorkspaceSnapshot refuses while one is being taken.
MayCreate == \A s \in Snaps : ~Creating(s)

CreateWorkspaceSnapshot(c, s) ==
  /\ call[c] = NoCall /\ rec[s].st = None /\ ws.st # "gone"
  /\ MayCreate
  /\ call' = [call EXCEPT ![c] = [pc |-> "create", s |-> s, cons |-> Consistency]]
  /\ UNCHANGED <<ws, rec, vs, clone, nocturne, aged, starts, crashes>>

CreateDo(c, s) ==
  /\ call[c].pc = "create" /\ call[c].s = s
  /\ rec' = IF rec[s].st = None
            THEN [rec EXCEPT ![s] = [st |-> "CREATING", cons |-> call[c].cons, vs |-> None]]
            ELSE rec
  /\ call' = [call EXCEPT ![c] = NoCall]
  /\ UNCHANGED <<ws, vs, clone, nocturne, aged, starts, crashes>>

\* workspaceRestoresFromSnapshot: it has not run yet.  (Variant: never.)
RestoresFromNothing(s) == FALSE
RestoresFrom(s) == clone.ref = s /\ ~clone.ran

DeleteWorkspaceSnapshot(c, s) ==
  /\ call[c] = NoCall /\ Exists(s) /\ ~RestoresFrom(s)
  /\ call' = [call EXCEPT ![c] = [NoCall EXCEPT !.pc = "delete", !.s = s]]
  /\ UNCHANGED <<ws, rec, vs, clone, nocturne, aged, starts, crashes>>

\* The deletion of a record reaches OnDeleteWorkspaceSnapshot while Nocturne runs.
DeleteDo(c, s) ==
  /\ call[c].pc = "delete" /\ call[c].s = s
  /\ rec' = [rec EXCEPT ![s] = [NoRec EXCEPT !.st = "gone"]]
  /\ events' = IF up /\ Exists(s) THEN events \cup {s} ELSE events
  /\ call' = [call EXCEPT ![c] = NoCall]
  /\ UNCHANGED <<ws, vs, clone, job, up, aged, starts, crashes>>

\* CreateWorkspace with a WorkspaceSnapshotRef: getWorkspaceSnapshotForRestore.
Restore(c, s) ==
  /\ call[c] = NoCall /\ clone.ref = None
  /\ rec[s].st = "READY"
  /\ call' = [call EXCEPT ![c] = [NoCall EXCEPT !.pc = "restore", !.s = s]]
  /\ UNCHANGED <<ws, rec, vs, clone, nocturne, aged, starts, crashes>>

RestoreDo(c, s) ==
  /\ call[c].pc = "restore" /\ call[c].s = s
  /\ clone' = IF clone.ref = None THEN [ref |-> s, ran |-> FALSE] ELSE clone
  /\ call' = [call EXCEPT ![c] = NoCall]
  /\ UNCHANGED <<ws, rec, vs, nocturne, aged, starts, crashes>>

\* The first successful run of the clone; getPVCDataSource wants both to be ready.
CloneRuns(s) ==
  /\ clone = [ref |-> s, ran |-> FALSE] /\ rec[s].st = "READY" /\ vs[s] = "ready"
  /\ clone' = [clone EXCEPT !.ran = TRUE]
  /\ UNCHANGED <<ws, rec, vs, call, nocturne, aged, starts, crashes>>

\* The source Workspace goes its way.
WorkspaceStart ==
  /\ ws.st = "STOPPED" /\ starts < MaxStarts
  /\ ws' = [ws EXCEPT !.st = "RUNNING"]
  /\ starts' = starts + 1
  /\ UNCHANGED <<rec, vs, clone, call, nocturne, aged, crashes>>

WorkspaceStop ==
  /\ ws.st = "RUNNING"
  /\ ws' = [ws EXCEPT !.st = "STOPPED"]
  /\ UNCHANGED <<rec, vs, clone, call, nocturne, aged, starts, crashes>>

\* DeleteWorkspace: its storage is removed by OnDelete, while Nocturne runs.
WorkspaceDelete ==
  /\ ws.st = "STOPPED"
  /\ ws' = [ws EXCEPT !.st = "gone"]
  /\ events' = IF up THEN events \cup {"ws"} ELSE events
  /\ UNCHANGED <<rec, vs, clone, call, job, up, aged, starts, crashes>>

-----------------------------------------------------------------------------
(* Nocturne: reconcileWorkspaceSnapshot. *)

\* A write of the record makes the other copies of it stale.
Stale(s) == [t \in Reconcilers |-> [job[t] EXCEPT !.fresh = @ /\ job[t].s # s]]

At(t, pc) == up /\ job[t].pc = pc

\* ReconcileWorkspaceSnapshots or a handler takes up a snapshot that is CREATING.
Take(t, s) ==
  /\ At(t, "idle") /\ Creating(s)
  /\ job' = [job EXCEPT ![t] = [pc |-> "get", s |-> s, cons |-> rec[s].cons, vs |-> None, fresh |-> TRUE]]
  /\ UNCHANGED <<ws, rec, vs, clone, call, up, events, aged, starts, crashes>>

\* The Get of the VolumeSnapshot.
GetVolumeSnapshot(t) ==
  /\ At(t, "get")
  /\ LET v == vs[job[t].s] IN
     job' = IF v # None THEN [job EXCEPT ![t].pc = "status", ![t].vs = v]
                           ELSE [job EXCEPT ![t].pc = "prepare"]
  /\ UNCHANGED <<ws, rec, vs, clone, call, up, events, aged, starts, crashes>>

\* doCreateWorkspaceSnapshot: a CLEAN snapshot of a Workspace that is not stopped is
\* downgraded in the copy.
Downgraded(cons) == IF ws.st = "RUNNING" THEN "CRASH" ELSE cons

\* doCreateWorkspaceSnapshot: getWorkspaceSnapshotSources gives nil on any error of
\* GetWorkspace.  IsStopped dereferences it, and nothing recovers.
Panics(t) == ws.pvc /\ job[t].cons = "CLEAN"

Prepare(t) ==
  /\ At(t, "prepare") /\ (Panics(t) => ws.st # "gone")
  /\ job' = IF ws.pvc THEN [job EXCEPT ![t].pc = "cut", ![t].cons = Downgraded(@)]
                      ELSE [job EXCEPT ![t].pc = "fail"]
  /\ UNCHANGED <<ws, rec, vs, clone, call, up, events, aged, starts, crashes>>

Down ==
  /\ up' = FALSE
  /\ job' = [t \in Reconcilers |-> NoJob]
  /\ events' = {}

Panic(t) ==
  /\ At(t, "prepare") /\ Panics(t)
  /\ Down
  /\ UNCHANGED <<ws, rec, vs, clone, call, aged, starts, crashes>>

\* createVolumeSnapshot: one that exists is adopted.
Asked(s) == IF vs[s] # None THEN vs ELSE [vs EXCEPT ![s] = "asked"]

CreateVolumeSnapshot(t) ==
  /\ At(t, "cut")
  /\ LET s == job[t].s IN
     \/ /\ vs' = Asked(s)
        /\ job' = [job EXCEPT ![t].pc = "status", ![t].vs = vs'[s]]
     \/ /\ vs[s] = None          \* the Cluster does not support it
        /\ job' = [job EXCEPT ![t].pc = "fail"]
        /\ UNCHANGED vs
  /\ UNCHANGED <<ws, rec, clone, call, up, events, aged, starts, crashes>>

\* UpdateWorkspaceSnapshot under the version of the copy.  (Variant: whatever it is.)
MayWriteAlways(t) == Exists(job[t].s)
MayWrite(t) == Exists(job[t].s) /\ job[t].fresh

Writes(t, r) == MayWrite(t) /\ rec[job[t].s] # r

Written(t, r) ==
  IF Writes(t, r)
  THEN rec' = [rec EXCEPT ![job[t].s] = r] /\ job' = [Stale(job[t].s) EXCEPT ![t] = NoJob]
  ELSE job' = [job EXCEPT ![t] = NoJob] /\ UNCHANGED rec

\* The state that setWorkspaceSnapshotStatus gives.  (Variants: ready as soon as it is
\* cut; without the timeout.)
StateOfCut(v, s) == IF v \in {"cut", "ready"} THEN "READY" ELSE IF s \in aged THEN "FAILED" ELSE "CREATING"
StateNoTimeout(v, s) == IF v = "ready" THEN "READY" ELSE "CREATING"
StateOf(v, s) == IF v = "ready" THEN "READY" ELSE IF s \in aged THEN "FAILED" ELSE "CREATING"

Status(t) == [st |-> StateOf(job[t].vs, job[t].s), cons |-> job[t].cons, vs |-> job[t].vs]
Failure(t) == [st |-> "FAILED", cons |-> job[t].cons, vs |-> None]

SetStatus(t) ==
  /\ At(t, "status")
  /\ Written(t, Status(t))
  /\ UNCHANGED <<ws, vs, clone, call, up, events, aged, starts, crashes>>

SetFailure(t) ==
  /\ At(t, "fail")
  /\ Written(t, Failure(t))
  /\ UNCHANGED <<ws, vs, clone, call, up, events, aged, starts, crashes>>

\* A call of the reconciliation fails, or its answer is lost: the error is logged and the
\* record stays CREATING.
CallFails(t) ==
  /\ up
  /\ \/ job[t].pc \in {"get", "prepare", "cut"}
     \/ job[t].pc = "status" /\ Writes(t, Status(t))
     \/ job[t].pc = "fail" /\ Writes(t, Failure(t))
  /\ vs' = vs \/ (job[t].pc = "cut" /\ vs' = Asked(job[t].s))
  /\ job' = [job EXCEPT ![t] = NoJob]
  /\ UNCHANGED <<ws, rec, clone, call, up, events, aged, starts, crashes>>

\* OnDeleteWorkspaceSnapshot.  Nothing retries a Delete that fails.
OnDelete(s) ==
  /\ up /\ s \in events
  /\ events' = events \ {s}
  /\ vs' \in {vs, [vs EXCEPT ![s] = None]}
  /\ UNCHANGED <<ws, rec, clone, call, job, up, aged, starts, crashes>>

\* OnDelete of the Workspace: removePersistentClaim, which is not retried either.
OnDeleteWorkspace ==
  /\ up /\ "ws" \in events
  /\ events' = events \ {"ws"}
  /\ ws' \in {ws, [ws EXCEPT !.pvc = FALSE]}
  /\ UNCHANGED <<rec, vs, clone, call, job, up, aged, starts, crashes>>

Crash ==
  /\ up /\ crashes < MaxCrash
  /\ crashes' = crashes + 1
  /\ Down
  /\ UNCHANGED <<ws, rec, vs, clone, call, aged, starts>>

Restart ==
  /\ ~up
  /\ up' = TRUE
  /\ UNCHANGED <<ws, rec, vs, clone, call, job, events, aged, starts, crashes>>

-----------------------------------------------------------------------------
(* The storage backend and the clock. *)

Cut(s) ==
  /\ vs[s] = "asked" /\ ws.pvc
  /\ vs' = [vs EXCEPT ![s] = "cut"]
  /\ UNCHANGED <<ws, rec, clone, call, nocturne, aged, starts, crashes>>

ReadyToUse(s) ==
  /\ vs[s] = "cut"
  /\ vs' = [vs EXCEPT ![s] = "ready"]
  /\ UNCHANGED <<ws, rec, clone, call, nocturne, aged, starts, crashes>>

Age(s) ==
  /\ Creating(s) /\ s \notin aged
  /\ aged' = aged \cup {s}
  /\ UNCHANGED <<ws, rec, vs, clone, call, nocturne, starts, crashes>>

-----------------------------------------------------------------------------
Requests ==
  \/ \E c \in Callers, s \in Snaps :
       \/ CreateWorkspaceSnapshot(c, s) \/ CreateDo(c, s)
       \/ DeleteWorkspaceSnapshot(c, s) \/ DeleteDo(c, s)
       \/ Restore(c, s) \/ RestoreDo(c, s)
  \/ \E s \in Snaps : CloneRuns(s)
  \/ WorkspaceStart \/ WorkspaceStop \/ WorkspaceDelete

Reconcile(t) ==
  \/ \E s \in Snaps : Take(t, s)
  \/ GetVolumeSnapshot(t) \/ Prepare(t) \/ Panic(t) \/ CreateVolumeSnapshot(t)
  \/ SetStatus(t) \/ SetFailure(t) \/ CallFails(t)

Next ==
  \/ Requests
  \/ \E t \in Reconcilers : Reconcile(t)
  \/ OnDeleteWorkspace \/ Crash \/ Restart
  \/ \E s \in Snaps : OnDelete(s) \/ Cut(s) \/ ReadyToUse(s) \/ Age(s)

Spec == Init /\ [][Next]_vars

\* The storage loop has its ticker, each of its calls returns (with an error or not), and
\* panics when it must; Kubernetes restarts Nocturne, and time passes.
Fairness ==
  /\ \A s \in Snaps : SF_vars(Take(Loop, s)) /\ WF_vars(Age(s)) /\ WF_vars(OnDelete(s))
  /\ WF_vars(GetVolumeSnapshot(Loop)) /\ WF_vars(Prepare(Loop) \/ Panic(Loop))
  /\ WF_vars(CreateVolumeSnapshot(Loop)) /\ WF_vars(SetStatus(Loop)) /\ WF_vars(SetFailure(Loop))
  /\ WF_vars(OnDeleteWorkspace) /\ WF_vars(Restart)

FairSpec == Spec /\ Fairness

-----------------------------------------------------------------------------
Conss == {"CLEAN", "CRASH", None}
VSStates == {None, "asked", "cut", "ready"}

SnapRecords ==
  [st : {None, "CREATING", "READY", "FAILED", "gone"}, cons : Conss, vs : VSStates]
CallRecords ==
  [pc : {"idle", "create", "delete", "restore"}, s : Snaps \cup {None}, cons : Conss]
JobRecords ==
  [pc : {"idle", "get", "prepare", "cut", "status", "fail"}, s : Snaps \cup {None},
   cons : Conss, vs : VSStates, fresh : BOOLEAN]

\* The variables have their types.
TypeOK ==
  /\ ws \in [st : {"STOPPED", "RUNNING", "gone"}, pvc : BOOLEAN]
  /\ rec \in [Snaps -> SnapRecords] /\ vs \in [Snaps -> VSStates]
  /\ clone \in [ref : Snaps \cup {None}, ran : BOOLEAN]
  /\ call \in [Callers -> CallRecords] /\ job \in [Reconcilers -> JobRecords]
  /\ up \in BOOLEAN /\ events \subseteq Snaps \cup {"ws"} /\ aged \subseteq Snaps
  /\ starts \in 0..MaxStarts /\ crashes \in 0..MaxCrash

\* A snapshot that is READY has a VolumeSnapshot that is ready to use, whatever
\* reconciliations overlap: a restore from it finds its data (getPVCDataSource).
ReadyIsBacked == \A s \in Snaps : rec[s].st = "READY" => vs[s] = "ready"

\* What holds whatever reconciliations overlap.
SnapshotInv == TypeOK /\ ReadyIsBacked

\* READY and FAILED are final: no reconciliation with an old copy undoes them
\* (reconcileWorkspaceSnapshot, UpdateWorkspaceSnapshot).
FinalIsKept == [][\A s \in Snaps : rec[s].st \in {"READY", "FAILED"} =>
                    rec'[s] = rec[s] \/ rec'[s].st = "gone"]_vars

\* Why these hold: a copy that is fresh is of a record that is still CREATING, unless
\* it was deleted; a VolumeSnapshot that a copy saw ready stays until the record is
\* deleted, because it is removed only after that.
JobsTrue == \A t \in Reconcilers :
  /\ job[t].pc # "idle" => job[t].s \in Snaps
  /\ job[t].fresh => job[t].s \in Snaps /\ rec[job[t].s].st \in {"CREATING", "gone"}
  /\ job[t].vs = "ready" =>
       job[t].s \in Snaps /\ (rec[job[t].s].st = "gone" \/ vs[job[t].s] = "ready")

RemovedLast == \A s \in Snaps \cap events : rec[s].st = "gone"

SnapJobsInv == SnapshotInv /\ JobsTrue /\ RemovedLast

\* A snapshot does not stay CREATING: it becomes READY or fails, at the latest after
\* snapshotCreationTimeout, or it is deleted.  What keeps it CREATING for ever is a storage
\* loop whose calls fail again and again, for an error that is not 'unsupported' comes
\* back before the timeout is looked at (reconcileWorkspaceSnapshot), or a Nocturne that
\* panics again and again, which it does once the Workspace of a CLEAN one is deleted.
GoesOnFailing == []<><<CallFails(Loop) \/ \E t \in Reconcilers : Panic(t)>>_vars

SnapshotEnds == GoesOnFailing \/ \A s \in Snaps : Creating(s) ~> ~Creating(s)

\* One snapshot of a Workspace is taken at a time (CreateWorkspaceSnapshot).
OneCreating == \A s1, s2 \in Snaps : Creating(s1) /\ Creating(s2) => s1 = s2

\* The snapshot of a Workspace that has still to be restored from it exists
\* (DeleteWorkspaceSnapshot).
Restorable == \A s \in Snaps : clone = [ref |-> s, ran |-> FALSE] => rec[s].st = "READY"

\* What the requests check on a list holds when one request runs at a time
\* (CreateWorkspaceSnapshot, DeleteWorkspaceSnapshot).
SerialRequests == Cardinality(Callers) = 1 => OneCreating /\ Restorable

\* Why: nothing happens between the check of a request and what it does that would
\* make the check come out otherwise.
ChecksHold == \A c \in Callers :
  /\ call[c].pc # "idle" => call[c].s \in Snaps
  /\ call[c].pc = "create" => MayCreate
  /\ call[c].pc = "delete" => ~RestoresFrom(call[c].s)
  /\ call[c].pc = "restore" => rec[call[c].s].st = "READY"

SerialIInv ==
  SnapJobsInv /\ (Cardinality(Callers) = 1 => OneCreating /\ Restorable /\ ChecksHold)
=============================================================================
