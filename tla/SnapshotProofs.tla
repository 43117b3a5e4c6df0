--------------------------- MODULE SnapshotProofs ---------------------------
(***************************************************************************)
(* Snapshots: SnapJobsInv is inductive, for any number of snapshots, of    *)
(* requests and of reconciliations that overlap; a READY snapshot is       *)
(* backed by its VolumeSnapshot, and READY and FAILED are final.           *)
(***************************************************************************)
EXTENDS Snapshots, FiniteSetTheorems, TLAPS

LEMMA EmptyRecords == NoRec \in SnapRecords /\ NoCall \in CallRecords /\ NoJob \in JobRecords
  BY DEF NoRec, NoCall, NoJob, SnapRecords, CallRecords, JobRecords, Conss, VSStates

\* A stale copy is the same copy otherwise.
LEMMA StaleFacts ==
  ASSUME job \in [Reconcilers -> JobRecords], NEW s
  PROVE  /\ Stale(s) \in [Reconcilers -> JobRecords]
         /\ \A t \in Reconcilers :
              /\ Stale(s)[t].s = job[t].s /\ Stale(s)[t].vs = job[t].vs
              /\ Stale(s)[t].pc = job[t].pc
              /\ Stale(s)[t].fresh => job[t].fresh /\ job[t].s # s
  <1>1. ASSUME NEW q \in JobRecords, NEW b \in BOOLEAN
        PROVE  /\ [q EXCEPT !.fresh = b] \in JobRecords
               /\ [q EXCEPT !.fresh = b].s = q.s /\ [q EXCEPT !.fresh = b].vs = q.vs
               /\ [q EXCEPT !.fresh = b].pc = q.pc /\ ([q EXCEPT !.fresh = b].fresh => b)
    BY DEF JobRecords
  <1>2. ASSUME NEW t \in Reconcilers
        PROVE  /\ Stale(s)[t] \in JobRecords
               /\ Stale(s)[t].s = job[t].s /\ Stale(s)[t].vs = job[t].vs
               /\ Stale(s)[t].pc = job[t].pc
               /\ Stale(s)[t].fresh => job[t].fresh /\ job[t].s # s
    <2> DEFINE b == job[t].fresh /\ job[t].s # s
    <2>1. b \in BOOLEAN /\ job[t] \in JobRecords
      OBVIOUS
    <2>2. Stale(s)[t] = [job[t] EXCEPT !.fresh = b]
      BY DEF Stale
    <2>3. b => job[t].fresh /\ job[t].s # s
      OBVIOUS
    <2> HIDE DEF b
    <2>4. QED
      BY <1>1, <2>1, <2>2, <2>3
  <1>3. QED
    BY <1>2 DEF Stale

LEMMA InitJobs == Init => SnapJobsInv
  <1> SUFFICES ASSUME Init PROVE SnapJobsInv
    OBVIOUS
  <1>1. TypeOK
    <2>1. ws \in [st : {"STOPPED", "RUNNING", "gone"}, pvc : BOOLEAN]
      BY DEF Init
    <2>2. clone \in [ref : Snaps \cup {None}, ran : BOOLEAN]
      BY DEF Init
    <2>3. rec \in [Snaps -> SnapRecords] /\ vs \in [Snaps -> VSStates]
      BY EmptyRecords DEF Init, VSStates
    <2>4. call \in [Callers -> CallRecords] /\ job \in [Reconcilers -> JobRecords]
      BY EmptyRecords DEF Init
    <2>5. up \in BOOLEAN
      BY DEF Init
    <2>6. QED
      BY <2>1, <2>2, <2>3, <2>4, <2>5, SnapshotAssumption DEF Init, TypeOK
  <1>2. ReadyIsBacked
    BY DEF Init, ReadyIsBacked, NoRec, None
  <1>3. JobsTrue
    BY DEF Init, JobsTrue, NoJob, None
  <1>4. QED
    BY <1>1, <1>2, <1>3 DEF Init, SnapJobsInv, SnapshotInv, RemovedLast

\* A step that leaves the records, the VolumeSnapshots and the copies alone.
LEMMA QuietStep ==
  ASSUME SnapJobsInv, TypeOK', UNCHANGED <<rec, vs, job>>, events' \cap Snaps \subseteq events
  PROVE  SnapJobsInv'
  BY DEF SnapJobsInv, SnapshotInv, ReadyIsBacked, JobsTrue, RemovedLast

\* A request that only asks, or that makes the clone.
LEMMA AskKeeps ==
  ASSUME SnapJobsInv, NEW c \in Callers, NEW s \in Snaps,
         \/ CreateWorkspaceSnapshot(c, s) \/ DeleteWorkspaceSnapshot(c, s)
         \/ Restore(c, s) \/ RestoreDo(c, s)
  PROVE  SnapJobsInv'
  <1>1. TypeOK /\ UNCHANGED <<ws, rec, vs, nocturne, aged, starts, crashes>>
    BY DEF SnapJobsInv, SnapshotInv, CreateWorkspaceSnapshot, DeleteWorkspaceSnapshot, Restore, RestoreDo
  <1>2. PICK q \in CallRecords : call' = [call EXCEPT ![c] = q]
    <2>1. ASSUME NEW pc \in {"delete", "restore"}
          PROVE  [NoCall EXCEPT !.pc = pc, !.s = s] \in CallRecords
      BY EmptyRecords DEF CallRecords
    <2>2. [pc |-> "create", s |-> s, cons |-> Consistency] \in CallRecords
      BY DEF CallRecords, Consistency, Conss
    <2>3. QED
      BY <2>1, <2>2, EmptyRecords
         DEF CreateWorkspaceSnapshot, DeleteWorkspaceSnapshot, Restore, RestoreDo
  <1>3. clone' \in [ref : Snaps \cup {None}, ran : BOOLEAN]
    <2>1. [ref |-> s, ran |-> FALSE] \in [ref : Snaps \cup {None}, ran : BOOLEAN]
      OBVIOUS
    <2>2. clone' \in {clone, [ref |-> s, ran |-> FALSE]}
      BY DEF CreateWorkspaceSnapshot, DeleteWorkspaceSnapshot, Restore, RestoreDo
    <2>3. QED
      BY <1>1, <2>1, <2>2 DEF TypeOK
  <1>4. TypeOK'
    BY <1>1, <1>2, <1>3 DEF TypeOK, nocturne
  <1>5. QED
    BY <1>1, <1>4, QuietStep DEF nocturne

\* The Workspaces go their way.
LEMMA WorkspacesKeep ==
  ASSUME SnapJobsInv,
         \/ \E s \in Snaps : CloneRuns(s)
         \/ WorkspaceStart \/ WorkspaceStop \/ WorkspaceDelete \/ OnDeleteWorkspace
         \/ Restart \/ (\E s \in Snaps : Age(s))
  PROVE  SnapJobsInv'
  <1> DEFINE W == [st : {"STOPPED", "RUNNING", "gone"}, pvc : BOOLEAN]
             C == [ref : Snaps \cup {None}, ran : BOOLEAN]
  <1>1. TypeOK /\ UNCHANGED <<rec, vs, call, job, crashes>>
    BY DEF SnapJobsInv, SnapshotInv, CloneRuns, WorkspaceStart, WorkspaceStop, WorkspaceDelete,
       OnDeleteWorkspace, Restart, Age, nocturne
  <1>2. ws' \in W
    <2>1. \A st \in {"STOPPED", "RUNNING", "gone"} : [ws EXCEPT !.st = st] \in W
      BY <1>1 DEF TypeOK
    <2>2. [ws EXCEPT !.pvc = FALSE] \in W
      BY <1>1 DEF TypeOK
    <2>3. ws \in W
      BY <1>1 DEF TypeOK
    <2> HIDE DEF W
    <2>4. QED
      BY <2>1, <2>2, <2>3 DEF CloneRuns, WorkspaceStart, WorkspaceStop, WorkspaceDelete,
         OnDeleteWorkspace, Restart, Age
  <1>3. clone' \in C
    <2>1. clone \in C /\ [clone EXCEPT !.ran = TRUE] \in C
      BY <1>1 DEF TypeOK
    <2> HIDE DEF C
    <2>2. QED
      BY <2>1 DEF CloneRuns, WorkspaceStart, WorkspaceStop, WorkspaceDelete,
         OnDeleteWorkspace, Restart, Age
  <1>4. events' \subseteq events \cup {"ws"} /\ aged' \subseteq Snaps
    BY <1>1 DEF TypeOK, CloneRuns, WorkspaceStart, WorkspaceStop, WorkspaceDelete,
       OnDeleteWorkspace, Restart, Age, nocturne
  <1>5. starts' \in 0..MaxStarts
    BY <1>1, SnapshotAssumption DEF TypeOK, CloneRuns, WorkspaceStart, WorkspaceStop,
       WorkspaceDelete, OnDeleteWorkspace, Restart, Age
  <1>6. up' \in BOOLEAN
    BY <1>1 DEF TypeOK, CloneRuns, WorkspaceStart, WorkspaceStop, WorkspaceDelete,
       OnDeleteWorkspace, Restart, Age, nocturne
  <1>7. TypeOK'
    BY <1>1, <1>2, <1>3, <1>4, <1>5, <1>6 DEF TypeOK
  <1>8. events' \cap Snaps \subseteq events
    BY <1>4, SnapshotAssumption
  <1>9. QED
    BY <1>1, <1>7, <1>8, QuietStep

-----------------------------------------------------------------------------
(* The records are created and deleted. *)

\* No fresh copy is of a record that does not exist yet.
LEMMA CreateKeeps ==
  ASSUME SnapJobsInv, NEW c \in Callers, NEW s \in Snaps, CreateDo(c, s)
  PROVE  SnapJobsInv'
  <1> DEFINE r == [st |-> "CREATING", cons |-> call[c].cons, vs |-> None]
  <1>1. /\ TypeOK /\ UNCHANGED <<ws, vs, clone, nocturne, aged, starts, crashes>>
        /\ call' = [call EXCEPT ![c] = NoCall]
        /\ rec' = IF rec[s].st = None THEN [rec EXCEPT ![s] = r] ELSE rec
    BY DEF SnapJobsInv, SnapshotInv, CreateDo
  <1>2. r \in SnapRecords /\ r.st = "CREATING"
    BY <1>1 DEF TypeOK, CallRecords, SnapRecords, VSStates
  <1> HIDE DEF r
  <1>3. TypeOK'
    BY <1>1, <1>2, EmptyRecords DEF TypeOK, nocturne
  <1>4. \A x \in Snaps : rec'[x] = rec[x] \/ (rec[x].st = None /\ rec'[x].st = "CREATING")
    BY <1>1, <1>2 DEF TypeOK
  <1>5. ReadyIsBacked'
    BY <1>1, <1>4 DEF SnapJobsInv, SnapshotInv, ReadyIsBacked
  <1>6. JobsTrue'
    BY <1>1, <1>4 DEF SnapJobsInv, JobsTrue, nocturne, None
  <1>7. RemovedLast'
    BY <1>1, <1>4 DEF SnapJobsInv, RemovedLast, nocturne, None
  <1>8. QED
    BY <1>3, <1>5, <1>6, <1>7 DEF SnapJobsInv, SnapshotInv

LEMMA DeleteKeeps ==
  ASSUME SnapJobsInv, NEW c \in Callers, NEW s \in Snaps, DeleteDo(c, s)
  PROVE  SnapJobsInv'
  <1> DEFINE r == [NoRec EXCEPT !.st = "gone"]
  <1>1. /\ TypeOK /\ UNCHANGED <<ws, vs, clone, job, up, aged, starts, crashes>>
        /\ call' = [call EXCEPT ![c] = NoCall]
        /\ rec' = [rec EXCEPT ![s] = r]
        /\ events' \in {events, events \cup {s}}
    BY DEF SnapJobsInv, SnapshotInv, DeleteDo
  <1>2. r \in SnapRecords /\ r.st = "gone"
    BY EmptyRecords DEF SnapRecords
  <1> HIDE DEF r
  <1>3. TypeOK'
    BY <1>1, <1>2, EmptyRecords DEF TypeOK
  <1>4. rec'[s].st = "gone" /\ \A x \in Snaps : x # s => rec'[x] = rec[x]
    BY <1>1, <1>2 DEF TypeOK
  <1>5. ReadyIsBacked'
    BY <1>1, <1>4 DEF SnapJobsInv, SnapshotInv, ReadyIsBacked
  <1>6. JobsTrue'
    BY <1>1, <1>4 DEF SnapJobsInv, JobsTrue
  <1>7. RemovedLast'
    BY <1>1, <1>4 DEF SnapJobsInv, RemovedLast
  <1>8. QED
    BY <1>3, <1>5, <1>6, <1>7 DEF SnapJobsInv, SnapshotInv

-----------------------------------------------------------------------------
(* The VolumeSnapshots go their way. *)

\* A VolumeSnapshot that is ready is only removed, after its record.
LEMMA BackendKeeps ==
  ASSUME SnapJobsInv, NEW s \in Snaps, OnDelete(s) \/ Cut(s) \/ ReadyToUse(s)
  PROVE  SnapJobsInv'
  <1>1. /\ TypeOK /\ UNCHANGED <<ws, rec, clone, call, job, up, aged, starts, crashes>>
        /\ events' \subseteq events
    BY DEF SnapJobsInv, SnapshotInv, OnDelete, Cut, ReadyToUse, nocturne
  <1>2. PICK v \in VSStates : vs' = [vs EXCEPT ![s] = v]
    <2>1. vs[s] \in VSStates /\ vs = [vs EXCEPT ![s] = vs[s]]
      BY <1>1 DEF TypeOK
    <2>2. QED
      BY <2>1 DEF OnDelete, Cut, ReadyToUse, VSStates
  <1>3. TypeOK'
    BY <1>1, <1>2 DEF TypeOK
  <1>4. rec[s].st = "gone" \/ vs[s] # "ready"
    BY DEF SnapJobsInv, RemovedLast, OnDelete, Cut, ReadyToUse
  <1>5. \A x \in Snaps : x # s => vs'[x] = vs[x]
    BY <1>1, <1>2 DEF TypeOK
  <1>6. ReadyIsBacked'
    BY <1>1, <1>4, <1>5 DEF SnapJobsInv, SnapshotInv, ReadyIsBacked
  <1>7. JobsTrue'
    BY <1>1, <1>4, <1>5 DEF SnapJobsInv, JobsTrue
  <1>8. QED
    BY <1>1, <1>3, <1>6, <1>7 DEF SnapJobsInv, SnapshotInv, RemovedLast

-----------------------------------------------------------------------------
(* Nocturne. *)

\* A reconciliation that changes no more than its own copy and asks for VolumeSnapshots.
LEMMA AskingStep ==
  ASSUME SnapJobsInv, NEW t \in Reconcilers, NEW q \in JobRecords,
         job' = [job EXCEPT ![t] = q],
         UNCHANGED <<ws, rec, clone, call, up, events, aged, starts, crashes>>,
         vs' \in [Snaps -> VSStates], \A x \in Snaps : vs[x] = "ready" => vs'[x] = "ready",
         q.pc # "idle" => q.s \in Snaps,
         q.fresh => q.s \in Snaps /\ rec[q.s].st \in {"CREATING", "gone"},
         q.vs = "ready" => q.s \in Snaps /\ (rec[q.s].st = "gone" \/ vs'[q.s] = "ready")
  PROVE  SnapJobsInv'
  <1>1. TypeOK'
    BY DEF SnapJobsInv, SnapshotInv, TypeOK
  <1>2. JobsTrue'
    <2>1. ASSUME NEW u \in Reconcilers, u # t
          PROVE  /\ job'[u].pc # "idle" => job'[u].s \in Snaps
                 /\ job'[u].fresh => job'[u].s \in Snaps /\ rec'[job'[u].s].st \in {"CREATING", "gone"}
                 /\ job'[u].vs = "ready" => job'[u].s \in Snaps /\ (rec'[job'[u].s].st = "gone" \/ vs'[job'[u].s] = "ready")
      <3>1. job'[u] = job[u] /\ rec' = rec
        BY <2>1 DEF SnapJobsInv, SnapshotInv, TypeOK
      <3>2. QED
        BY <3>1 DEF SnapJobsInv, JobsTrue
    <2>2. job'[t] = q /\ rec' = rec
      BY DEF SnapJobsInv, SnapshotInv, TypeOK
    <2>3. QED
      BY <2>1, <2>2 DEF JobsTrue
  <1>3. ReadyIsBacked'
    BY DEF SnapJobsInv, SnapshotInv, ReadyIsBacked
  <1>4. QED
    BY <1>1, <1>2, <1>3 DEF SnapJobsInv, SnapshotInv, RemovedLast

LEMMA OwnCopyStep ==
  ASSUME SnapJobsInv, NEW t \in Reconcilers, NEW q \in JobRecords,
         job' = [job EXCEPT ![t] = q],
         UNCHANGED <<ws, rec, vs, clone, call, up, events, aged, starts, crashes>>,
         q.pc # "idle" => q.s \in Snaps,
         q.fresh => q.s \in Snaps /\ rec[q.s].st \in {"CREATING", "gone"},
         q.vs = "ready" => q.s \in Snaps /\ (rec[q.s].st = "gone" \/ vs[q.s] = "ready")
  PROVE  SnapJobsInv'
  <1>1. vs' \in [Snaps -> VSStates]
    BY DEF SnapJobsInv, SnapshotInv, TypeOK
  <1>2. QED
    BY <1>1, AskingStep

\* What holds of the copy that a reconciliation works on.
LEMMA OwnCopy ==
  ASSUME SnapJobsInv, NEW t \in Reconcilers, job[t].pc # "idle"
  PROVE  /\ job[t] \in JobRecords /\ job[t].s \in Snaps
         /\ job[t].fresh => rec[job[t].s].st \in {"CREATING", "gone"}
         /\ job[t].vs = "ready" => rec[job[t].s].st = "gone" \/ vs[job[t].s] = "ready"
         /\ job \in [Reconcilers -> JobRecords] /\ vs \in [Snaps -> VSStates]
  BY DEF SnapJobsInv, SnapshotInv, TypeOK, JobsTrue

LEMMA TakeKeeps ==
  ASSUME SnapJobsInv, NEW t \in Reconcilers, NEW s \in Snaps, Take(t, s)
  PROVE  SnapJobsInv'
  <1> DEFINE q == [pc |-> "get", s |-> s, cons |-> rec[s].cons, vs |-> None, fresh |-> TRUE]
  <1>1. job' = [job EXCEPT ![t] = q] /\ rec[s].st = "CREATING"
        /\ UNCHANGED <<ws, rec, vs, clone, call, up, events, aged, starts, crashes>>
    BY DEF Take, Creating
  <1>2. q \in JobRecords
    BY DEF SnapJobsInv, SnapshotInv, TypeOK, SnapRecords, JobRecords, VSStates
  <1>3. q.s = s /\ q.vs # "ready"
    BY DEF None
  <1> HIDE DEF q
  <1>4. QED
    BY <1>1, <1>2, <1>3, OwnCopyStep

LEMMA GetKeeps ==
  ASSUME SnapJobsInv, NEW t \in Reconcilers, GetVolumeSnapshot(t)
  PROVE  SnapJobsInv'
  <1>1. job[t].pc # "idle" /\ UNCHANGED <<ws, rec, vs, clone, call, up, events, aged, starts, crashes>>
    BY DEF GetVolumeSnapshot, At
  <1>2. CASE vs[job[t].s] # None
    <2> DEFINE q == [job[t] EXCEPT !.pc = "status", !.vs = vs[job[t].s]]
    <2>1. job' = [job EXCEPT ![t] = q]
      BY <1>1, <1>2, OwnCopy DEF GetVolumeSnapshot, JobRecords
    <2>2. q \in JobRecords
      BY <1>1, OwnCopy DEF JobRecords
    <2>3. q.s = job[t].s /\ q.fresh = job[t].fresh /\ q.vs = vs[job[t].s]
      BY <1>1, OwnCopy DEF JobRecords
    <2> HIDE DEF q
    <2>4. QED
      BY <1>1, <2>1, <2>2, <2>3, OwnCopy, OwnCopyStep
  <1>3. CASE vs[job[t].s] = None
    <2> DEFINE q == [job[t] EXCEPT !.pc = "prepare"]
    <2>1. job' = [job EXCEPT ![t] = q]
      BY <1>1, <1>3, OwnCopy DEF GetVolumeSnapshot
    <2>2. q \in JobRecords
      BY <1>1, OwnCopy DEF JobRecords
    <2>3. q.s = job[t].s /\ q.fresh = job[t].fresh /\ q.vs = job[t].vs
      BY <1>1, OwnCopy DEF JobRecords
    <2> HIDE DEF q
    <2>4. QED
      BY <1>1, <2>1, <2>2, <2>3, OwnCopy, OwnCopyStep
  <1>4. QED
    BY <1>2, <1>3

LEMMA PrepareKeeps ==
  ASSUME SnapJobsInv, NEW t \in Reconcilers, Prepare(t)
  PROVE  SnapJobsInv'
  <1>1. job[t].pc # "idle" /\ UNCHANGED <<ws, rec, vs, clone, call, up, events, aged, starts, crashes>>
    BY DEF Prepare, At
  <1>2. PICK pc \in {"cut", "fail"}, cons \in Conss :
          job' = [job EXCEPT ![t] = [job[t] EXCEPT !.pc = pc, !.cons = cons]]
    <2>1. job[t].cons \in Conss /\ Downgraded(job[t].cons) \in Conss
      BY <1>1, OwnCopy DEF JobRecords, Downgraded, Conss
    <2>2. CASE ws.pvc
      BY <1>1, <2>1, <2>2, OwnCopy DEF Prepare, JobRecords
    <2>3. CASE ~ws.pvc
      <3>1. job' = [job EXCEPT ![t] = [job[t] EXCEPT !.pc = "fail"]]
        BY <1>1, <2>3, OwnCopy DEF Prepare
      <3>2. [job[t] EXCEPT !.pc = "fail"] = [job[t] EXCEPT !.pc = "fail", !.cons = job[t].cons]
        BY <1>1, OwnCopy DEF JobRecords
      <3>3. QED
        BY <2>1, <3>1, <3>2
    <2>4. QED
      BY <2>2, <2>3
  <1> DEFINE q == [job[t] EXCEPT !.pc = pc, !.cons = cons]
  <1>3. q \in JobRecords
    BY <1>1, OwnCopy DEF JobRecords
  <1>4. q.s = job[t].s /\ q.fresh = job[t].fresh /\ q.vs = job[t].vs
    BY <1>1, OwnCopy DEF JobRecords
  <1>5. job' = [job EXCEPT ![t] = q]
    BY <1>2
  <1> HIDE DEF q
  <1>6. QED
    BY <1>1, <1>3, <1>4, <1>5, OwnCopy, OwnCopyStep

LEMMA AskedFacts ==
  ASSUME NEW s \in Snaps, vs \in [Snaps -> VSStates], vs' = Asked(s)
  PROVE  vs' \in [Snaps -> VSStates] /\ \A x \in Snaps : vs[x] = "ready" => vs'[x] = "ready"
  BY DEF Asked, VSStates, None

\* A call that fails gives up the copy.
LEMMA CallFailsKeeps ==
  ASSUME SnapJobsInv, NEW t \in Reconcilers, CallFails(t)
  PROVE  SnapJobsInv'
  <1>1. /\ job[t].pc # "idle" /\ job' = [job EXCEPT ![t] = NoJob]
        /\ UNCHANGED <<ws, rec, clone, call, up, events, aged, starts, crashes>>
        /\ vs' = vs \/ vs' = Asked(job[t].s)
    BY DEF CallFails
  <1>2. vs' \in [Snaps -> VSStates] /\ \A x \in Snaps : vs[x] = "ready" => vs'[x] = "ready"
    BY <1>1, OwnCopy, AskedFacts
  <1>3. ~NoJob.fresh /\ NoJob.vs # "ready" /\ NoJob.pc = "idle"
    BY DEF NoJob, None
  <1>4. QED
    BY <1>1, <1>2, <1>3, EmptyRecords, AskingStep

\* A VolumeSnapshot that exists is adopted, as it is (createVolumeSnapshot).
LEMMA CutKeeps ==
  ASSUME SnapJobsInv, NEW t \in Reconcilers, CreateVolumeSnapshot(t)
  PROVE  SnapJobsInv'
  <1> DEFINE s == job[t].s
  <1>1. /\ TypeOK /\ job[t].pc # "idle"
        /\ UNCHANGED <<ws, rec, clone, call, up, events, aged, starts, crashes>>
    BY DEF SnapJobsInv, SnapshotInv, CreateVolumeSnapshot, At
  <1>2. CASE job' = [job EXCEPT ![t].pc = "fail"] /\ UNCHANGED vs
    <2> DEFINE q == [job[t] EXCEPT !.pc = "fail"]
    <2>1. job' = [job EXCEPT ![t] = q]
      BY <1>1, <1>2, OwnCopy
    <2>2. q \in JobRecords
      BY <1>1, OwnCopy DEF JobRecords
    <2>3. q.s = job[t].s /\ q.fresh = job[t].fresh /\ q.vs = job[t].vs
      BY <1>1, OwnCopy DEF JobRecords
    <2> HIDE DEF q
    <2>4. UNCHANGED <<ws, rec, vs, clone, call, up, events, aged, starts, crashes>>
      BY <1>1, <1>2
    <2>5. QED
      BY <1>1, <2>1, <2>2, <2>3, <2>4, OwnCopy, OwnCopyStep
  <1>3. CASE /\ vs' = Asked(s)
             /\ job' = [job EXCEPT ![t].pc = "status", ![t].vs = vs'[s]]
    <2> DEFINE q == [job[t] EXCEPT !.pc = "status", !.vs = vs'[s]]
    <2>1. s \in Snaps /\ vs' \in [Snaps -> VSStates] /\ \A x \in Snaps : vs[x] = "ready" => vs'[x] = "ready"
      BY <1>1, <1>3, OwnCopy, AskedFacts
    <2>2. job' = [job EXCEPT ![t] = q]
      BY <1>1, <1>3, OwnCopy DEF JobRecords
    <2>3. q \in JobRecords
      BY <1>1, <2>1, OwnCopy DEF JobRecords
    <2>4. q.s = s /\ q.fresh = job[t].fresh /\ q.vs = vs'[s]
      BY <1>1, OwnCopy DEF JobRecords
    <2> HIDE DEF q
    <2>5. QED
      BY <1>1, <2>1, <2>2, <2>3, <2>4, OwnCopy, AskingStep
  <1>4. QED
    BY <1>2, <1>3 DEF CreateVolumeSnapshot

\* A write replaces a record that is CREATING, and makes the other copies of it stale
\* (UpdateWorkspaceSnapshot).
LEMMA WrittenKeeps ==
  ASSUME SnapJobsInv, NEW t \in Reconcilers, NEW r \in SnapRecords, job[t].pc # "idle",
         r.st = "READY" => job[t].vs = "ready", r.st \notin {None, "gone"},
         Written(t, r), UNCHANGED <<ws, vs, clone, call, up, events, aged, starts, crashes>>
  PROVE  /\ SnapJobsInv'
         /\ \A x \in Snaps : rec'[x] = rec[x] \/ rec[x].st = "CREATING"
  <1> DEFINE s == job[t].s
  <1>1. TypeOK /\ s \in Snaps /\ job \in [Reconcilers -> JobRecords] /\ rec \in [Snaps -> SnapRecords]
    BY OwnCopy DEF SnapJobsInv, SnapshotInv, TypeOK
  <1>2. CASE Writes(t, r)
    <2>1. rec' = [rec EXCEPT ![s] = r] /\ job' = [Stale(s) EXCEPT ![t] = NoJob]
      BY <1>2 DEF Written
    <2>2. rec[s].st = "CREATING"
      BY <1>2, OwnCopy DEF Writes, MayWrite, Exists
    <2>3. TypeOK'
      BY <1>1, <2>1, StaleFacts, EmptyRecords DEF TypeOK
    <2>4. rec'[s] = r /\ \A x \in Snaps : x # s => rec'[x] = rec[x]
      BY <1>1, <2>1
    <2>5. ReadyIsBacked'
      <3>1. r.st = "READY" => vs[s] = "ready"
        BY <2>2, OwnCopy
      <3>2. QED
        BY <2>4, <3>1 DEF SnapJobsInv, SnapshotInv, ReadyIsBacked
    <2>6. JobsTrue'
      <3>1. ASSUME NEW u \in Reconcilers, u # t
            PROVE  /\ job'[u].s = job[u].s /\ job'[u].vs = job[u].vs /\ job'[u].pc = job[u].pc
                   /\ job'[u].fresh => job[u].fresh /\ job[u].s # s
        <4>1. job'[u] = Stale(s)[u]
          BY <1>1, <2>1, <3>1, StaleFacts
        <4>2. QED
          BY <1>1, <4>1, StaleFacts
      <3>2. job'[t] = NoJob
        BY <1>1, <2>1, StaleFacts
      <3>3. ~NoJob.fresh /\ NoJob.vs # "ready" /\ NoJob.pc = "idle"
        BY DEF NoJob, None
      <3>4. ASSUME NEW u \in Reconcilers, u # t
            PROVE  /\ job'[u].pc # "idle" => job'[u].s \in Snaps
                   /\ job'[u].fresh => job'[u].s \in Snaps /\ rec'[job'[u].s].st \in {"CREATING", "gone"}
                   /\ job'[u].vs = "ready" => job'[u].s \in Snaps /\ (rec'[job'[u].s].st = "gone" \/ vs'[job'[u].s] = "ready")
        BY <2>2, <2>4, <3>1, <3>4 DEF SnapJobsInv, JobsTrue
      <3>5. QED
        BY <3>2, <3>3, <3>4 DEF JobsTrue
    <2>7. RemovedLast'
      BY <2>2, <2>4 DEF SnapJobsInv, RemovedLast
    <2>8. QED
      BY <2>2, <2>3, <2>4, <2>5, <2>6, <2>7 DEF SnapJobsInv, SnapshotInv
  <1>3. CASE ~Writes(t, r)
    <2>1. job' = [job EXCEPT ![t] = NoJob] /\ UNCHANGED rec
      BY <1>3 DEF Written
    <2>2. ~NoJob.fresh /\ NoJob.vs # "ready" /\ NoJob.pc = "idle"
      BY DEF NoJob, None
    <2>3. QED
      BY <2>1, <2>2, EmptyRecords, OwnCopyStep
  <1>4. QED
    BY <1>2, <1>3

LEMMA SetKeeps ==
  ASSUME SnapJobsInv, NEW t \in Reconcilers, SetStatus(t) \/ SetFailure(t)
  PROVE  /\ SnapJobsInv'
         /\ \A x \in Snaps : rec'[x] = rec[x] \/ rec[x].st = "CREATING"
  <1>1. job[t].pc # "idle"
    BY DEF SetStatus, SetFailure, At
  <1>2. job[t].cons \in Conss /\ job[t].vs \in VSStates /\ None \in VSStates
    BY <1>1, OwnCopy DEF JobRecords, VSStates
  <1>3. CASE SetStatus(t)
    <2> DEFINE st == StateOf(job[t].vs, job[t].s)
               r == [st |-> st, cons |-> job[t].cons, vs |-> job[t].vs]
    <2>1. st \in {"CREATING", "READY", "FAILED"} /\ (st = "READY" => job[t].vs = "ready")
      BY DEF StateOf
    <2>2. Written(t, r) /\ UNCHANGED <<ws, vs, clone, call, up, events, aged, starts, crashes>>
      BY <1>3 DEF SetStatus, Status
    <2> HIDE DEF st
    <2>3. r \in SnapRecords /\ r.st = st
      BY <1>2, <2>1 DEF SnapRecords
    <2> HIDE DEF r
    <2>4. r.st \notin {None, "gone"}
      BY <2>1, <2>3 DEF None
    <2>5. QED
      BY <1>1, <2>1, <2>2, <2>3, <2>4, WrittenKeeps
  <1>4. CASE SetFailure(t)
    <2> DEFINE r == [st |-> "FAILED", cons |-> job[t].cons, vs |-> None]
    <2>1. Written(t, r) /\ UNCHANGED <<ws, vs, clone, call, up, events, aged, starts, crashes>>
      BY <1>4 DEF SetFailure, Failure
    <2>2. r \in SnapRecords
      BY <1>2 DEF SnapRecords
    <2>3. r.st \notin {None, "gone"} /\ r.st # "READY"
      BY DEF None
    <2> HIDE DEF r
    <2>4. QED
      BY <1>1, <2>1, <2>2, <2>3, WrittenKeeps
  <1>5. QED
    BY <1>3, <1>4

LEMMA DownKeeps ==
  ASSUME SnapJobsInv, Crash \/ \E t \in Reconcilers : Panic(t)
  PROVE  SnapJobsInv'
  <1>1. TypeOK /\ Down /\ UNCHANGED <<ws, rec, vs, clone, call, aged, starts>>
    BY DEF SnapJobsInv, SnapshotInv, Crash, Panic
  <1>2. crashes' \in 0..MaxCrash
    BY <1>1, SnapshotAssumption DEF TypeOK, Crash, Panic
  <1>3. TypeOK'
    BY <1>1, <1>2, EmptyRecords DEF TypeOK, Down
  <1>4. JobsTrue'
    BY <1>1 DEF JobsTrue, Down, NoJob, None
  <1>5. QED
    BY <1>1, <1>3, <1>4 DEF SnapJobsInv, SnapshotInv, ReadyIsBacked, RemovedLast, Down

LEMMA NextJobs == SnapJobsInv /\ [Next]_vars => SnapJobsInv'
  <1> SUFFICES ASSUME SnapJobsInv, [Next]_vars PROVE SnapJobsInv'
    OBVIOUS
  <1>1. CASE UNCHANGED vars
    <2>1. TypeOK'
      BY <1>1 DEF vars, SnapJobsInv, SnapshotInv, TypeOK
    <2>2. QED
      BY <1>1, <2>1, QuietStep DEF vars
  <1>2. CASE Requests
    BY <1>2, AskKeeps, CreateKeeps, DeleteKeeps, WorkspacesKeep DEF Requests
  <1>3. ASSUME NEW t \in Reconcilers, Reconcile(t)
        PROVE  SnapJobsInv'
    BY <1>3, TakeKeeps, GetKeeps, PrepareKeeps, CutKeeps, SetKeeps, CallFailsKeeps, DownKeeps
       DEF Reconcile
  <1>4. QED
    BY <1>1, <1>2, <1>3, BackendKeeps, WorkspacesKeep, DownKeeps DEF Next

-----------------------------------------------------------------------------
\* Every copy that a reconciliation may still write is of a record that is CREATING or
\* deleted (reconcileWorkspaceSnapshot).
THEOREM JobsCorrect == Spec => []SnapJobsInv
  <1>1. QED
    BY InitJobs, NextJobs, PTL DEF Spec

\* A READY snapshot has a VolumeSnapshot that is ready to use, for any number of
\* overlapping reconciliations (getPVCDataSource).
THEOREM SnapshotCorrect == Spec => []SnapshotInv
  <1>1. SnapJobsInv => SnapshotInv
    BY DEF SnapJobsInv
  <1>2. QED
    BY <1>1, JobsCorrect, PTL

\* READY and FAILED are final (reconcileWorkspaceSnapshot, UpdateWorkspaceSnapshot).
THEOREM FinalKept == Spec => FinalIsKept
  <1> DEFINE Kept == \A s \in Snaps : rec[s].st \in {"READY", "FAILED"} =>
                       rec'[s] = rec[s] \/ rec'[s].st = "gone"
  <1>1. ASSUME SnapJobsInv, [Next]_vars
        PROVE  [Kept]_vars
    <2>1. rec \in [Snaps -> SnapRecords]
      BY <1>1 DEF SnapJobsInv, SnapshotInv, TypeOK
    <2>2. ASSUME NEW c \in Callers, NEW s \in Snaps, CreateDo(c, s) PROVE Kept
      BY <2>1, <2>2 DEF CreateDo, None
    <2>3. ASSUME NEW c \in Callers, NEW s \in Snaps, DeleteDo(c, s) PROVE Kept
      <3>1. [NoRec EXCEPT !.st = "gone"].st = "gone"
        BY DEF NoRec
      <3>2. QED
        BY <2>1, <2>3, <3>1 DEF DeleteDo
    <2>4. ASSUME NEW t \in Reconcilers, SetStatus(t) \/ SetFailure(t) PROVE Kept
      BY <1>1, <2>4, SetKeeps
    <2>5. ASSUME UNCHANGED rec PROVE Kept
      BY <2>5
    <2> HIDE DEF Kept
    <2>6. CASE Requests
      BY <2>2, <2>3, <2>5, <2>6 DEF Requests, CreateWorkspaceSnapshot, DeleteWorkspaceSnapshot,
         Restore, RestoreDo, CloneRuns, WorkspaceStart, WorkspaceStop, WorkspaceDelete
    <2>7. ASSUME NEW t \in Reconcilers, Reconcile(t) PROVE Kept
      BY <2>4, <2>5, <2>7 DEF Reconcile, Take, GetVolumeSnapshot, Prepare, Panic,
         CreateVolumeSnapshot, CallFails
    <2>8. QED
      BY <1>1, <2>5, <2>6, <2>7 DEF Next, OnDeleteWorkspace, Crash, Restart, OnDelete, Cut,
         ReadyToUse, Age
  <1>2. QED
    BY <1>1, JobsCorrect, PTL DEF Spec, FinalIsKept

-----------------------------------------------------------------------------
(* One request at a time. *)

Serial == OneCreating /\ Restorable /\ ChecksHold

LEMMA OneCaller ==
  ASSUME Cardinality(Callers) = 1
  PROVE  \E c : Callers = {c}
BY FS_Singleton, SnapshotAssumption

LEMMA CloneRecord ==
  ASSUME TypeOK, NEW s \in Snaps
  PROVE  clone = [ref |-> s, ran |-> FALSE] <=> clone.ref = s /\ ~clone.ran
BY DEF TypeOK

\* A step of Nocturne, of Kubernetes or of a Workspace: it makes no snapshot
\* CREATING, changes none that is not, and restores nothing.
LEMMA BackgroundSerial ==
  ASSUME SnapJobsInv, Serial, UNCHANGED call,
         \A x \in Snaps : rec'[x] = rec[x] \/ rec[x].st = "CREATING",
         UNCHANGED clone \/ clone'.ran
  PROVE  Serial'
  <1>1. \A x \in Snaps : (Creating(x)' => Creating(x)) /\ (rec[x].st = "READY" => rec'[x].st = "READY")
    BY DEF Creating
  <1>2. OneCreating'
    BY <1>1 DEF Serial, OneCreating
  <1>3. Restorable'
    <2>1. CASE UNCHANGED clone
      BY <1>1, <2>1 DEF Serial, Restorable
    <2>2. CASE clone'.ran
      <3>1. \A x : [ref |-> x, ran |-> FALSE].ran = FALSE
        OBVIOUS
      <3>2. QED
        BY <2>2, <3>1 DEF Restorable
    <2>3. QED
      BY <2>1, <2>2
  <1>4. \A x \in Snaps : RestoresFrom(x)' => RestoresFrom(x)
    BY DEF RestoresFrom
  <1>5. ChecksHold'
    <2> SUFFICES ASSUME NEW c \in Callers
                 PROVE  /\ call[c].pc # "idle" => call[c].s \in Snaps
                        /\ call[c].pc = "create" => MayCreate'
                        /\ call[c].pc = "delete" => ~RestoresFrom(call[c].s)'
                        /\ call[c].pc = "restore" => rec'[call[c].s].st = "READY"
      BY DEF ChecksHold
    <2>1. /\ call[c].pc # "idle" => call[c].s \in Snaps
          /\ call[c].pc = "create" => MayCreate
          /\ call[c].pc = "delete" => ~RestoresFrom(call[c].s)
          /\ call[c].pc = "restore" => rec[call[c].s].st = "READY"
      BY DEF Serial, ChecksHold
    <2>2. MayCreate => MayCreate'
      BY <1>1 DEF MayCreate
    <2>3. QED
      BY <1>1, <1>4, <2>1, <2>2
  <1>6. QED
    BY <1>2, <1>3, <1>5 DEF Serial

\* The check of a request, and what the request does.
LEMMA RequestSerial ==
  ASSUME SnapJobsInv, Serial, NEW c, Callers = {c}, NEW s \in Snaps,
         \/ CreateWorkspaceSnapshot(c, s) \/ CreateDo(c, s)
         \/ DeleteWorkspaceSnapshot(c, s) \/ DeleteDo(c, s)
         \/ Restore(c, s) \/ RestoreDo(c, s)
  PROVE  Serial'
  <1>0. /\ TypeOK /\ call \in [{c} -> CallRecords] /\ rec \in [Snaps -> SnapRecords]
        /\ clone \in [ref : Snaps \cup {None}, ran : BOOLEAN]
    BY DEF SnapJobsInv, SnapshotInv, TypeOK
  <1>1. /\ call[c].pc = "create" => \A x \in Snaps : rec[x].st # "CREATING"
        /\ call[c].pc = "delete" => ~(clone.ref = call[c].s /\ ~clone.ran)
        /\ call[c].pc = "restore" => rec[call[c].s].st = "READY"
    BY DEF Serial, ChecksHold, MayCreate, Creating, RestoresFrom
  <1>2. NoCall.pc = "idle"
    BY DEF NoCall
  <1>3. CASE CreateWorkspaceSnapshot(c, s) \/ DeleteWorkspaceSnapshot(c, s) \/ Restore(c, s)
    <2>1. UNCHANGED <<rec, clone>>
      BY <1>3 DEF CreateWorkspaceSnapshot, DeleteWorkspaceSnapshot, Restore
    <2>2. OneCreating' /\ Restorable'
      BY <2>1 DEF Serial, OneCreating, Restorable, Creating
    <2>3. /\ call'[c].s = s
          /\ call'[c].pc = "create" => \A x \in Snaps : rec[x].st # "CREATING"
          /\ call'[c].pc = "delete" => ~(clone.ref = s /\ ~clone.ran)
          /\ call'[c].pc = "restore" => rec[s].st = "READY"
      <3>1. \A pc \in {"delete", "restore"} : /\ [NoCall EXCEPT !.pc = pc, !.s = s].pc = pc
                                           /\ [NoCall EXCEPT !.pc = pc, !.s = s].s = s
        BY DEF NoCall
      <3>2. CASE CreateWorkspaceSnapshot(c, s)
        BY <1>0, <3>2 DEF CreateWorkspaceSnapshot, MayCreate, Creating
      <3>3. CASE DeleteWorkspaceSnapshot(c, s)
        BY <1>0, <3>1, <3>3 DEF DeleteWorkspaceSnapshot, RestoresFrom
      <3>4. CASE Restore(c, s)
        BY <1>0, <3>1, <3>4 DEF Restore
      <3>5. QED
        BY <1>3, <3>2, <3>3, <3>4
    <2>4. ChecksHold'
      BY <2>1, <2>3 DEF ChecksHold, MayCreate, Creating, RestoresFrom
    <2>5. QED
      BY <2>2, <2>4 DEF Serial
  <1>4. CASE CreateDo(c, s) \/ DeleteDo(c, s) \/ RestoreDo(c, s)
    <2>1. call'[c].pc = "idle"
      BY <1>0, <1>2, <1>4 DEF CreateDo, DeleteDo, RestoreDo
    <2>2. ChecksHold'
      BY <2>1 DEF ChecksHold
    <2>3. OneCreating'
      <3>1. CASE CreateDo(c, s)
        <4>1. \A x \in Snaps : rec[x].st # "CREATING"
          BY <1>1, <3>1 DEF CreateDo
        <4>2. \A x \in Snaps : x # s => rec'[x] = rec[x]
          BY <1>0, <3>1 DEF CreateDo
        <4>3. QED
          BY <4>1, <4>2 DEF OneCreating, Creating
      <3>2. CASE DeleteDo(c, s)
        <4>1. [NoRec EXCEPT !.st = "gone"].st = "gone"
          BY DEF NoRec
        <4>2. rec'[s].st = "gone" /\ \A x \in Snaps : x # s => rec'[x] = rec[x]
          BY <1>0, <3>2, <4>1 DEF DeleteDo
        <4>3. QED
          BY <4>2 DEF Serial, OneCreating, Creating
      <3>3. CASE RestoreDo(c, s)
        BY <3>3 DEF RestoreDo, Serial, OneCreating, Creating
      <3>4. QED
        BY <1>4, <3>1, <3>2, <3>3
    <2>4. Restorable'
      <3> SUFFICES ASSUME NEW x \in Snaps, clone' = [ref |-> x, ran |-> FALSE]
                   PROVE  rec'[x].st = "READY"
        BY DEF Restorable
      <3>1. CASE CreateDo(c, s)
        <4>1. rec[x].st = "READY"
          BY <3>1 DEF CreateDo, Serial, Restorable
        <4>2. QED
          BY <1>0, <3>1, <4>1 DEF CreateDo, None
      <3>2. CASE DeleteDo(c, s)
        <4>1. clone = [ref |-> x, ran |-> FALSE] /\ rec[x].st = "READY"
          BY <3>2 DEF DeleteDo, Serial, Restorable
        <4>2. x # s
          BY <1>0, <1>1, <3>2, <4>1, CloneRecord DEF DeleteDo
        <4>3. QED
          BY <1>0, <3>2, <4>1, <4>2 DEF DeleteDo
      <3>3. CASE RestoreDo(c, s)
        <4>1. rec[s].st = "READY" /\ UNCHANGED rec
          BY <1>1, <3>3 DEF RestoreDo
        <4>2. CASE clone.ref = None
          <5>1. [ref |-> s, ran |-> FALSE] = [ref |-> x, ran |-> FALSE]
            BY <3>3, <4>2 DEF RestoreDo
          <5>2. s = x
            BY <5>1
          <5>3. QED
            BY <4>1, <5>2
        <4>3. CASE clone.ref # None
          BY <3>3, <4>1, <4>3 DEF RestoreDo, Serial, Restorable
        <4>4. QED
          BY <4>2, <4>3
      <3>4. QED
        BY <1>4, <3>1, <3>2, <3>3
    <2>5. QED
      BY <2>2, <2>3, <2>4 DEF Serial
  <1>5. QED
    BY <1>3, <1>4

LEMMA NextSerial == SerialIInv /\ [Next]_vars => SerialIInv'
  <1> SUFFICES ASSUME SerialIInv, [Next]_vars, Cardinality(Callers) = 1 PROVE Serial'
    BY NextJobs DEF SerialIInv, Serial
  <1>1. SnapJobsInv /\ Serial /\ clone \in [ref : Snaps \cup {None}, ran : BOOLEAN]
    BY DEF SerialIInv, Serial, SnapJobsInv, SnapshotInv, TypeOK
  <1>2. PICK c : Callers = {c}
    BY OneCaller
  <1>3. CASE UNCHANGED vars
    BY <1>1, <1>3, BackgroundSerial DEF vars
  <1>4. ASSUME NEW s \in Snaps, CloneRuns(s)
        PROVE  Serial'
    <2>1. clone'.ran
      BY <1>1, <1>4 DEF CloneRuns
    <2>2. QED
      BY <1>1, <1>4, <2>1, BackgroundSerial DEF CloneRuns
  <1>5. CASE WorkspaceStart \/ WorkspaceStop \/ WorkspaceDelete
    BY <1>1, <1>5, BackgroundSerial DEF WorkspaceStart, WorkspaceStop, WorkspaceDelete
  <1>6. CASE Requests
    BY <1>1, <1>2, <1>4, <1>5, <1>6, RequestSerial DEF Requests
  <1>7. ASSUME NEW t \in Reconcilers, SetStatus(t) \/ SetFailure(t)
        PROVE  Serial'
    <2>1. \A x \in Snaps : rec'[x] = rec[x] \/ rec[x].st = "CREATING"
      BY <1>1, <1>7, SetKeeps
    <2>2. UNCHANGED <<call, clone>>
      BY <1>7 DEF SetStatus, SetFailure
    <2>3. QED
      BY <1>1, <2>1, <2>2, BackgroundSerial
  <1>8. ASSUME NEW t \in Reconcilers, Reconcile(t)
        PROVE  Serial'
    <2>1. CASE SetStatus(t) \/ SetFailure(t)
      BY <1>7, <2>1
    <2>2. CASE ~(SetStatus(t) \/ SetFailure(t))
      <3>1. UNCHANGED <<rec, call, clone>>
        BY <1>8, <2>2 DEF Reconcile, Take, GetVolumeSnapshot, Prepare, Panic, CreateVolumeSnapshot,
           CallFails
      <3>2. QED
        BY <1>1, <3>1, BackgroundSerial
    <2>3. QED
      BY <2>1, <2>2
  <1>9. CASE \/ OnDeleteWorkspace \/ Crash \/ Restart
             \/ \E s \in Snaps : OnDelete(s) \/ Cut(s) \/ ReadyToUse(s) \/ Age(s)
    <2>1. UNCHANGED <<rec, call, clone>>
      BY <1>9 DEF OnDeleteWorkspace, Crash, Restart, OnDelete, Cut, ReadyToUse, Age
    <2>2. QED
      BY <1>1, <2>1, BackgroundSerial
  <1>10. QED
    BY <1>3, <1>6, <1>8, <1>9 DEF Next

\* When one request runs at a time, one snapshot is taken at a time, and the snapshot
\* of a Workspace that has still to be restored is not deleted, whatever Nocturne does
\* between the check of a request and its write (CreateWorkspaceSnapshot,
\* DeleteWorkspaceSnapshot).
THEOREM SerialRequestsHold == Spec => []SerialRequests
  <1>1. Init => SerialIInv
    <2> SUFFICES ASSUME Init PROVE Serial
      BY InitJobs DEF SerialIInv, Serial
    <2>1. \A s \in Snaps : rec[s].st = None
      BY DEF Init, NoRec
    <2>2. \A c \in Callers : call[c].pc = "idle"
      BY DEF Init, NoCall
    <2>3. clone.ref = None
      BY DEF Init
    <2>4. None \notin Snaps
      BY SnapshotAssumption DEF None
    <2>5. \A s : [ref |-> s, ran |-> FALSE].ref = s
      OBVIOUS
    <2>6. QED
      BY <2>1, <2>2, <2>3, <2>4, <2>5
         DEF Serial, OneCreating, Restorable, ChecksHold, Creating, None
  <1>2. SerialIInv => SerialRequests
    BY DEF SerialIInv, SerialRequests
  <1>3. QED
    BY <1>1, <1>2, NextSerial, PTL DEF Spec
=============================================================================
