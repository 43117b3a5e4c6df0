---------------------------- MODULE VolumeProofs ----------------------------
(***************************************************************************)
(* Volumes: CopiesInv is inductive, for any number of requests and of      *)
(* reconciliations that overlap; VolumeInv, OnlyGrows and                  *)
(* NeverReprovisioned follow.                                              *)
(***************************************************************************)
EXTENDS Volumes, TLAPS

-----------------------------------------------------------------------------
(* What makes a copy stale leaves the rest of it alone. *)

LEMMA EmptyRecords == NoCall \in CallRecords /\ NoJob \in JobRecords
  BY VolumeAssumption DEF NoCall, NoJob, CallRecords, JobRecords, Sizes

LEMMA StaleCallsType ==
  ASSUME call \in [Callers -> CallRecords]
  PROVE  StaleCalls \in [Callers -> CallRecords] /\ \A c \in Callers : ~StaleCalls[c].fresh
  <1>1. \A r \in CallRecords : [r EXCEPT !.fresh = FALSE] \in CallRecords
    BY DEF CallRecords
  <1>2. \A r \in CallRecords : ~[r EXCEPT !.fresh = FALSE].fresh
    BY DEF CallRecords
  <1>3. QED
    BY <1>1, <1>2 DEF StaleCalls

LEMMA StaleJobsType ==
  ASSUME NEW jobs \in [Reconcilers -> JobRecords]
  PROVE  /\ StaleJobs(jobs) \in [Reconcilers -> JobRecords]
         /\ StaleClaims(jobs) \in [Reconcilers -> JobRecords]
  <1>1. \A r \in JobRecords : [r EXCEPT !.fresh = FALSE] \in JobRecords
    BY DEF JobRecords
  <1>2. \A r \in JobRecords : [r EXCEPT !.current = FALSE] \in JobRecords
    BY DEF JobRecords
  <1>3. QED
    BY <1>1, <1>2 DEF StaleJobs, StaleClaims

-----------------------------------------------------------------------------
\* Initially there is a new record, no claim and no copy (CreateVolume).
LEMMA InitCopies == Init => CopiesInv
  <1> SUFFICES ASSUME Init PROVE CopiesInv
    OBVIOUS
  <1>1. vol \in VolumeRecords
    BY VolumeAssumption DEF Init, VolumeRecords, Sizes
  <1>2. pvc \in ClaimRecords
    BY VolumeAssumption DEF Init, ClaimRecords, Sizes
  <1>3. TypeOK
    <2>1. call \in [Callers -> CallRecords] /\ job \in [Reconcilers -> JobRecords]
      BY EmptyRecords DEF Init
    <2>2. deleted \in BOOLEAN
      BY DEF Init
    <2>3. QED
      BY <1>1, <1>2, <2>1, <2>2, VolumeAssumption DEF Init, TypeOK
  <1>4. CallsAgree /\ FreshAgrees /\ CopiesTrue
    BY DEF Init, NoCall, NoJob, None, CallsAgree, FreshAgrees, CopiesTrue
  <1>5. ReadyIsProvisioned /\ ClaimTrue
    BY DEF Init, ReadyIsProvisioned, ClaimTrue, None
  <1>6. QED
    BY <1>3, <1>4, <1>5 DEF CopiesInv, VolumeInv

-----------------------------------------------------------------------------
\* A smaller size is refused on the copy, and a copy that is still fresh has the
\* record's size (UpdateVolume).
LEMMA UpdateKeeps ==
  ASSUME CopiesInv, NEW c \in Callers, NEW size \in 1..MaxSize, UpdateVolume(c, size)
  PROVE  CopiesInv'
  <1> DEFINE r == [pc |-> "save", size |-> size, fresh |-> TRUE]
  <1>1. TypeOK /\ call' = [call EXCEPT ![c] = r] /\ size >= vol.size
        /\ UNCHANGED <<vol, pvc, job, deleted, losses, crashes>>
    BY DEF CopiesInv, VolumeInv, UpdateVolume, MayResize
  <1>2. r \in CallRecords
    BY VolumeAssumption DEF CallRecords, Sizes
  <1>3. edits' \in 0..MaxEdits
    BY <1>1, VolumeAssumption DEF UpdateVolume, TypeOK
  <1>4. TypeOK'
    BY <1>1, <1>2, <1>3 DEF TypeOK
  <1>5. CallsAgree'
    BY <1>1 DEF TypeOK, CopiesInv, CallsAgree
  <1>6. QED
    BY <1>1, <1>4, <1>5 DEF CopiesInv, VolumeInv, ReadyIsProvisioned, FreshAgrees, CopiesTrue, ClaimTrue

LEMMA UpdateSaveKeeps ==
  ASSUME CopiesInv, NEW c \in Callers, UpdateSave(c)
  PROVE  CopiesInv'
  <1>1. TypeOK /\ UNCHANGED <<pvc, deleted, edits, losses, crashes>>
    BY DEF CopiesInv, VolumeInv, UpdateSave
  <1>2. CASE call[c].fresh /\ vol.exists
    <2>1. /\ vol' = [vol EXCEPT !.size = call[c].size]
          /\ call' = [StaleCalls EXCEPT ![c] = NoCall]
          /\ job' = StaleJobs(job)
      BY <1>2 DEF UpdateSave
    <2>2. vol' \in VolumeRecords /\ vol'.ready = vol.ready /\ vol'.st = vol.st
      BY <1>1, <2>1 DEF TypeOK, VolumeRecords, CallRecords
    <2>3. TypeOK'
      BY <1>1, <2>1, <2>2, EmptyRecords, StaleCallsType, StaleJobsType DEF TypeOK
    <2>4. CallsAgree'
      BY <1>1, <2>1, StaleCallsType DEF TypeOK, CallsAgree, NoCall
    <2>5. FreshAgrees' /\ CopiesTrue'
      BY <1>1, <2>1 DEF CopiesInv, TypeOK, JobRecords, StaleJobs, FreshAgrees, CopiesTrue
    <2>6. QED
      BY <1>1, <2>2, <2>3, <2>4, <2>5 DEF CopiesInv, VolumeInv, ReadyIsProvisioned, ClaimTrue
  <1>3. CASE ~(call[c].fresh /\ vol.exists)
    <2>1. call' = [call EXCEPT ![c] = NoCall] /\ UNCHANGED <<vol, job>>
      BY <1>3 DEF UpdateSave
    <2>2. TypeOK'
      BY <1>1, <2>1, EmptyRecords DEF TypeOK
    <2>3. CallsAgree'
      BY <1>1, <2>1 DEF CopiesInv, TypeOK, CallsAgree, NoCall
    <2>4. QED
      BY <1>1, <2>1, <2>2, <2>3
         DEF CopiesInv, VolumeInv, ReadyIsProvisioned, FreshAgrees, CopiesTrue, ClaimTrue
  <1>4. QED
    BY <1>2, <1>3

LEMMA DeleteKeeps ==
  ASSUME CopiesInv, DeleteVolume
  PROVE  CopiesInv'
  <1>1. /\ TypeOK /\ UNCHANGED <<pvc, edits, losses, crashes>> /\ deleted' = TRUE
        /\ vol' = [vol EXCEPT !.exists = FALSE]
        /\ call' = StaleCalls /\ job' = StaleJobs(job)
    BY DEF CopiesInv, VolumeInv, DeleteVolume
  <1>2. vol' \in VolumeRecords /\ vol'.ready = vol.ready /\ vol'.st = vol.st
    BY <1>1 DEF TypeOK, VolumeRecords
  <1>3. TypeOK'
    BY <1>1, <1>2, StaleCallsType, StaleJobsType DEF TypeOK
  <1>4. CallsAgree'
    BY <1>1, StaleCallsType DEF TypeOK, CallsAgree
  <1>5. FreshAgrees' /\ CopiesTrue'
    BY <1>1 DEF CopiesInv, TypeOK, JobRecords, StaleJobs, FreshAgrees, CopiesTrue
  <1>6. QED
    BY <1>1, <1>2, <1>3, <1>4, <1>5 DEF CopiesInv, VolumeInv, ReadyIsProvisioned, ClaimTrue

-----------------------------------------------------------------------------
(* Nocturne. *)

LEMMA WithClaimFacts ==
  ASSUME CopiesInv, NEW size \in Sizes, pvc' = WithClaim(size)
  PROVE  /\ pvc' \in ClaimRecords /\ pvc'.bound = pvc.bound /\ pvc'.phase # None
         /\ pvc.made > 1 => pvc'.made > 1
         /\ pvc.phase # None => pvc' = pvc
         /\ pvc'.phase = "Bound" => pvc.bound
         /\ ClaimTrue'
  <1>1. pvc \in ClaimRecords /\ pvc.made \in Nat /\ pvc.made + 1 \in Nat /\ ClaimTrue
    BY DEF CopiesInv, VolumeInv, TypeOK, ClaimRecords
  <1>2. CASE pvc.phase # None
    <2>1. pvc' = pvc
      BY <1>2 DEF WithClaim
    <2>2. ClaimTrue'
      BY <1>1, <2>1 DEF ClaimTrue
    <2>3. QED
      BY <1>1, <1>2, <2>1, <2>2 DEF ClaimTrue
  <1>3. CASE pvc.phase = None
    <2>1. pvc' = [pvc EXCEPT !.phase = "Pending", !.size = size, !.made = pvc.made + 1]
      BY <1>3 DEF WithClaim
    <2>2. pvc' \in ClaimRecords
      BY <1>1, <2>1 DEF ClaimRecords
    <2>3. pvc'.bound = pvc.bound /\ pvc'.phase = "Pending" /\ pvc'.made = pvc.made + 1
      BY <1>1, <2>1 DEF ClaimRecords
    <2>4. ClaimTrue'
      BY <1>1, <2>3 DEF ClaimTrue
    <2>5. QED
      BY <1>1, <1>3, <2>2, <2>3, <2>4 DEF None
  <1>4. QED
    BY <1>2, <1>3

\* A reconciliation that changes no more than its own copy, and may create the claim.
LEMMA ClaimingStep ==
  ASSUME CopiesInv, NEW t \in Reconcilers, NEW j \in JobRecords, NEW size \in Sizes,
         job' = [job EXCEPT ![t] = j], pvc' = pvc \/ pvc' = WithClaim(size),
         UNCHANGED <<vol, call, deleted, edits, losses, crashes>>,
         j.fresh => j.st = vol.st /\ j.ready = vol.ready /\ j.size = vol.size,
         j.ready \/ j.phase = "Bound" => pvc'.bound,
         j.pc = "create" => ~j.ready /\ j.st # "READY",
         j.pc = "grow" /\ j.current => pvc'.phase # None /\ pvc'.size < j.size,
         j.pc \in {"grow", "status"} => j.phase # None,
         j.ready /\ j.phase = "Pending" => pvc'.made > 1
  PROVE  CopiesInv'
  <1>1. /\ pvc' \in ClaimRecords /\ pvc'.bound = pvc.bound /\ ClaimTrue'
        /\ pvc.made > 1 => pvc'.made > 1
        /\ pvc.phase # None => pvc' = pvc
    <2>1. CASE pvc' = pvc
      BY <2>1 DEF CopiesInv, VolumeInv, TypeOK, ClaimTrue
    <2>2. CASE pvc' = WithClaim(size)
      BY <2>2, WithClaimFacts
    <2>3. QED
      BY <2>1, <2>2
  <1>2. TypeOK'
    BY <1>1 DEF CopiesInv, VolumeInv, TypeOK
  <1>3. job'[t] = j /\ \A u \in Reconcilers : u # t => job'[u] = job[u]
    BY DEF CopiesInv, VolumeInv, TypeOK
  <1>4. FreshAgrees'
    BY <1>3 DEF CopiesInv, FreshAgrees
  <1>5. CopiesTrue'
    BY <1>1, <1>3 DEF CopiesInv, CopiesTrue
  <1>6. QED
    BY <1>1, <1>2, <1>4, <1>5 DEF CopiesInv, VolumeInv, ReadyIsProvisioned, CallsAgree

LEMMA OwnCopyStep ==
  ASSUME CopiesInv, NEW t \in Reconcilers, NEW j \in JobRecords,
         job' = [job EXCEPT ![t] = j],
         UNCHANGED <<vol, pvc, call, deleted, edits, losses, crashes>>,
         j.fresh => j.st = vol.st /\ j.ready = vol.ready /\ j.size = vol.size,
         j.ready \/ j.phase = "Bound" => pvc.bound,
         j.pc = "create" => ~j.ready /\ j.st # "READY",
         j.pc = "grow" /\ j.current => pvc.phase # None /\ pvc.size < j.size,
         j.pc \in {"grow", "status"} => j.phase # None,
         j.ready /\ j.phase = "Pending" => pvc.made > 1
  PROVE  CopiesInv'
  <1>1. 0 \in Sizes
    BY VolumeAssumption DEF Sizes
  <1>2. QED
    BY <1>1, ClaimingStep

\* What holds of a copy.
LEMMA OwnCopy ==
  ASSUME CopiesInv, NEW t \in Reconcilers
  PROVE  /\ job[t] \in JobRecords /\ pvc \in ClaimRecords /\ vol \in VolumeRecords
         /\ job \in [Reconcilers -> JobRecords]
         /\ job[t].fresh => job[t].st = vol.st /\ job[t].ready = vol.ready /\ job[t].size = vol.size
         /\ job[t].ready \/ job[t].phase = "Bound" => pvc.bound
         /\ job[t].pc = "create" => ~job[t].ready /\ job[t].st # "READY"
         /\ job[t].pc \in {"grow", "status"} => job[t].phase # None
         /\ job[t].ready /\ job[t].phase = "Pending" => pvc.made > 1
         /\ ClaimTrue
  BY DEF CopiesInv, VolumeInv, TypeOK, FreshAgrees, CopiesTrue

\* A call that fails gives up the copy.
LEMMA CallFailsKeeps ==
  ASSUME CopiesInv, NEW t \in Reconcilers, CallFails(t)
  PROVE  CopiesInv'
  <1>1. /\ job' = [job EXCEPT ![t] = NoJob] /\ (pvc' = pvc \/ pvc' = WithClaim(job[t].size))
        /\ UNCHANGED <<vol, call, deleted, edits, losses, crashes>>
    BY DEF CallFails
  <1>2. job[t].size \in Sizes
    BY OwnCopy DEF JobRecords
  <1>3. /\ ~NoJob.fresh /\ ~NoJob.ready /\ NoJob.phase # "Bound" /\ NoJob.pc = "idle"
    BY DEF NoJob, None
  <1>4. QED
    BY <1>1, <1>2, <1>3, EmptyRecords, ClaimingStep

LEMMA TakeKeeps ==
  ASSUME CopiesInv, NEW t \in Reconcilers, Take(t)
  PROVE  CopiesInv'
  <1> DEFINE j == [pc |-> "get", st |-> vol.st, ready |-> vol.ready, size |-> vol.size,
                   phase |-> None, fresh |-> TRUE, current |-> FALSE]
  <1>1. vol \in VolumeRecords /\ (vol.ready => pvc.bound)
    BY DEF CopiesInv, VolumeInv, TypeOK, ReadyIsProvisioned
  <1>2. j \in JobRecords
    BY <1>1 DEF VolumeRecords, JobRecords
  <1>3. /\ j.st = vol.st /\ j.ready = vol.ready /\ j.size = vol.size
        /\ j.ready => pvc.bound
        /\ j.phase # "Bound" /\ j.phase # "Pending"
        /\ j.pc # "create" /\ j.pc # "grow" /\ j.pc # "status"
    BY <1>1 DEF None
  <1>4. job' = [job EXCEPT ![t] = j] /\ UNCHANGED <<vol, pvc, call, deleted, edits, losses, crashes>>
    BY DEF Take
  <1> HIDE DEF j
  <1>5. QED
    BY <1>2, <1>3, <1>4, OwnCopyStep

\* A claim that is missing is made only for a copy that says it was never bound
\* (volumeWasProvisioned), and grown only when it was seen too small.
LEMMA GetClaimKeeps ==
  ASSUME CopiesInv, NEW t \in Reconcilers, GetClaim(t)
  PROVE  CopiesInv'
  <1>1. UNCHANGED <<vol, pvc, call, deleted, edits, losses, crashes>>
    BY DEF GetClaim
  <1>2. CASE pvc.phase = None
    <2> DEFINE j == [job[t] EXCEPT !.pc = IF WasProvisioned(job[t]) THEN "fail" ELSE "create"]
    <2>1. job' = [job EXCEPT ![t] = j]
      BY <1>2 DEF GetClaim
    <2>2. j \in JobRecords
      BY OwnCopy DEF JobRecords
    <2>3. /\ j.fresh = job[t].fresh /\ j.st = job[t].st /\ j.ready = job[t].ready
          /\ j.size = job[t].size
          /\ j.phase = job[t].phase /\ j.pc # "grow" /\ j.pc # "status"
          /\ j.pc = "create" => ~WasProvisioned(job[t])
      BY OwnCopy DEF JobRecords
    <2> HIDE DEF j
    <2>4. QED
      BY <1>1, <2>1, <2>2, <2>3, OwnCopy, OwnCopyStep DEF WasProvisioned
  <1>3. CASE pvc.phase # None
    <2> DEFINE j == [job[t] EXCEPT !.pc = IF NeedsGrowth(t) THEN "grow" ELSE "status",
                                   !.phase = pvc.phase, !.current = TRUE]
    <2>1. job' = [job EXCEPT ![t] = j]
      BY <1>3 DEF GetClaim
    <2>2. j \in JobRecords
      BY OwnCopy DEF JobRecords, ClaimRecords
    <2>3. /\ j.fresh = job[t].fresh /\ j.st = job[t].st /\ j.ready = job[t].ready
          /\ j.phase = pvc.phase /\ j.size = job[t].size /\ j.pc # "create"
          /\ j.pc = "grow" => pvc.size < job[t].size
      BY OwnCopy DEF JobRecords, NeedsGrowth
    <2>4. /\ j.ready \/ j.phase = "Bound" => pvc.bound
          /\ j.ready /\ j.phase = "Pending" => pvc.made > 1
      BY <2>3, OwnCopy DEF ClaimTrue
    <2> HIDE DEF j
    <2>5. QED
      BY <1>1, <1>3, <2>1, <2>2, <2>3, <2>4, OwnCopy, OwnCopyStep
  <1>4. QED
    BY <1>2, <1>3

LEMMA CreateClaimKeeps ==
  ASSUME CopiesInv, NEW t \in Reconcilers, CreateClaim(t)
  PROVE  CopiesInv'
  <1> DEFINE j == [job[t] EXCEPT !.pc = "status", !.phase = pvc'.phase]
  <1>1. /\ job[t].pc = "create" /\ pvc' = WithClaim(job[t].size)
        /\ UNCHANGED <<vol, call, deleted, edits, losses, crashes>>
    BY DEF CreateClaim
  <1>2. job[t].size \in Sizes
    BY OwnCopy DEF JobRecords
  <1>3. job' = [job EXCEPT ![t] = j]
    BY OwnCopy DEF CreateClaim, JobRecords
  <1>4. pvc' \in ClaimRecords /\ pvc'.bound = pvc.bound /\ pvc'.phase # None
        /\ (pvc'.phase = "Bound" => pvc.bound)
    BY <1>1, <1>2, WithClaimFacts
  <1>5. j \in JobRecords
    BY <1>4, OwnCopy DEF JobRecords, ClaimRecords
  <1>6. /\ j.fresh = job[t].fresh /\ j.st = job[t].st /\ ~j.ready /\ j.ready = job[t].ready
        /\ j.size = job[t].size /\ j.phase = pvc'.phase /\ j.pc = "status"
    BY <1>1, OwnCopy DEF JobRecords
  <1> HIDE DEF j
  <1>7. QED
    BY <1>1, <1>2, <1>3, <1>4, <1>5, <1>6, OwnCopy, ClaimingStep

\* The reconciliation goes on with a claim that it could not grow.
LEMMA UngrownStep ==
  ASSUME CopiesInv, NEW t \in Reconcilers, job[t].pc = "grow",
         job' = [job EXCEPT ![t].pc = "status"],
         UNCHANGED <<vol, pvc, call, deleted, edits, losses, crashes>>
  PROVE  CopiesInv'
  <1> DEFINE j == [job[t] EXCEPT !.pc = "status"]
  <1>1. job' = [job EXCEPT ![t] = j]
    BY OwnCopy
  <1>2. j \in JobRecords
    BY OwnCopy DEF JobRecords
  <1>3. /\ j.fresh = job[t].fresh /\ j.st = job[t].st /\ j.ready = job[t].ready
        /\ j.size = job[t].size /\ j.phase = job[t].phase /\ j.pc = "status"
    BY OwnCopy DEF JobRecords
  <1>4. /\ j.fresh => j.st = vol.st /\ j.ready = vol.ready /\ j.size = vol.size
        /\ j.ready \/ j.phase = "Bound" => pvc.bound
        /\ j.ready /\ j.phase = "Pending" => pvc.made > 1
        /\ j.phase # None
    BY <1>3, OwnCopy
  <1> HIDE DEF j
  <1>5. QED
    BY <1>1, <1>2, <1>3, <1>4, OwnCopyStep

\* A growth makes the other copies of the claim old.
LEMMA GrowClaimKeeps ==
  ASSUME CopiesInv, NEW t \in Reconcilers, GrowClaim(t)
  PROVE  CopiesInv'
  <1>1. /\ TypeOK /\ job \in [Reconcilers -> JobRecords] /\ pvc \in ClaimRecords
        /\ UNCHANGED <<vol, call, deleted, edits, losses, crashes>>
    BY DEF CopiesInv, VolumeInv, TypeOK, GrowClaim
  <1>2. CASE MayGrow(t)
    <2>1. /\ job' = [StaleClaims(job) EXCEPT ![t].pc = "status"]
          /\ pvc' = [pvc EXCEPT !.size = job[t].size]
      BY <1>2 DEF GrowClaim
    <2>2. /\ pvc' \in ClaimRecords /\ pvc'.bound = pvc.bound /\ pvc'.phase = pvc.phase
          /\ pvc'.made = pvc.made
      BY <1>1, <2>1 DEF JobRecords, ClaimRecords
    <2>3. job' \in [Reconcilers -> JobRecords]
      <3>1. \A r \in JobRecords : [r EXCEPT !.pc = "status"] \in JobRecords
        BY DEF JobRecords
      <3>2. QED
        BY <1>1, <2>1, <3>1, StaleJobsType
    <2>4. TypeOK'
      BY <1>1, <2>2, <2>3 DEF TypeOK
    <2>5. \A u \in Reconcilers :
            /\ job'[u].fresh = job[u].fresh /\ job'[u].st = job[u].st /\ job'[u].ready = job[u].ready
            /\ job'[u].size = job[u].size /\ job'[u].phase = job[u].phase /\ ~job'[u].current
            /\ job'[u].pc = IF u = t THEN "status" ELSE job[u].pc
      BY <1>1, <2>1 DEF StaleClaims, JobRecords
    <2>6. FreshAgrees'
      BY <1>1, <2>5 DEF CopiesInv, FreshAgrees
    <2>7. job[t].pc = "grow"
      BY DEF GrowClaim
    <2>8. CopiesTrue' /\ ClaimTrue'
      BY <1>1, <2>2, <2>5, <2>7 DEF CopiesInv, CopiesTrue, ClaimTrue
    <2>9. QED
      BY <1>1, <2>2, <2>4, <2>6, <2>8 DEF CopiesInv, VolumeInv, ReadyIsProvisioned, CallsAgree
  <1>3. CASE ~MayGrow(t)
    <2>1. job' = [job EXCEPT ![t].pc = "status"] /\ pvc' = pvc
      BY <1>3 DEF GrowClaim
    <2>2. QED
      BY <1>1, <2>1, UngrownStep DEF GrowClaim
  <1>4. QED
    BY <1>2, <1>3

\* The record is written only by a copy that is fresh, with ReadyAt kept or added:
\* what is added was seen on a claim that was bound (setVolumeStatus).
LEMMA WriteKeeps ==
  ASSUME CopiesInv, NEW t \in Reconcilers, NEW st \in {"PENDING", "READY", "FAILED"},
         st = "READY" => pvc.bound,
         Write(t, st), UNCHANGED <<pvc, deleted, edits, losses, crashes>>
  PROVE  CopiesInv'
  <1> DEFINE ready == job[t].ready \/ st = "READY"
  <1>1. /\ TypeOK /\ job[t] \in JobRecords /\ job \in [Reconcilers -> JobRecords]
        /\ call \in [Callers -> CallRecords] /\ vol \in VolumeRecords
    BY DEF CopiesInv, VolumeInv, TypeOK
  <1>2. ready \in BOOLEAN /\ (ready => pvc.bound) /\ (st = "READY" => ready)
    BY <1>1 DEF CopiesInv, CopiesTrue, JobRecords
  <1> HIDE DEF ready
  <1>3. CASE Writes(t, st)
    <2>1. /\ vol' = [vol EXCEPT !.st = st, !.ready = ready, !.size = job[t].size]
          /\ call' = StaleCalls
          /\ job' = [StaleJobs(job) EXCEPT ![t] = NoJob]
      BY <1>3 DEF Write, Written, ready
    <2>2. vol' \in VolumeRecords
      BY <1>1, <1>2, <2>1 DEF VolumeRecords, JobRecords
    <2>3. vol'.st = st /\ vol'.ready = ready
      BY <1>1, <2>1 DEF VolumeRecords
    <2>4. TypeOK'
      BY <1>1, <2>1, <2>2, EmptyRecords, StaleCallsType, StaleJobsType DEF TypeOK
    <2>5. CallsAgree'
      BY <1>1, <2>1, StaleCallsType DEF CallsAgree
    <2>6. FreshAgrees'
      BY <1>1, <2>1 DEF FreshAgrees, StaleJobs, JobRecords, NoJob
    <2>7. CopiesTrue'
      BY <1>1, <2>1 DEF CopiesInv, CopiesTrue, StaleJobs, JobRecords, NoJob, None
    <2>8. ReadyIsProvisioned'
      BY <1>2, <2>3 DEF ReadyIsProvisioned
    <2>9. QED
      BY <2>4, <2>5, <2>6, <2>7, <2>8 DEF CopiesInv, VolumeInv, ClaimTrue
  <1>4. CASE ~Writes(t, st)
    <2>1. job' = [job EXCEPT ![t] = NoJob] /\ UNCHANGED <<vol, call>>
      BY <1>4 DEF Write
    <2>2. /\ ~NoJob.fresh /\ ~NoJob.ready /\ NoJob.phase # "Bound" /\ NoJob.pc = "idle"
      BY DEF NoJob, None
    <2>3. QED
      BY <1>1, <2>1, <2>2, EmptyRecords, OwnCopyStep
  <1>5. QED
    BY <1>3, <1>4

LEMMA ReconcileKeeps ==
  ASSUME CopiesInv, NEW t \in Reconcilers, Reconcile(t)
  PROVE  CopiesInv'
  <1>1. CASE SetStatus(t)
    <2>1. StateOf(job[t].phase) \in {"PENDING", "READY", "FAILED"}
      BY DEF StateOf
    <2>2. StateOf(job[t].phase) = "READY" => pvc.bound
      BY DEF StateOf, CopiesInv, CopiesTrue
    <2>3. QED
      BY <1>1, <2>1, <2>2, WriteKeeps DEF SetStatus
  <1>2. CASE SetFailure(t)
    BY <1>2, WriteKeeps DEF SetFailure
  <1>3. QED
    BY <1>1, <1>2, TakeKeeps, GetClaimKeeps, CreateClaimKeeps, GrowClaimKeeps, UngrownStep,
       CallFailsKeeps DEF Reconcile, GrowthRefused

-----------------------------------------------------------------------------
(* The claim goes its way, and Nocturne crashes. *)

\* The copies of a claim that changes are no longer current; that it was bound stays.
LEMMA ClaimChangeKeeps ==
  ASSUME CopiesInv, pvc' \in ClaimRecords, pvc.bound => pvc'.bound, pvc'.made = pvc.made,
         ClaimTrue', job' = StaleClaims(job),
         UNCHANGED <<vol, call, edits, crashes>>, deleted' \in BOOLEAN, losses' \in 0..MaxLosses
  PROVE  CopiesInv'
  <1>1. TypeOK /\ job \in [Reconcilers -> JobRecords]
    BY DEF CopiesInv, VolumeInv, TypeOK
  <1>2. TypeOK'
    BY <1>1, StaleJobsType DEF TypeOK
  <1>3. \A u \in Reconcilers :
          /\ job'[u].fresh = job[u].fresh /\ job'[u].st = job[u].st /\ job'[u].ready = job[u].ready
          /\ job'[u].size = job[u].size /\ job'[u].phase = job[u].phase /\ ~job'[u].current
          /\ job'[u].pc = job[u].pc
    BY <1>1 DEF StaleClaims, JobRecords
  <1>4. FreshAgrees' /\ CopiesTrue'
    BY <1>3 DEF CopiesInv, FreshAgrees, CopiesTrue
  <1>5. QED
    BY <1>2, <1>4 DEF CopiesInv, VolumeInv, ReadyIsProvisioned, CallsAgree

LEMMA BackendKeeps ==
  ASSUME CopiesInv, OnDeleteVolume \/ Bind \/ Lose("Lost") \/ Lose(None) \/ RemoveLost
  PROVE  CopiesInv'
  <1>1. /\ pvc \in ClaimRecords /\ deleted \in BOOLEAN /\ losses \in 0..MaxLosses /\ ClaimTrue
        /\ 0 \in Sizes /\ MaxLosses \in Nat
    BY VolumeAssumption DEF CopiesInv, VolumeInv, TypeOK, Sizes
  <1>2. ASSUME NEW phase \in {None, "Lost"}, NEW size \in Sizes,
               pvc' = [pvc EXCEPT !.phase = phase, !.size = size]
        PROVE  /\ pvc' \in ClaimRecords /\ pvc'.bound = pvc.bound /\ pvc'.made = pvc.made
               /\ pvc.phase # None => ClaimTrue'
               /\ phase = None => ClaimTrue'
    <2>1. /\ pvc' \in ClaimRecords /\ pvc'.bound = pvc.bound /\ pvc'.made = pvc.made
          /\ pvc'.phase = phase
      BY <1>1, <1>2 DEF ClaimRecords
    <2>2. phase # "Bound" /\ phase # "Pending"
      BY DEF None
    <2>3. QED
      BY <1>1, <2>1, <2>2 DEF ClaimTrue
  <1>3. CASE OnDeleteVolume
    <2>1. UNCHANGED <<vol, call, edits, losses, crashes>> /\ deleted' = FALSE
      BY <1>3 DEF OnDeleteVolume
    <2>2. CASE pvc' = [pvc EXCEPT !.phase = None, !.size = 0] /\ job' = StaleClaims(job)
      BY <1>1, <1>2, <2>1, <2>2, ClaimChangeKeeps
    <2>3. CASE UNCHANGED <<pvc, job>>
      <3>1. TypeOK'
        BY <2>1, <2>3 DEF CopiesInv, VolumeInv, TypeOK
      <3>2. QED
        BY <2>1, <2>3, <3>1 DEF CopiesInv, VolumeInv, ReadyIsProvisioned, CallsAgree, FreshAgrees,
           CopiesTrue, ClaimTrue
    <2>4. QED
      BY <1>3, <2>2, <2>3 DEF OnDeleteVolume
  <1>4. CASE Bind
    <2>1. /\ pvc.phase = "Pending" /\ pvc' = [pvc EXCEPT !.phase = "Bound", !.bound = TRUE]
          /\ job' = StaleClaims(job) /\ UNCHANGED <<vol, call, deleted, edits, losses, crashes>>
      BY <1>4 DEF Bind
    <2>2. /\ pvc' \in ClaimRecords /\ pvc'.bound /\ pvc'.made = pvc.made /\ pvc'.phase = "Bound"
      BY <1>1, <2>1 DEF ClaimRecords
    <2>3. pvc.made > 0
      BY <1>1, <2>1 DEF ClaimTrue, None
    <2>4. ClaimTrue'
      BY <2>2, <2>3 DEF ClaimTrue
    <2>5. QED
      BY <1>1, <2>1, <2>2, <2>4, ClaimChangeKeeps
  <1>5. ASSUME NEW phase \in {"Lost", None}, Lose(phase)
        PROVE  CopiesInv'
    <2>1. /\ losses' \in 0..MaxLosses /\ UNCHANGED <<vol, call, deleted, edits, crashes>>
          /\ job' = StaleClaims(job) /\ pvc.phase = "Bound"
      BY <1>1, <1>5 DEF Lose
    <2>2. PICK size \in Sizes : pvc' = [pvc EXCEPT !.phase = phase, !.size = size]
      BY <1>1, <1>5 DEF Lose, ClaimRecords
    <2>3. pvc.phase # None
      BY <2>1 DEF None
    <2>4. QED
      BY <1>1, <1>2, <2>1, <2>2, <2>3, ClaimChangeKeeps
  <1>6. CASE RemoveLost
    BY <1>1, <1>2, <1>6, ClaimChangeKeeps DEF RemoveLost
  <1>7. QED
    BY <1>3, <1>4, <1>5, <1>6

LEMMA CrashKeeps ==
  ASSUME CopiesInv, Crash
  PROVE  CopiesInv'
  <1>1. /\ TypeOK /\ job' = [t \in Reconcilers |-> NoJob] /\ deleted' = FALSE
        /\ UNCHANGED <<vol, pvc, call, edits, losses>>
    BY DEF Crash, CopiesInv, VolumeInv
  <1>2. crashes' \in 0..MaxCrashes
    BY <1>1, VolumeAssumption DEF Crash, TypeOK
  <1>3. TypeOK'
    BY <1>1, <1>2, EmptyRecords DEF TypeOK
  <1>4. FreshAgrees' /\ CopiesTrue'
    BY <1>1 DEF FreshAgrees, CopiesTrue, NoJob, None
  <1>5. QED
    BY <1>1, <1>3, <1>4 DEF CopiesInv, VolumeInv, ReadyIsProvisioned, CallsAgree, ClaimTrue

LEMMA NextCopies == CopiesInv /\ [Next]_vars => CopiesInv'
  <1> SUFFICES ASSUME CopiesInv, [Next]_vars PROVE CopiesInv'
    OBVIOUS
  <1>1. CASE UNCHANGED vars
    BY <1>1 DEF vars, CopiesInv, VolumeInv, TypeOK, ReadyIsProvisioned, CallsAgree, FreshAgrees,
       CopiesTrue, ClaimTrue
  <1>2. CASE Next
    BY <1>2, UpdateKeeps, UpdateSaveKeeps, DeleteKeeps, ReconcileKeeps, BackendKeeps, CrashKeeps DEF Next
  <1>3. QED
    BY <1>1, <1>2

-----------------------------------------------------------------------------
\* Every copy that a request or a reconciliation of Nocturne still uses agrees with
\* what it may overwrite (reconcileVolume, UpdateVolume).
THEOREM CopiesCorrect == Spec => []CopiesInv
  <1>1. QED
    BY InitCopies, NextCopies, PTL DEF Spec

\* READY implies ReadyAt, and ReadyAt that storage was bound, for any number of
\* overlapping reconciliations (setVolumeStatus).
THEOREM VolumeCorrect == Spec => []VolumeInv
  <1>1. CopiesInv => VolumeInv
    BY DEF CopiesInv
  <1>2. QED
    BY <1>1, CopiesCorrect, PTL

\* A write of Nocturne keeps the size and ReadyAt, and the copy agrees with the record.
LEMMA WriteStep ==
  ASSUME CopiesInv, NEW t \in Reconcilers, NEW st, Write(t, st)
  PROVE  \/ vol' = vol
         \/ /\ vol'.size = vol.size /\ vol'.st = st /\ (vol.ready => vol'.ready)
            /\ vol.ready => job[t].ready
  <1>1. CASE Writes(t, st)
    <2>1. vol' = [vol EXCEPT !.st = st, !.ready = job[t].ready \/ st = "READY", !.size = job[t].size]
      BY <1>1 DEF Write, Written
    <2>2. job[t].ready = vol.ready /\ job[t].size = vol.size
      BY <1>1, OwnCopy DEF Writes, MayWrite
    <2>3. QED
      BY <2>1, <2>2, OwnCopy DEF VolumeRecords
  <1>2. CASE ~Writes(t, st)
    BY <1>2 DEF Write
  <1>3. QED
    BY <1>1, <1>2

\* A claim that is made replaces none.
LEMMA ClaimMade ==
  ASSUME CopiesInv, NEW t \in Reconcilers, pvc' = WithClaim(job[t].size)
  PROVE  pvc' = pvc \/ pvc.phase = None
  BY DEF WithClaim

\* Neither the Volume nor its claim ever shrinks (UpdateVolume,
\* setVolumePersistentVolumeClaimSize).
THEOREM GrowsOnly == Spec => OnlyGrows
  <1> DEFINE Grows == /\ vol'.size >= vol.size
                      /\ (pvc.phase # None /\ pvc'.phase # None) => pvc'.size >= pvc.size
  <1>1. ASSUME CopiesInv, [Next]_vars
        PROVE  [Grows]_vars
    <2>1. /\ vol \in VolumeRecords /\ pvc \in ClaimRecords /\ vol.size \in Nat /\ pvc.size \in Nat
          /\ job \in [Reconcilers -> JobRecords] /\ call \in [Callers -> CallRecords]
      BY <1>1, VolumeAssumption DEF CopiesInv, VolumeInv, TypeOK, VolumeRecords, ClaimRecords, Sizes
    <2>2. ASSUME NEW c \in Callers, UpdateSave(c) PROVE Grows
      BY <1>1, <2>1, <2>2 DEF UpdateSave, CopiesInv, CallsAgree, VolumeRecords
    <2>3. CASE DeleteVolume
      BY <2>1, <2>3 DEF DeleteVolume, VolumeRecords
    <2>4. ASSUME NEW t \in Reconcilers, CreateClaim(t) \/ CallFails(t) PROVE Grows
      <3>1. UNCHANGED vol /\ (pvc' = pvc \/ pvc.phase = None)
        BY <1>1, <2>4, ClaimMade DEF CreateClaim, CallFails
      <3>2. QED
        BY <2>1, <3>1
    <2>5. ASSUME NEW t \in Reconcilers, GrowClaim(t) PROVE Grows
      <3>1. /\ UNCHANGED vol /\ job[t].size \in Nat
            /\ pvc' = pvc \/ (pvc' = [pvc EXCEPT !.size = job[t].size] /\ pvc.size < job[t].size)
        BY <1>1, <2>1, <2>5, VolumeAssumption
           DEF GrowClaim, MayGrow, CopiesInv, CopiesTrue, JobRecords, Sizes
      <3>2. QED
        BY <2>1, <3>1 DEF ClaimRecords
    <2>6. ASSUME NEW t \in Reconcilers, NEW st, Write(t, st), UNCHANGED pvc PROVE Grows
      <3>1. vol'.size = vol.size
        BY <1>1, <2>6, WriteStep
      <3>2. QED
        BY <2>1, <2>6, <3>1
    <2>7. CASE OnDeleteVolume \/ Bind \/ Lose("Lost") \/ Lose(None) \/ RemoveLost
      <3>1. UNCHANGED vol
        BY <2>7 DEF OnDeleteVolume, Bind, Lose, RemoveLost
      <3>2. pvc'.phase = None \/ pvc'.size = pvc.size
        BY <2>1, <2>7 DEF OnDeleteVolume, Bind, Lose, RemoveLost, ClaimRecords, None
      <3>3. QED
        BY <2>1, <3>1, <3>2
    <2>8. CASE Crash
      BY <2>1, <2>8 DEF Crash
    <2>9. ASSUME NEW c \in Callers, NEW size, UpdateVolume(c, size) PROVE Grows
      BY <2>1, <2>9 DEF UpdateVolume
    <2>10. ASSUME NEW t \in Reconcilers, Take(t) \/ GetClaim(t) \/ GrowthRefused(t) PROVE Grows
      BY <2>1, <2>10 DEF Take, GetClaim, GrowthRefused
    <2> HIDE DEF Grows
    <2>11. ASSUME NEW t \in Reconcilers, Reconcile(t) PROVE Grows
      BY <2>4, <2>5, <2>6, <2>10, <2>11 DEF Reconcile, SetStatus, SetFailure
    <2>12. QED
      BY <1>1, <2>2, <2>3, <2>7, <2>8, <2>9, <2>11 DEF Next
  <1>2. QED
    BY <1>1, CopiesCorrect, PTL DEF Spec, OnlyGrows

\* A Volume that was READY keeps its ReadyAt; it is PENDING again only when its claim was
\* replaced, and gets a new, empty claim only from a reconciliation whose copy is older
\* than ReadyAt (volumeWasProvisioned, UpdateVolume).
THEOREM ReprovisionedNever == Spec => NeverReprovisioned
  <1> DEFINE Kept == ReadyAtIsKept /\ ReadyIsKept /\ ClaimIsKept
  <1>1. ASSUME CopiesInv, [Next]_vars
        PROVE  [Kept]_vars
    <2>1. /\ pvc \in ClaimRecords /\ pvc.made \in Nat /\ vol \in VolumeRecords
          /\ job \in [Reconcilers -> JobRecords] /\ (vol.st = "READY" => vol.ready)
      BY <1>1 DEF CopiesInv, VolumeInv, TypeOK, ClaimRecords, ReadyIsProvisioned
    <2>2. ASSUME UNCHANGED vol, pvc'.made = pvc.made PROVE Kept
      BY <2>1, <2>2 DEF ReadyAtIsKept, ReadyIsKept, ClaimIsKept
    <2>3. ASSUME NEW t \in Reconcilers, CreateClaim(t) PROVE Kept
      <3>1. job[t].pc = "create" /\ job'[t].pc = "status" /\ UNCHANGED vol
        BY <2>1, <2>3 DEF CreateClaim, JobRecords
      <3>2. vol.ready => ~job[t].fresh
        BY <1>1, <3>1, OwnCopy
      <3>3. QED
        BY <3>1, <3>2 DEF ReadyAtIsKept, ReadyIsKept, ClaimIsKept
    <2>4. ASSUME NEW t \in Reconcilers, CallFails(t) PROVE Kept
      <3>1. CASE pvc' = pvc
        BY <2>2, <2>4, <3>1 DEF CallFails
      <3>2. CASE pvc' # pvc
        <4>1. job[t].pc = "create" /\ job'[t].pc = "idle" /\ UNCHANGED vol
          BY <2>1, <2>4, <3>2 DEF CallFails, NoJob
        <4>2. vol.ready => ~job[t].fresh
          BY <1>1, <4>1, OwnCopy
        <4>3. QED
          BY <4>1, <4>2 DEF ReadyAtIsKept, ReadyIsKept, ClaimIsKept
      <3>3. QED
        BY <3>1, <3>2
    <2>5. ASSUME NEW t \in Reconcilers, GrowClaim(t) \/ GrowthRefused(t) PROVE Kept
      BY <2>1, <2>2, <2>5 DEF GrowClaim, GrowthRefused, ClaimRecords
    <2>6. ASSUME NEW t \in Reconcilers, SetStatus(t) PROVE Kept
      <3>1. Write(t, StateOf(job[t].phase)) /\ UNCHANGED pvc /\ job[t].pc = "status"
        BY <2>6 DEF SetStatus
      <3>2. job[t].ready /\ StateOf(job[t].phase) = "PENDING" => pvc.made > 1
        BY <1>1, <3>1, OwnCopy DEF StateOf, JobRecords
      <3>3. ReadyAtIsKept /\ ReadyIsKept
        BY <1>1, <2>1, <3>1, <3>2, WriteStep DEF ReadyAtIsKept, ReadyIsKept
      <3>4. QED
        BY <2>1, <3>1, <3>3 DEF ClaimIsKept
    <2>7. ASSUME NEW t \in Reconcilers, SetFailure(t) PROVE Kept
      <3>1. Write(t, "FAILED") /\ UNCHANGED pvc
        BY <2>7 DEF SetFailure
      <3>2. ReadyAtIsKept /\ ReadyIsKept
        BY <1>1, <3>1, WriteStep DEF ReadyAtIsKept, ReadyIsKept
      <3>3. QED
        BY <2>1, <3>1, <3>2 DEF ClaimIsKept
    <2>8. CASE OnDeleteVolume \/ Bind \/ Lose("Lost") \/ Lose(None) \/ RemoveLost
      BY <2>1, <2>2, <2>8 DEF OnDeleteVolume, Bind, Lose, RemoveLost, ClaimRecords
    <2>9. ASSUME NEW c \in Callers, UpdateSave(c) PROVE Kept
      <3>1. vol'.ready = vol.ready /\ vol'.st = vol.st /\ UNCHANGED pvc
        BY <2>1, <2>9 DEF UpdateSave, VolumeRecords
      <3>2. QED
        BY <2>1, <3>1 DEF ReadyAtIsKept, ReadyIsKept, ClaimIsKept
    <2>10. CASE DeleteVolume
      <3>1. vol'.ready = vol.ready /\ vol'.st = vol.st /\ UNCHANGED pvc
        BY <2>1, <2>10 DEF DeleteVolume, VolumeRecords
      <3>2. QED
        BY <2>1, <3>1 DEF ReadyAtIsKept, ReadyIsKept, ClaimIsKept
    <2> HIDE DEF Kept
    <2>11. ASSUME NEW t \in Reconcilers, Reconcile(t) PROVE Kept
      BY <2>2, <2>3, <2>4, <2>5, <2>6, <2>7, <2>11 DEF Reconcile, Take, GetClaim
    <2>12. QED
      BY <1>1, <2>2, <2>8, <2>9, <2>10, <2>11 DEF Next, UpdateVolume, Crash
  <1>2. QED
    BY <1>1, CopiesCorrect, PTL DEF Spec, NeverReprovisioned
=============================================================================
