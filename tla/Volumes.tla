------------------------------ MODULE Volumes -------------------------------
(***************************************************************************)
(* One Volume: its record, which the API server creates, grows and         *)
(* deletes, Nocturne's reconciliation, which runs in the handlers of the   *)
(* watch and in the storage loop at the same time, and the                 *)
(* PersistentVolumeClaim that holds the data.                              *)
(*                                                                         *)
(* The record is written under the version that was read: "fresh" says     *)
(* that nobody has written it since.  The claim is named after the UID of  *)
(* the Volume, so no other Volume uses it.  Any call of a reconciliation    *)
(* may fail, and a backend may refuse to grow a claim.                     *)
(***************************************************************************)
EXTENDS Naturals

CONSTANTS
  Callers,      \* UpdateVolume requests at the same time
  Reconcilers,  \* reconciliations at the same time; the storage loop is one
  MaxSize,      \* bound: sizes of the Volume
  MaxEdits,     \* bound: updates that leave the size alone
  MaxLosses,    \* bound: the backend loses the data, or someone removes the claim
  MaxCrashes    \* bound: crashes of Nocturne

ASSUME VolumeAssumption ==
  /\ MaxSize \in Nat \ {0} /\ MaxEdits \in Nat /\ MaxLosses \in Nat /\ MaxCrashes \in Nat

VARIABLES
  vol,      \* the record
  pvc,      \* the claim; "made" and "bound": claims made so far, one was bound
  call,     \* the requests in the API server
  job,      \* the reconciliations
  deleted,  \* Nocturne has still to handle the deletion
  edits, losses, crashes

vars == <<vol, pvc, call, job, deleted, edits, losses, crashes>>

None == "none"
NoCall == [pc |-> "idle", size |-> 0, fresh |-> FALSE]
NoJob == [pc |-> "idle", st |-> None, ready |-> FALSE, size |-> 0, phase |-> None,
          fresh |-> FALSE, current |-> FALSE]

\* CreateVolume has created the record.
Init ==
  /\ vol = [exists |-> TRUE, st |-> "PENDING", ready |-> FALSE, size |-> 1]
  /\ pvc = [phase |-> None, size |-> 0, made |-> 0, bound |-> FALSE]
  /\ call = [c \in Callers |-> NoCall]
  /\ job = [t \in Reconcilers |-> NoJob]
  /\ deleted = FALSE
  /\ edits = 0 /\ losses = 0 /\ crashes = 0

\* What a write of the record, or of the claim, makes out of date.
StaleCalls == [c \in Callers |-> [call[c] EXCEPT !.fresh = FALSE]]
StaleJobs(jobs) == [t \in Reconcilers |-> [jobs[t] EXCEPT !.fresh = FALSE]]
StaleClaims(jobs) == [t \in Reconcilers |-> [jobs[t] EXCEPT !.current = FALSE]]

-----------------------------------------------------------------------------
(* The API server. *)

\* UpdateVolume reads the Volume; a smaller size is refused.
MayResize(size) == size >= vol.size
UpdateVolume(c, size) ==
  /\ call[c].pc = "idle" /\ vol.exists /\ MayResize(size)
  /\ IF size = vol.size THEN edits < MaxEdits /\ edits' = edits + 1 ELSE UNCHANGED edits
  /\ call' = [call EXCEPT ![c] = [pc |-> "save", size |-> size, fresh |-> TRUE]]
  /\ UNCHANGED <<vol, pvc, job, deleted, losses, crashes>>

UpdateSave(c) ==
  /\ call[c].pc = "save"
  /\ IF call[c].fresh /\ vol.exists
     THEN /\ vol' = [vol EXCEPT !.size = call[c].size]
          /\ call' = [StaleCalls EXCEPT ![c] = NoCall]
          /\ job' = StaleJobs(job)
     ELSE /\ call' = [call EXCEPT ![c] = NoCall]
          /\ UNCHANGED <<vol, job>>
  /\ UNCHANGED <<pvc, deleted, edits, losses, crashes>>

\* The end of DeleteVolume (StartAdmission has the check of the mounts).
DeleteVolume ==
  /\ vol.exists
  /\ vol' = [vol EXCEPT !.exists = FALSE]
  /\ deleted' = TRUE
  /\ call' = StaleCalls /\ job' = StaleJobs(job)
  /\ UNCHANGED <<pvc, edits, losses, crashes>>

-----------------------------------------------------------------------------
(* Nocturne: reconcileVolume. *)

\* The handler of an event, or the loop, takes a copy of the record.
Take(t) ==
  /\ job[t].pc = "idle" /\ vol.exists
  /\ job' = [job EXCEPT ![t] = [pc |-> "get", st |-> vol.st, ready |-> vol.ready, size |-> vol.size,
                                  phase |-> None, fresh |-> TRUE, current |-> FALSE]]
  /\ UNCHANGED <<vol, pvc, call, deleted, edits, losses, crashes>>

\* volumeWasProvisioned.  (Variant: ReadyAt is not looked at.)
WasProvisionedNow(j) == j.st = "READY"
WasProvisioned(j) == j.ready \/ j.st = "READY"

NeedsGrowth(t) == pvc.size < job[t].size

GetClaim(t) ==
  /\ job[t].pc = "get"
  /\ job' = [job EXCEPT ![t] =
       IF pvc.phase = None
       THEN [@ EXCEPT !.pc = IF WasProvisioned(job[t]) THEN "fail" ELSE "create"]
       ELSE [@ EXCEPT !.pc = IF NeedsGrowth(t) THEN "grow" ELSE "status",
                      !.phase = pvc.phase, !.current = TRUE]]
  /\ UNCHANGED <<vol, pvc, call, deleted, edits, losses, crashes>>

\* One that has been created by then is taken as it is.
WithClaim(size) ==
  IF pvc.phase = None THEN [pvc EXCEPT !.phase = "Pending", !.size = size, !.made = @ + 1]
                      ELSE pvc

CreateClaim(t) ==
  /\ job[t].pc = "create"
  /\ pvc' = WithClaim(job[t].size)
  /\ job' = [job EXCEPT ![t].pc = "status", ![t].phase = pvc'.phase]
  /\ UNCHANGED <<vol, call, deleted, edits, losses, crashes>>

\* setVolumePersistentVolumeClaimSize updates the claim under its version; an
\* error is only logged.  (Variant: whatever the version.)
MayGrowAlways(t) == pvc.phase # None
MayGrow(t) == job[t].current
GrowClaim(t) ==
  /\ job[t].pc = "grow"
  /\ IF MayGrow(t)
     THEN /\ pvc' = [pvc EXCEPT !.size = job[t].size]
          /\ job' = [StaleClaims(job) EXCEPT ![t].pc = "status"]
     ELSE /\ job' = [job EXCEPT ![t].pc = "status"]
          /\ UNCHANGED pvc
  /\ UNCHANGED <<vol, call, deleted, edits, losses, crashes>>

\* The Update fails: the backend most probably does not support it.
GrowthRefused(t) ==
  /\ job[t].pc = "grow" /\ MayGrow(t)
  /\ job' = [job EXCEPT ![t].pc = "status"]
  /\ UNCHANGED <<vol, pvc, call, deleted, edits, losses, crashes>>

\* setVolumeStatus.  (Variants: a claim that waits is ready; a lost claim waits like
\* a new one.)
StateOfEager(phase) == IF phase = "Lost" THEN "FAILED" ELSE "READY"
StateOfUnlost(phase) == IF phase = "Bound" THEN "READY" ELSE "PENDING"
StateOf(phase) ==
  CASE phase = "Bound" -> "READY"
    [] phase = "Lost" -> "FAILED"
    [] OTHER -> "PENDING"

\* UpdateVolume of the copy, if it changes anything and under its version.  (Variant:
\* whatever the version.)
MayWriteAlways(t) == vol.exists
MayWrite(t) == vol.exists /\ job[t].fresh

Written(t, st) == [vol EXCEPT !.st = st, !.ready = job[t].ready \/ st = "READY", !.size = job[t].size]
Writes(t, st) ==
  MayWrite(t) /\ <<st, job[t].ready \/ st = "READY">> # <<job[t].st, job[t].ready>>

Write(t, st) ==
  IF Writes(t, st)
  THEN /\ vol' = Written(t, st)
       /\ call' = StaleCalls
       /\ job' = [StaleJobs(job) EXCEPT ![t] = NoJob]
  ELSE /\ job' = [job EXCEPT ![t] = NoJob]
       /\ UNCHANGED <<vol, call>>

SetStatus(t) ==
  /\ job[t].pc = "status"
  /\ Write(t, StateOf(job[t].phase))
  /\ UNCHANGED <<pvc, deleted, edits, losses, crashes>>

\* setVolumeFailure: the claim of a provisioned Volume is gone.
SetFailure(t) ==
  /\ job[t].pc = "fail"
  /\ Write(t, "FAILED")
  /\ UNCHANGED <<pvc, deleted, edits, losses, crashes>>

\* Another call fails, or its answer is lost: the error is only logged.
CallFails(t) ==
  /\ \/ job[t].pc \in {"get", "create"}
     \/ job[t].pc = "status" /\ Writes(t, StateOf(job[t].phase))
     \/ job[t].pc = "fail" /\ Writes(t, "FAILED")
  /\ pvc' = pvc \/ (job[t].pc = "create" /\ pvc' = WithClaim(job[t].size))
  /\ job' = [job EXCEPT ![t] = NoJob]
  /\ UNCHANGED <<vol, call, deleted, edits, losses, crashes>>

\* Nothing retries a Delete that fails.
OnDeleteVolume ==
  /\ deleted /\ deleted' = FALSE
  /\ \/ pvc' = [pvc EXCEPT !.phase = None, !.size = 0] /\ job' = StaleClaims(job)
     \/ UNCHANGED <<pvc, job>>
  /\ UNCHANGED <<vol, call, edits, losses, crashes>>

-----------------------------------------------------------------------------
(* The storage backend, and faults. *)

Bind ==
  /\ pvc.phase = "Pending"
  /\ pvc' = [pvc EXCEPT !.phase = "Bound", !.bound = TRUE]
  /\ job' = StaleClaims(job)
  /\ UNCHANGED <<vol, call, deleted, edits, losses, crashes>>

Lose(phase) ==
  /\ pvc.phase = "Bound"
  /\ losses < MaxLosses /\ losses' = losses + 1
  /\ pvc' = [pvc EXCEPT !.phase = phase, !.size = IF phase = None THEN 0 ELSE @]
  /\ job' = StaleClaims(job)
  /\ UNCHANGED <<vol, call, deleted, edits, crashes>>

\* A claim that is lost is removed by hand.
RemoveLost ==
  /\ pvc.phase = "Lost"
  /\ pvc' = [pvc EXCEPT !.phase = None, !.size = 0]
  /\ job' = StaleClaims(job)
  /\ UNCHANGED <<vol, call, deleted, edits, losses, crashes>>

\* Nocturne restarts: its copies and the events it had not handled are gone.
Crash ==
  /\ crashes < MaxCrashes /\ crashes' = crashes + 1
  /\ job' = [t \in Reconcilers |-> NoJob]
  /\ deleted' = FALSE
  /\ UNCHANGED <<vol, pvc, call, edits, losses>>

-----------------------------------------------------------------------------
Reconcile(t) ==
  \/ Take(t) \/ GetClaim(t) \/ CreateClaim(t) \/ GrowClaim(t) \/ GrowthRefused(t)
  \/ SetStatus(t) \/ SetFailure(t) \/ CallFails(t)

Next ==
  \/ \E c \in Callers : (\E size \in 1..MaxSize : UpdateVolume(c, size)) \/ UpdateSave(c)
  \/ DeleteVolume
  \/ \E t \in Reconcilers : Reconcile(t)
  \/ OnDeleteVolume
  \/ Bind \/ Lose("Lost") \/ Lose(None) \/ RemoveLost \/ Crash

Spec == Init /\ [][Next]_vars

Fairness ==
  /\ \A t \in Reconcilers : WF_vars(Reconcile(t))
  /\ WF_vars(OnDeleteVolume)
FairSpec == Spec /\ Fairness

-----------------------------------------------------------------------------
(* Properties. *)

Sizes == 0..MaxSize

VolumeRecords ==
  [exists : BOOLEAN, st : {"PENDING", "READY", "FAILED"}, ready : BOOLEAN, size : Sizes]
ClaimRecords ==
  [phase : {None, "Pending", "Bound", "Lost"}, size : Sizes, made : Nat, bound : BOOLEAN]
CallRecords == [pc : {"idle", "save"}, size : Sizes, fresh : BOOLEAN]
JobRecords ==
  [pc : {"idle", "get", "create", "grow", "status", "fail"},
   st : {None, "PENDING", "READY", "FAILED"}, ready : BOOLEAN, size : Sizes,
   phase : {None, "Pending", "Bound", "Lost"}, fresh : BOOLEAN, current : BOOLEAN]

\* The variables have their types.
TypeOK ==
  /\ vol \in VolumeRecords /\ pvc \in ClaimRecords
  /\ call \in [Callers -> CallRecords] /\ job \in [Reconcilers -> JobRecords]
  /\ deleted \in BOOLEAN
  /\ edits \in 0..MaxEdits /\ losses \in 0..MaxLosses /\ crashes \in 0..MaxCrashes

\* Neither the Volume nor its claim ever shrinks, whoever works with an old
\* copy (UpdateVolume, setVolumePersistentVolumeClaimSize).
OnlyGrows ==
  [][/\ vol'.size >= vol.size
     /\ (pvc.phase # None /\ pvc'.phase # None) => pvc'.size >= pvc.size]_vars

\* A Volume is READY only when it has ReadyAt, and has ReadyAt only when storage
\* was bound for it (setVolumeStatus).
ReadyIsProvisioned ==
  (vol.st = "READY" => vol.ready) /\ (vol.ready => pvc.bound)

\* What holds whatever reconciliations overlap.
VolumeInv == TypeOK /\ ReadyIsProvisioned

\* What a step keeps of a Volume that was READY: its ReadyAt; its state, which only a
\* claim that replaced the first one makes PENDING again; and its claim, which is not
\* replaced by an empty one, except by a reconciliation that took its copy before the
\* Volume was READY: nothing that copy says of it is read again.
ReadyAtIsKept == vol.ready => vol'.ready
ReadyIsKept == vol.st = "READY" /\ vol'.st = "PENDING" => pvc.made > 1
ClaimIsKept ==
  vol.exists /\ vol.ready /\ pvc'.made > pvc.made =>
    \E t \in Reconcilers : job[t].pc = "create" /\ job'[t].pc # "create" /\ ~job[t].fresh

\* No reconciliation with an old copy, and none that has seen the storage lost, makes a
\* Volume that was READY look like a new one (UpdateVolume, volumeWasProvisioned).
NeverReprovisioned == [][ReadyAtIsKept /\ ReadyIsKept /\ ClaimIsKept]_vars

\* Why these hold: a copy that is still fresh agrees with the record, and one that
\* is current with the claim; and what a copy says of storage that was bound stays
\* true when the copy is old, because "bound" is never taken back.
CallsAgree == \A c \in Callers : call[c].fresh => call[c].size >= vol.size

FreshAgrees == \A t \in Reconcilers :
  job[t].fresh => job[t].st = vol.st /\ job[t].ready = vol.ready /\ job[t].size = vol.size

CopiesTrue == \A t \in Reconcilers :
  /\ job[t].ready \/ job[t].phase = "Bound" => pvc.bound
  /\ job[t].pc = "create" => ~job[t].ready /\ job[t].st # "READY"
  /\ job[t].pc = "grow" /\ job[t].current => pvc.phase # None /\ pvc.size < job[t].size
  /\ job[t].pc \in {"grow", "status"} => job[t].phase # None
  /\ job[t].ready /\ job[t].phase = "Pending" => pvc.made > 1

\* A claim that waits although one was bound has replaced that one.
ClaimTrue ==
  /\ pvc.phase = "Bound" => pvc.bound
  /\ pvc.phase # None \/ pvc.bound => pvc.made > 0
  /\ pvc.phase = "Pending" /\ pvc.bound => pvc.made > 1

CopiesInv == VolumeInv /\ CallsAgree /\ FreshAgrees /\ CopiesTrue /\ ClaimTrue

\* A claim that is lost or gone after the Volume was READY makes the Volume
\* FAILED, if no old copy has made another claim (setVolumeFailure,
\* setVolumeStatus).
LossIsReported ==
  (vol.ready /\ pvc.phase \in {None, "Lost"})
    ~> (vol.st = "FAILED" \/ ~vol.exists \/ pvc.made > 1)

\* A size that the Volume was grown to reaches its claim, unless the claim is
\* lost (setVolumePersistentVolumeClaimSize).
GrowthReachesClaim ==
  (vol.exists /\ pvc.phase = "Bound" /\ pvc.size < vol.size)
    ~> (pvc.size = vol.size \/ pvc.phase \in {None, "Lost"} \/ ~vol.exists)

\* What happens to the storage reaches the record, and the record the storage,
\* through overlapping reconciliations and a crash (reconcileVolume), unless calls fail
\* again and again; and a growth only in a backend that does not refuse it again and again.
GoesOnFailing == []<><<\E t \in Reconcilers : CallFails(t)>>_vars
GoesOnRefusing == []<><<\E t \in Reconcilers : GrowthRefused(t)>>_vars

StorageFollowed ==
  GoesOnFailing \/ (LossIsReported /\ (GoesOnRefusing \/ GrowthReachesClaim))
=============================================================================
