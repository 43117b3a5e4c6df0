--------------------------- MODULE StartAdmission ---------------------------
(***************************************************************************)
(* The admission of a start by the API server, with several requests at    *)
(* once: StartWorkspace counts the User's active Workspaces, reads the     *)
(* Workspace, resolves its Volumes, looks for other Workspaces that mount  *)
(* the exclusive ones, creates the Session and only then writes, under the *)
(* version that it read.  UpdateWorkspace, UpdateTemplate and DeleteVolume *)
(* change what it has looked at.                                           *)
(*                                                                         *)
(* The Workspaces belong to one User, one Space and one Region.  The run   *)
(* between INIT_REQUEST and STOPPED is that of WorkspaceLifecycle and is   *)
(* three steps here.  A request holds a copy of the record that it will    *)
(* write; "fresh" says that nobody else has written that record since,     *)
(* which is what the version tells the store.                              *)
(***************************************************************************)
EXTENDS Naturals, FiniteSets

CONSTANTS
  Workspaces, Volumes,
  Exclusive,    \* the Volumes whose accessMode is not SHARED
  OfTemplate,   \* the Workspaces of the Template
  Mounts,       \* the mounts that a spec may have
  Callers,      \* requests at the same time
  Ops,          \* the requests that are made
  SessionIds,   \* bound: Sessions at the same time
  MaxActive,    \* getMaxActiveWorkspacesPerUser
  MaxFaults     \* bound: failing store calls

ASSUME AdmissionAssumption ==
  /\ IsFiniteSet(Workspaces) /\ IsFiniteSet(Callers) /\ Callers # {}
  /\ Exclusive \subseteq Volumes /\ OfTemplate \subseteq Workspaces
  /\ Mounts \subseteq SUBSET Volumes /\ {} \in Mounts
  /\ Ops \subseteq {"start", "update", "template", "delete"}
  /\ SessionIds \subseteq Nat \ {0} /\ IsFiniteSet(SessionIds)
  /\ MaxActive \in Nat \ {0} /\ MaxFaults \in Nat

VARIABLES
  ws,        \* the Workspace records
  tmpl,      \* the mounts of the Template
  vols,      \* the Volumes that exist
  pod,       \* per Workspace: what Nocturne was asked to run, or runs
  sessions,  \* the live Sessions
  call,      \* the requests in the API server
  faults

vars == <<ws, tmpl, vols, pod, sessions, call, faults>>

NoSession == 0
NoPod == [st |-> "none", mounts |-> {}]
Idle == [pc |-> "idle", on |-> {}, mounts |-> {}, session |-> NoSession, fresh |-> FALSE]

\* CreateWorkspace: a Workspace is created STOPPED.
Init ==
  /\ ws \in [Workspaces -> [state : {"STOPPED"}, mounts : Mounts, session : {NoSession}]]
  /\ tmpl \in Mounts
  /\ vols = Volumes
  /\ pod = [w \in Workspaces |-> NoPod]
  /\ sessions = {}
  /\ call = [c \in Callers |-> Idle]
  /\ faults = 0

-----------------------------------------------------------------------------
\* A write of the record r makes the copies of the others stale.
Stale(calls, r) == [c \in Callers |-> [calls[c] EXCEPT !.fresh = @ /\ calls[c].on # {r}]]

Return(c) == call' = [call EXCEPT ![c] = Idle]
Goto(c, pc) == call' = [call EXCEPT ![c].pc = pc]

Active == {w \in Workspaces : ws[w].state # "STOPPED"}

MountsOf(w, own) == own \cup (IF w \in OfTemplate THEN tmpl ELSE {})

\* checkIfCanStartWorkspace.  (Variant: one more than the limit.)
CanStartOneMore == Cardinality(Active) <= MaxActive
CanStart == Cardinality(Active) < MaxActive

StartWorkspace(c, w) ==
  /\ call[c].pc = "idle" /\ "start" \in Ops
  /\ CanStart
  /\ call' = [call EXCEPT ![c] = [Idle EXCEPT !.pc = "get", !.on = {w}]]
  /\ UNCHANGED <<ws, tmpl, vols, pod, sessions, faults>>

\* StartWorkspace: GetWorkspace, and the state must be STOPPED.
StartGet(c, w) ==
  /\ call[c].pc = "get" /\ call[c].on = {w}
  /\ IF ws[w].state = "STOPPED"
     THEN call' = [call EXCEPT ![c].pc = "resolve", ![c].mounts = ws[w].mounts, ![c].fresh = TRUE]
     ELSE Return(c)
  /\ UNCHANGED <<ws, tmpl, vols, pod, sessions, faults>>

\* getWorkspaceVolumeRegionRef: ResolveVolumeMounts, all of which must exist.
StartResolve(c, w) ==
  /\ call[c].pc = "resolve" /\ call[c].on = {w}
  /\ LET mounts == MountsOf(w, call[c].mounts) IN
     IF mounts \subseteq vols
     THEN call' = [call EXCEPT ![c].pc = "check", ![c].mounts = mounts]
     ELSE Return(c)
  /\ UNCHANGED <<ws, tmpl, vols, pod, sessions, faults>>

\* checkExclusiveVolumes: the mounts that another active Workspace has by its spec and
\* by its Template.  (Variant: by its spec only.)
MountedBySpec(cur) == ws[cur].mounts
MountedBy(cur) == MountsOf(cur, ws[cur].mounts)

StartCheck(c, w) ==
  /\ call[c].pc = "check" /\ call[c].on = {w}
  /\ IF \E cur \in Active \ {w} : call[c].mounts \cap Exclusive \cap MountedBy(cur) # {}
     THEN Return(c)
     ELSE Goto(c, "session")
  /\ UNCHANGED <<ws, tmpl, vols, pod, sessions, faults>>

\* createWorkspaceSession: a new one, that nobody has heard of.
NewSessions == {s \in SessionIds \ sessions : /\ \A w \in Workspaces : ws[w].session # s
                                              /\ \A c \in Callers : call[c].session # s}

StartSession(c, w) ==
  /\ call[c].pc = "session" /\ call[c].on = {w}
  /\ NewSessions # {}
  /\ LET s == CHOOSE s \in NewSessions : TRUE IN
       /\ sessions' = sessions \cup {s}
       /\ call' = [call EXCEPT ![c].pc = "save", ![c].session = s]
  /\ UNCHANGED <<ws, tmpl, vols, pod, faults>>

\* UpdateWorkspace under the version that was read.
MaySave(c) == call[c].fresh

Started(c, w) ==
  /\ ws' = [ws EXCEPT ![w].state = "INIT_REQUEST", ![w].session = call[c].session]
  /\ pod' = [pod EXCEPT ![w] = [st |-> "asked", mounts |-> ws[w].mounts]]

\* StartWorkspace: UpdateWorkspace; its error may also be that of a lost answer.
StartSave(c, w) ==
  /\ call[c].pc = "save" /\ call[c].on = {w}
  /\ \/ /\ MaySave(c) /\ Started(c, w)
        /\ call' = [Stale(call, w) EXCEPT ![c] = Idle]
        /\ UNCHANGED faults
     \/ /\ MaySave(c) /\ Started(c, w)
        /\ faults < MaxFaults /\ faults' = faults + 1
        /\ call' = [Stale(call, w) EXCEPT ![c].pc = "undo"]
     \/ /\ ~MaySave(c)
        /\ Goto(c, "undo")
        /\ UNCHANGED <<ws, pod, faults>>
  /\ UNCHANGED <<tmpl, vols, sessions>>

\* StartWorkspace: the DeleteSession of a failed start; its own error is ignored.
\* (Variant: the Session is left.)
UndoneNever(c) == sessions
Undone(c) == sessions \ {call[c].session}

StartUndo(c) ==
  /\ call[c].pc = "undo"
  /\ \/ sessions' = Undone(c) /\ UNCHANGED faults
     \/ faults < MaxFaults /\ faults' = faults + 1 /\ UNCHANGED sessions
  /\ Return(c)
  /\ UNCHANGED <<ws, tmpl, vols, pod>>

StopWorkspace(w) ==
  /\ ws[w].state \in {"INIT_REQUEST", "RUNNING"}
  /\ ws' = [ws EXCEPT ![w].state = "STOPPING_REQUEST"]
  /\ call' = Stale(call, w)
  /\ UNCHANGED <<tmpl, vols, pod, sessions, faults>>

-----------------------------------------------------------------------------
(* Requests that change what a start has looked at.  The record of a request
   that is under way is named by call.on: a Workspace, the Template ("tmpl")
   or a Volume. *)

\* UpdateWorkspace: the record is read and setWorkspaceVolumeMounts gets every Volume.
UpdateWorkspace(c, w, m) ==
  /\ call[c].pc = "idle" /\ "update" \in Ops
  /\ m \subseteq vols
  /\ call' = [call EXCEPT ![c] = [Idle EXCEPT !.pc = "update", !.on = {w}, !.mounts = m, !.fresh = TRUE]]
  /\ UNCHANGED <<ws, tmpl, vols, pod, sessions, faults>>

UpdateSave(c, w) ==
  /\ call[c].pc = "update" /\ call[c].on = {w}
  /\ IF call[c].fresh
     THEN /\ ws' = [ws EXCEPT ![w].mounts = call[c].mounts]
          /\ call' = [Stale(call, w) EXCEPT ![c] = Idle]
     ELSE Return(c) /\ UNCHANGED ws
  /\ UNCHANGED <<tmpl, vols, pod, sessions, faults>>

UpdateTemplate(c, m) ==
  /\ call[c].pc = "idle" /\ "template" \in Ops
  /\ m \subseteq vols
  /\ call' = [call EXCEPT ![c] = [Idle EXCEPT !.pc = "template", !.on = {"tmpl"}, !.mounts = m, !.fresh = TRUE]]
  /\ UNCHANGED <<ws, tmpl, vols, pod, sessions, faults>>

TemplateSave(c) ==
  /\ call[c].pc = "template"
  /\ IF call[c].fresh
     THEN /\ tmpl' = call[c].mounts
          /\ call' = [Stale(call, "tmpl") EXCEPT ![c] = Idle]
     ELSE Return(c) /\ UNCHANGED tmpl
  /\ UNCHANGED <<ws, vols, pod, sessions, faults>>

\* DeleteVolume: checkVolumeIsNotMounted lists the Templates, then the Workspaces.
MountedByWorkspace(v) == \E w \in Workspaces : v \in ws[w].mounts

DeleteVolume(c, v) ==
  /\ call[c].pc = "idle" /\ "delete" \in Ops
  /\ v \in vols /\ v \notin tmpl
  /\ call' = [call EXCEPT ![c] = [Idle EXCEPT !.pc = "listed", !.mounts = {v}]]
  /\ UNCHANGED <<ws, tmpl, vols, pod, sessions, faults>>

DeleteList(c, v) ==
  /\ call[c].pc = "listed" /\ call[c].mounts = {v}
  /\ IF MountedByWorkspace(v) THEN Return(c) ELSE Goto(c, "delete")
  /\ UNCHANGED <<ws, tmpl, vols, pod, sessions, faults>>

DeleteDo(c) ==
  /\ call[c].pc = "delete"
  /\ vols' = vols \ call[c].mounts
  /\ Return(c)
  /\ UNCHANGED <<ws, tmpl, pod, sessions, faults>>

-----------------------------------------------------------------------------
(* The run of an admitted Workspace, as Nocturne leads it. *)

\* The end of a run: the Workspace is STOPPED and its Session is deleted.
RunEnds(w) ==
  /\ ws' = [ws EXCEPT ![w].state = "STOPPED", ![w].session = NoSession]
  /\ sessions' = sessions \ {ws[w].session}
  /\ pod' = [pod EXCEPT ![w] = NoPod]

\* Nocturne's startWorkspace: the mounts of the event's copy and of the Template as it
\* is now are resolved again; a Volume that is gone fails the start.
NocturneStart(w) ==
  /\ pod[w].st = "asked" /\ ws[w].state = "INIT_REQUEST"
  /\ LET mounts == MountsOf(w, pod[w].mounts) IN
     IF mounts \subseteq vols
     THEN /\ pod' = [pod EXCEPT ![w] = [st |-> "up", mounts |-> mounts]]
          /\ ws' = [ws EXCEPT ![w].state = "RUNNING"]
          /\ UNCHANGED sessions
     ELSE RunEnds(w)
  /\ call' = Stale(call, w)
  /\ UNCHANGED <<tmpl, vols, faults>>

\* The pod has stopped, by itself or because it was asked to.
Stopped(w) ==
  /\ ws[w].state \in {"RUNNING", "STOPPING_REQUEST"}
  /\ RunEnds(w)
  /\ call' = Stale(call, w)
  /\ UNCHANGED <<tmpl, vols, faults>>

-----------------------------------------------------------------------------
StartSteps(c) ==
  \/ \E w \in Workspaces : \/ StartWorkspace(c, w) \/ StartGet(c, w) \/ StartResolve(c, w)
                           \/ StartCheck(c, w) \/ StartSession(c, w) \/ StartSave(c, w)
  \/ StartUndo(c)

ChangeSteps(c) ==
  \/ \E w \in Workspaces : (\E m \in Mounts : UpdateWorkspace(c, w, m)) \/ UpdateSave(c, w)
  \/ (\E m \in Mounts : UpdateTemplate(c, m)) \/ TemplateSave(c)
  \/ \E v \in Volumes : DeleteVolume(c, v) \/ DeleteList(c, v)
  \/ DeleteDo(c)

Next ==
  \/ \E c \in Callers : StartSteps(c) \/ ChangeSteps(c)
  \/ \E w \in Workspaces : StopWorkspace(w) \/ NocturneStart(w) \/ Stopped(w)

Spec == Init /\ [][Next]_vars

-----------------------------------------------------------------------------
WorkspaceRecords ==
  [state : {"STOPPED", "INIT_REQUEST", "RUNNING", "STOPPING_REQUEST"},
   mounts : SUBSET Volumes, session : SessionIds \cup {NoSession}]
PodRecords == [st : {"none", "asked", "up"}, mounts : SUBSET Volumes]
CallRecords ==
  [pc : {"idle", "get", "resolve", "check", "session", "save", "undo",
         "update", "template", "listed", "delete"},
   on : SUBSET (Workspaces \cup {"tmpl"}), mounts : SUBSET Volumes,
   session : SessionIds \cup {NoSession}, fresh : BOOLEAN]

\* The variables have their types.
TypeOK ==
  /\ ws \in [Workspaces -> WorkspaceRecords] /\ pod \in [Workspaces -> PodRecords]
  /\ tmpl \subseteq Volumes /\ vols \subseteq Volumes /\ sessions \subseteq SessionIds
  /\ call \in [Callers -> CallRecords]
  /\ faults \in 0..MaxFaults

\* The limit of active Workspaces is exceeded at most by the requests that run at the
\* same time: checkIfCanStartWorkspace counts before StartWorkspace writes.
ActiveBounded == Cardinality(Active) <= MaxActive + Cardinality(Callers) - 1

\* Why: every start that is past its count found room for one, whatever the others did.
Pending == {c \in Callers : call[c].pc \in {"get", "resolve", "check", "session", "save"}}
RoomForPending ==
  Cardinality(Active) + Cardinality(Pending) <= MaxActive + Cardinality(Callers) - 1

\* What holds however many requests overlap.
AdmissionInv == TypeOK /\ ActiveBounded

\* A Session that neither a Workspace nor a request holds would live for its 90 days,
\* and a run without its Session cannot be initialized.  StartWorkspace leaves at most
\* one of the two behind for every store call that failed.
Strays == {s \in sessions : /\ \A w \in Workspaces : ws[w].session # s
                            /\ \A c \in Callers : call[c].session # s}
Bereft == {w \in Active : ws[w].session \notin sessions}

SessionsAgree == Cardinality(Strays) + Cardinality(Bereft) <= faults

\* Why: a Session has one holder, until the answer to the write of a start is lost; what
\* the request then undoes is the Session of a run.
SessionsHeld ==
  /\ \A w \in Workspaces : ws[w].state = "STOPPED" => ws[w].session = NoSession
  /\ \A w, v \in Workspaces : w # v /\ ws[w].session = ws[v].session => ws[w].session = NoSession
  /\ \A c, d \in Callers : c # d /\ call[c].session = call[d].session => call[c].session = NoSession
CallsHold ==
  \A c \in Callers :
    /\ call[c].pc \in {"save", "undo"} <=> call[c].session # NoSession
    /\ call[c].pc = "save" =>
         call[c].session \in sessions /\ \A w \in Workspaces : ws[w].session # call[c].session
    /\ call[c].pc \in {"resolve", "check", "session", "save"} /\ call[c].fresh =>
         \A w \in Workspaces : call[c].on = {w} => ws[w].state = "STOPPED"

Debts == {c \in Callers : call[c].pc = "undo" /\ \E w \in Workspaces : ws[w].session = call[c].session}
DebtsPaid == Cardinality(Strays) + Cardinality(Bereft) + Cardinality(Debts) <= faults

SessionIInv == TypeOK /\ SessionsHeld /\ CallsHold /\ DebtsPaid

\* An exclusive Volume is mounted by the pod of one Workspace at a time
\* (checkExclusiveVolumes).
ExclusiveMounts == \A w1, w2 \in Workspaces :
                     pod[w1].st = "up" /\ pod[w2].st = "up" /\ w1 # w2 =>
                       pod[w1].mounts \cap pod[w2].mounts \cap Exclusive = {}

\* A Volume that the spec of a Workspace or of the Template mounts exists
\* (checkVolumeIsNotMounted).
MountedExists == tmpl \subseteq vols /\ \A w \in Workspaces : ws[w].mounts \subseteq vols

\* The requests come one after the other; no request changes a spec or a Volume.
OneRequest == \A c, d \in Callers : c # d => call[c].pc = "idle" \/ call[d].pc = "idle"
OnlyStarts == \A c \in Callers : call[c].pc \notin {"update", "template", "listed", "delete"}

\* Why MountedExists holds for one request at a time: the Volume that is about to be
\* deleted was found in no spec, and none has been written since.
VolumesLooked ==
  \A c \in Callers :
    /\ call[c].pc \in {"update", "template"} => call[c].mounts \subseteq vols
    /\ call[c].pc \in {"listed", "delete"} => call[c].mounts \cap tmpl = {}
    /\ call[c].pc = "delete" => \A w \in Workspaces : call[c].mounts \cap ws[w].mounts = {}

\* Why ExclusiveMounts holds for one start at a time: no two active Workspaces have an
\* exclusive Volume by their specs, a start that is past its check has none of theirs,
\* and a pod mounts what the specs say.
ExclusiveBySpec(w) ==
  \A v \in Active \ {w} : MountedBy(w) \cap MountedBy(v) \cap Exclusive = {}
ExclusiveLooked ==
  /\ \A w \in Active : ExclusiveBySpec(w)
  /\ \A w \in Workspaces :
       /\ pod[w].st # "none" => w \in Active
       /\ pod[w].st = "asked" => pod[w].mounts = ws[w].mounts
       /\ pod[w].st = "up" => pod[w].mounts = MountedBy(w)
  /\ \A c \in Callers, w \in Workspaces : call[c].on = {w} =>
       /\ call[c].pc = "resolve" => call[c].mounts = ws[w].mounts
       /\ call[c].pc = "check" => call[c].mounts = MountedBy(w)
       /\ call[c].pc \in {"session", "save"} => ExclusiveBySpec(w)
=============================================================================
