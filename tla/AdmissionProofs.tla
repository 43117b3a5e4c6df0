-------------------------- MODULE AdmissionProofs ---------------------------
(***************************************************************************)
(* StartAdmission, for any number of Workspaces, Volumes and requests: the *)
(* active Workspaces and the starts that are past their count are together *)
(* at most the limit and the other requests, which bounds how far          *)
(* overlapping starts exceed the limit; a Session is left behind, or a run *)
(* is without its own, only by a store call that failed; and what the      *)
(* checks promise of the Volumes holds as long as requests do not overlap. *)
(***************************************************************************)
EXTENDS MCStartAdmission, FiniteSetTheorems, TLAPS

LEMMA EmptyRecords == Idle \in CallRecords /\ NoPod \in PodRecords
  BY DEF Idle, NoPod, CallRecords, PodRecords, NoSession

\* A stale copy is the copy of the same request at the same point.
LEMMA StaleType ==
  ASSUME NEW calls \in [Callers -> CallRecords], NEW r
  PROVE  /\ Stale(calls, r) \in [Callers -> CallRecords]
         /\ \A c \in Callers : Stale(calls, r)[c].pc = calls[c].pc
  <1>1. ASSUME NEW q \in CallRecords, NEW b
        PROVE  /\ [q EXCEPT !.fresh = @ /\ b] \in CallRecords
               /\ [q EXCEPT !.fresh = @ /\ b].pc = q.pc
    <2>1. (q.fresh /\ b) \in BOOLEAN
      OBVIOUS
    <2>2. QED
      BY <2>1 DEF CallRecords
  <1>2. QED
    BY <1>1 DEF Stale

\* The changes of a call's record.
LEMMA CallChanges ==
  ASSUME NEW q \in CallRecords
  PROVE  /\ \A pc \in {"resolve", "check", "session", "save", "undo", "delete"} :
              [q EXCEPT !.pc = pc] \in CallRecords /\ [q EXCEPT !.pc = pc].pc = pc
         /\ \A m \in SUBSET Volumes : /\ [q EXCEPT !.pc = "check", !.mounts = m] \in CallRecords
                                      /\ [q EXCEPT !.pc = "check", !.mounts = m].pc = "check"
         /\ \A s \in SessionIds : /\ [q EXCEPT !.pc = "save", !.session = s] \in CallRecords
                                  /\ [q EXCEPT !.pc = "save", !.session = s].pc = "save"
  BY DEF CallRecords

\* The sets that are counted are finite.
LEMMA Counts ==
  /\ IsFiniteSet(Active) /\ Cardinality(Active) \in Nat
  /\ IsFiniteSet(Pending) /\ Cardinality(Pending) \in Nat
  /\ Cardinality(Pending) <= Cardinality(Callers)
  /\ Cardinality(Callers) \in Nat \ {0} /\ MaxActive \in Nat
  <1>1. Active \in SUBSET Workspaces /\ Pending \in SUBSET Callers
    BY DEF Active, Pending
  <1>2. IsFiniteSet(Workspaces) /\ IsFiniteSet(Callers) /\ Callers # {} /\ MaxActive \in Nat
    BY AdmissionAssumption
  <1>3. IsFiniteSet(Active) /\ IsFiniteSet(Pending) /\ Cardinality(Pending) <= Cardinality(Callers)
    BY <1>1, <1>2, FS_Subset
  <1>4. Cardinality(Callers) # 0
    BY <1>2, FS_EmptySet
  <1>5. QED
    BY <1>2, <1>3, <1>4, FS_CardinalityType

\* A step that neither activates a Workspace nor lets a start past its count.
LEMMA QuietStep ==
  ASSUME RoomForPending, Active' \subseteq Active, Pending' \subseteq Pending
  PROVE  RoomForPending'
  <1>1. Cardinality(Active') <= Cardinality(Active) /\ Cardinality(Active') \in Nat
    BY Counts, FS_Subset, FS_CardinalityType
  <1>2. Cardinality(Pending') <= Cardinality(Pending) /\ Cardinality(Pending') \in Nat
    BY Counts, FS_Subset, FS_CardinalityType
  <1>3. QED
    BY <1>1, <1>2, Counts DEF RoomForPending

\* A request moves on and no Workspace is activated.
LEMMA CallStep ==
  ASSUME RoomForPending, NEW c \in Callers,
         \A w \in Workspaces : ws'[w].state = ws[w].state,
         \A d \in Callers \ {c} : call'[d].pc = call[d].pc,
         call'[c].pc \in {"get", "resolve", "check", "session", "save"}
           => call[c].pc \in {"get", "resolve", "check", "session", "save"}
  PROVE  RoomForPending'
  <1>1. Active' \subseteq Active
    BY DEF Active
  <1>2. Pending' \subseteq Pending
    BY DEF Pending
  <1>3. QED
    BY <1>1, <1>2, QuietStep

\* The count lets a start pass only below the limit; the others that are under way are
\* at most all other requests (checkIfCanStartWorkspace).
LEMMA CountStep ==
  ASSUME TypeOK, NEW c \in Callers, NEW w \in Workspaces, StartWorkspace(c, w)
  PROVE  TypeOK' /\ RoomForPending'
  <1> DEFINE q == [Idle EXCEPT !.pc = "get", !.on = {w}]
  <1>1. q \in CallRecords
    BY EmptyRecords DEF CallRecords, Idle
  <1>2. TypeOK'
    BY <1>1 DEF StartWorkspace, TypeOK
  <1>3. Active' = Active /\ Cardinality(Active) < MaxActive
    BY DEF StartWorkspace, Active, CanStart
  <1>4. Pending' \in SUBSET Callers
    BY DEF Pending
  <1>5. Cardinality(Pending') <= Cardinality(Callers) /\ Cardinality(Pending') \in Nat
    BY <1>4, AdmissionAssumption, FS_Subset, FS_CardinalityType
  <1>6. QED
    BY <1>2, <1>3, <1>5, Counts DEF RoomForPending

-----------------------------------------------------------------------------
(* The steps of a start. *)

\* A request that changes no more than its own record.
LEMMA OwnCallStep ==
  ASSUME TypeOK, RoomForPending, NEW c \in Callers, NEW q \in CallRecords,
         call' = [call EXCEPT ![c] = q],
         UNCHANGED <<ws, pod>>, tmpl' \subseteq Volumes, vols' \subseteq Volumes,
         sessions' \subseteq SessionIds, faults' \in 0..MaxFaults,
         q.pc \in {"get", "resolve", "check", "session", "save"}
           => call[c].pc \in {"get", "resolve", "check", "session", "save"}
  PROVE  TypeOK' /\ RoomForPending'
  <1>1. TypeOK'
    BY DEF TypeOK
  <1>2. /\ \A d \in Callers \ {c} : call'[d].pc = call[d].pc
        /\ call'[c].pc = q.pc
    BY DEF TypeOK
  <1>3. QED
    BY <1>1, <1>2, CallStep

LEMMA ReadSteps ==
  ASSUME TypeOK, RoomForPending, NEW c \in Callers, NEW w \in Workspaces,
         StartGet(c, w) \/ StartResolve(c, w) \/ StartCheck(c, w)
  PROVE  TypeOK' /\ RoomForPending'
  <1>1. /\ call[c] \in CallRecords /\ ws[w] \in WorkspaceRecords /\ Idle \in CallRecords
        /\ Idle.pc = "idle" /\ tmpl \subseteq Volumes /\ call \in [Callers -> CallRecords]
    BY EmptyRecords DEF TypeOK, Idle
  <1>2. UNCHANGED <<ws, tmpl, vols, pod, sessions, faults>>
    BY DEF StartGet, StartResolve, StartCheck
  <1>3. tmpl' \subseteq Volumes /\ vols' \subseteq Volumes /\ sessions' \subseteq SessionIds
        /\ faults' \in 0..MaxFaults
    BY <1>2 DEF TypeOK
  <1>4. CASE call' = [call EXCEPT ![c] = Idle]
    BY <1>1, <1>2, <1>3, <1>4, OwnCallStep
  <1>5. CASE StartGet(c, w) /\ call' # [call EXCEPT ![c] = Idle]
    <2> DEFINE q == [call[c] EXCEPT !.pc = "resolve", !.mounts = ws[w].mounts, !.fresh = TRUE]
    <2>1. call' = [call EXCEPT ![c] = q] /\ call[c].pc = "get"
      BY <1>1, <1>5 DEF StartGet, Return, CallRecords
    <2>2. q \in CallRecords
      BY <1>1 DEF CallRecords, WorkspaceRecords
    <2> HIDE DEF q
    <2>3. QED
      BY <1>2, <1>3, <2>1, <2>2, OwnCallStep
  <1>6. CASE StartResolve(c, w) /\ call' # [call EXCEPT ![c] = Idle]
    <2> DEFINE m == MountsOf(w, call[c].mounts)
               q == [call[c] EXCEPT !.pc = "check", !.mounts = m]
    <2>1. call' = [call EXCEPT ![c] = q] /\ call[c].pc = "resolve"
      BY <1>1, <1>6 DEF StartResolve, Return, CallRecords
    <2>2. m \in SUBSET Volumes
      BY <1>1 DEF MountsOf, CallRecords
    <2>3. q \in CallRecords
      BY <1>1, <2>2, CallChanges
    <2> HIDE DEF q
    <2>4. QED
      BY <1>2, <1>3, <2>1, <2>3, OwnCallStep
  <1>7. CASE StartCheck(c, w) /\ call' # [call EXCEPT ![c] = Idle]
    <2> DEFINE q == [call[c] EXCEPT !.pc = "session"]
    <2>1. call' = [call EXCEPT ![c] = q] /\ call[c].pc = "check"
      BY <1>1, <1>7 DEF StartCheck, Return, Goto
    <2>2. q \in CallRecords
      BY <1>1, CallChanges
    <2> HIDE DEF q
    <2>3. QED
      BY <1>2, <1>3, <2>1, <2>2, OwnCallStep
  <1>8. QED
    BY <1>4, <1>5, <1>6, <1>7

LEMMA SessionStep ==
  ASSUME TypeOK, RoomForPending, NEW c \in Callers, NEW w \in Workspaces, StartSession(c, w)
  PROVE  TypeOK' /\ RoomForPending'
  <1> DEFINE s == CHOOSE s \in NewSessions : TRUE
             q == [call[c] EXCEPT !.pc = "save", !.session = s]
  <1>1. s \in SessionIds
    BY DEF StartSession, NewSessions
  <1>2. /\ call \in [Callers -> CallRecords] /\ call[c] \in CallRecords /\ call[c].pc = "session"
        /\ sessions' = sessions \cup {s} /\ UNCHANGED <<ws, tmpl, vols, pod, faults>>
    BY DEF TypeOK, StartSession
  <1>3. call' = [call EXCEPT ![c] = q]
    BY <1>2 DEF StartSession, CallRecords
  <1> HIDE DEF s
  <1>4. q \in CallRecords
    BY <1>1, <1>2, CallChanges
  <1>5. tmpl' \subseteq Volumes /\ vols' \subseteq Volumes /\ sessions' \subseteq SessionIds
        /\ faults' \in 0..MaxFaults
    BY <1>1, <1>2 DEF TypeOK
  <1> HIDE DEF q
  <1>6. QED
    BY <1>2, <1>3, <1>4, <1>5, OwnCallStep

\* The write of a start takes its request out of those under way and adds one active
\* Workspace: the sum stays (UpdateWorkspace in StartWorkspace).
LEMMA SaveStep ==
  ASSUME TypeOK, RoomForPending, NEW c \in Callers, NEW w \in Workspaces, StartSave(c, w)
  PROVE  TypeOK' /\ RoomForPending'
  <1>1. /\ call[c] \in CallRecords /\ call \in [Callers -> CallRecords] /\ call[c].pc = "save"
        /\ UNCHANGED <<tmpl, vols, sessions>>
        /\ tmpl' \subseteq Volumes /\ vols' \subseteq Volumes /\ sessions' \subseteq SessionIds
    BY DEF TypeOK, StartSave
  <1>2. faults' \in 0..MaxFaults
    BY AdmissionAssumption DEF TypeOK, StartSave
  <1>3. CASE MaySave(c)
    <2>1. Started(c, w)
      BY <1>3 DEF StartSave
    <2>2. PICK q \in CallRecords : /\ call' = [Stale(call, w) EXCEPT ![c] = q]
                                   /\ q.pc \in {"idle", "undo"}
      <3>1. CASE call' = [Stale(call, w) EXCEPT ![c] = Idle]
        BY <3>1, EmptyRecords DEF Idle
      <3>2. CASE call' = [Stale(call, w) EXCEPT ![c].pc = "undo"]
        <4>1. Stale(call, w)[c] \in CallRecords
          BY <1>1, StaleType
        <4>2. [Stale(call, w)[c] EXCEPT !.pc = "undo"] \in CallRecords
              /\ [Stale(call, w)[c] EXCEPT !.pc = "undo"].pc = "undo"
          BY <4>1, CallChanges
        <4>3. QED
          BY <3>2, <4>2
      <3>3. QED
        BY <1>3, <3>1, <3>2 DEF StartSave
    <2>3. ws' \in [Workspaces -> WorkspaceRecords]
      <3> DEFINE n == call[c].session
      <3>1. n \in SessionIds \cup {NoSession} /\ ws[w] \in WorkspaceRecords
        BY <1>1 DEF TypeOK, CallRecords
      <3> HIDE DEF n
      <3>2. [ws[w] EXCEPT !.state = "INIT_REQUEST", !.session = n] \in WorkspaceRecords
        BY <3>1 DEF WorkspaceRecords
      <3>3. QED
        BY <2>1, <3>2 DEF Started, TypeOK, WorkspaceRecords, n
    <2>4. pod' \in [Workspaces -> PodRecords]
      <3>1. [st |-> "asked", mounts |-> ws[w].mounts] \in PodRecords
        BY DEF TypeOK, WorkspaceRecords, PodRecords
      <3>2. QED
        BY <2>1, <3>1 DEF Started, TypeOK
    <2>5. TypeOK'
      BY <1>1, <1>2, <2>2, <2>3, <2>4, StaleType DEF TypeOK
    <2>6. Active' = Active \cup {w}
      BY <2>1 DEF Started, Active, TypeOK, WorkspaceRecords
    <2>7. c \in Pending /\ Pending' = Pending \ {c}
      BY <1>1, <2>2, StaleType DEF Pending
    <2>8. Cardinality(Active') <= Cardinality(Active) + 1 /\ Cardinality(Active') \in Nat
      <3>1. IsFiniteSet(Active \cup {w})
            /\ Cardinality(Active \cup {w}) = IF w \in Active THEN Cardinality(Active)
                                              ELSE Cardinality(Active) + 1
        BY Counts, FS_AddElement
      <3>2. QED
        BY <2>6, <3>1, Counts
    <2>9. Cardinality(Pending') = Cardinality(Pending) - 1
      BY <2>7, Counts, FS_RemoveElement
    <2>10. QED
      BY <2>5, <2>8, <2>9, Counts DEF RoomForPending
  <1>4. CASE ~MaySave(c)
    <2> DEFINE q == [call[c] EXCEPT !.pc = "undo"]
    <2>1. call' = [call EXCEPT ![c] = q] /\ UNCHANGED <<ws, pod>>
      BY <1>1, <1>4 DEF StartSave, Goto
    <2>2. q \in CallRecords /\ q.pc = "undo"
      BY <1>1, CallChanges
    <2> HIDE DEF q
    <2>3. QED
      BY <1>1, <1>2, <2>1, <2>2, OwnCallStep
  <1>5. QED
    BY <1>3, <1>4

LEMMA UndoStep ==
  ASSUME TypeOK, RoomForPending, NEW c \in Callers, StartUndo(c)
  PROVE  TypeOK' /\ RoomForPending'
  <1>1. /\ call' = [call EXCEPT ![c] = Idle] /\ UNCHANGED <<ws, tmpl, vols, pod>>
        /\ tmpl' \subseteq Volumes /\ vols' \subseteq Volumes /\ sessions' \subseteq SessionIds
    BY DEF StartUndo, Return, Undone, TypeOK
  <1>2. faults' \in 0..MaxFaults
    BY AdmissionAssumption DEF TypeOK, StartUndo
  <1>3. Idle \in CallRecords /\ Idle.pc = "idle"
    BY EmptyRecords DEF Idle
  <1>4. QED
    BY <1>1, <1>2, <1>3, OwnCallStep

-----------------------------------------------------------------------------
(* The other requests are never past a count. *)

LEMMA BeginChange ==
  ASSUME TypeOK, RoomForPending, NEW c \in Callers,
         \/ \E w \in Workspaces, m \in Mounts : UpdateWorkspace(c, w, m)
         \/ \E m \in Mounts : UpdateTemplate(c, m)
         \/ \E v \in Volumes : DeleteVolume(c, v)
  PROVE  TypeOK' /\ RoomForPending'
  <1>1. UNCHANGED <<ws, tmpl, vols, pod, sessions, faults>>
    BY DEF UpdateWorkspace, UpdateTemplate, DeleteVolume
  <1>2. /\ tmpl' \subseteq Volumes /\ vols' \subseteq Volumes /\ sessions' \subseteq SessionIds
        /\ faults' \in 0..MaxFaults
    BY <1>1 DEF TypeOK
  <1>3. ASSUME NEW w \in Workspaces, NEW m \in Mounts, UpdateWorkspace(c, w, m)
        PROVE  TypeOK' /\ RoomForPending'
    <2> DEFINE q == [Idle EXCEPT !.pc = "update", !.on = {w}, !.mounts = m, !.fresh = TRUE]
    <2>1. m \subseteq Volumes /\ call' = [call EXCEPT ![c] = q]
      BY <1>3, AdmissionAssumption DEF UpdateWorkspace
    <2>2. q \in CallRecords /\ q.pc = "update"
      BY <2>1, EmptyRecords DEF CallRecords
    <2> HIDE DEF q
    <2>3. QED
      BY <1>1, <1>2, <2>1, <2>2, OwnCallStep
  <1>4. ASSUME NEW m \in Mounts, UpdateTemplate(c, m)
        PROVE  TypeOK' /\ RoomForPending'
    <2> DEFINE q == [Idle EXCEPT !.pc = "template", !.on = {"tmpl"}, !.mounts = m, !.fresh = TRUE]
    <2>1. m \subseteq Volumes /\ call' = [call EXCEPT ![c] = q]
      BY <1>4, AdmissionAssumption DEF UpdateTemplate
    <2>2. q \in CallRecords /\ q.pc = "template"
      BY <2>1, EmptyRecords DEF CallRecords
    <2> HIDE DEF q
    <2>3. QED
      BY <1>1, <1>2, <2>1, <2>2, OwnCallStep
  <1>5. ASSUME NEW v \in Volumes, DeleteVolume(c, v)
        PROVE  TypeOK' /\ RoomForPending'
    <2> DEFINE q == [Idle EXCEPT !.pc = "listed", !.mounts = {v}]
    <2>1. call' = [call EXCEPT ![c] = q]
      BY <1>5 DEF DeleteVolume
    <2>2. q \in CallRecords /\ q.pc = "listed"
      BY EmptyRecords DEF CallRecords
    <2> HIDE DEF q
    <2>3. QED
      BY <1>1, <1>2, <2>1, <2>2, OwnCallStep
  <1>6. QED
    BY <1>3, <1>4, <1>5

\* The end of a request that writes a record: the copies of it are stale, no Workspace
\* is activated.
LEMMA WriteStep ==
  ASSUME TypeOK, RoomForPending, NEW r,
         ws' \in [Workspaces -> WorkspaceRecords], pod' \in [Workspaces -> PodRecords],
         \A w \in Workspaces : ws[w].state = "STOPPED" => ws'[w].state = "STOPPED",
         tmpl' \subseteq Volumes, UNCHANGED <<vols, faults>>, sessions' \subseteq SessionIds,
         \/ call' = Stale(call, r)
         \/ \E c \in Callers : call' = [Stale(call, r) EXCEPT ![c] = Idle]
  PROVE  TypeOK' /\ RoomForPending'
  <1>1. /\ call' \in [Callers -> CallRecords]
        /\ \A c \in Callers : call'[c].pc \in {call[c].pc, "idle"}
    <2>1. /\ Stale(call, r) \in [Callers -> CallRecords]
          /\ \A c \in Callers : Stale(call, r)[c].pc = call[c].pc
      BY StaleType DEF TypeOK
    <2>2. Idle \in CallRecords /\ Idle.pc = "idle"
      BY EmptyRecords DEF Idle
    <2>3. QED
      BY <2>1, <2>2
  <1>2. TypeOK'
    BY <1>1 DEF TypeOK
  <1>3. Pending' \subseteq Pending
    BY <1>1 DEF Pending
  <1>4. Active' \subseteq Active
    BY DEF Active
  <1>5. QED
    BY <1>2, <1>3, <1>4, QuietStep

LEMMA EndChange ==
  ASSUME TypeOK, RoomForPending, NEW c \in Callers,
         \/ \E w \in Workspaces : UpdateSave(c, w)
         \/ TemplateSave(c)
         \/ \E v \in Volumes : DeleteList(c, v)
         \/ DeleteDo(c)
  PROVE  TypeOK' /\ RoomForPending'
  <1>1. /\ call[c] \in CallRecords /\ call[c].mounts \subseteq Volumes
        /\ Idle \in CallRecords /\ Idle.pc = "idle"
        /\ UNCHANGED <<pod, sessions, faults>> /\ sessions' \subseteq SessionIds
        /\ faults' \in 0..MaxFaults /\ tmpl' \subseteq Volumes /\ vols' \subseteq Volumes
    BY EmptyRecords DEF TypeOK, CallRecords, Idle, UpdateSave, TemplateSave, DeleteList, DeleteDo
  <1>2. CASE call' = [call EXCEPT ![c] = Idle] /\ UNCHANGED ws
    BY <1>1, <1>2, OwnCallStep
  <1>3. ASSUME NEW w \in Workspaces, UpdateSave(c, w), call[c].fresh
        PROVE  TypeOK' /\ RoomForPending'
    <2>1. /\ ws' = [ws EXCEPT ![w].mounts = call[c].mounts] /\ UNCHANGED <<tmpl, vols, pod>>
          /\ call' = [Stale(call, w) EXCEPT ![c] = Idle]
      BY <1>3 DEF UpdateSave
    <2>2. \A q \in WorkspaceRecords, m \in SUBSET Volumes :
            [q EXCEPT !.mounts = m] \in WorkspaceRecords /\ [q EXCEPT !.mounts = m].state = q.state
      BY DEF WorkspaceRecords
    <2>3. /\ ws' \in [Workspaces -> WorkspaceRecords]
          /\ \A v \in Workspaces : ws'[v].state = ws[v].state
      BY <1>1, <2>1, <2>2 DEF TypeOK
    <2>4. pod' \in [Workspaces -> PodRecords]
      BY <2>1 DEF TypeOK
    <2>5. QED
      BY <1>1, <2>1, <2>3, <2>4, WriteStep
  <1>4. CASE TemplateSave(c) /\ call[c].fresh
    <2>1. UNCHANGED <<ws, vols, pod>> /\ call' = [Stale(call, "tmpl") EXCEPT ![c] = Idle]
      BY <1>4 DEF TemplateSave
    <2>2. ws' \in [Workspaces -> WorkspaceRecords] /\ pod' \in [Workspaces -> PodRecords]
      BY <2>1 DEF TypeOK
    <2>3. QED
      BY <1>1, <2>1, <2>2, WriteStep
  <1>5. ASSUME NEW v \in Volumes, DeleteList(c, v), ~MountedByWorkspace(v)
        PROVE  TypeOK' /\ RoomForPending'
    <2> DEFINE q == [call[c] EXCEPT !.pc = "delete"]
    <2>1. call' = [call EXCEPT ![c] = q] /\ UNCHANGED ws
      BY <1>1, <1>5 DEF DeleteList, Goto, TypeOK
    <2>2. q \in CallRecords /\ q.pc = "delete"
      BY <1>1, CallChanges
    <2> HIDE DEF q
    <2>3. QED
      BY <1>1, <2>1, <2>2, OwnCallStep
  <1>6. QED
    BY <1>2, <1>3, <1>4, <1>5 DEF UpdateSave, TemplateSave, DeleteList, DeleteDo, Return

-----------------------------------------------------------------------------
(* The runs activate no Workspace. *)

LEMMA RunStep ==
  ASSUME TypeOK, RoomForPending, NEW w \in Workspaces,
         StopWorkspace(w) \/ NocturneStart(w) \/ Stopped(w)
  PROVE  TypeOK' /\ RoomForPending'
  <1>1. /\ ws \in [Workspaces -> WorkspaceRecords] /\ pod \in [Workspaces -> PodRecords]
        /\ call' = Stale(call, w) /\ UNCHANGED <<tmpl, vols, faults>> /\ tmpl' \subseteq Volumes
        /\ ws[w].state # "STOPPED" /\ sessions \subseteq SessionIds
    BY DEF TypeOK, StopWorkspace, NocturneStart, Stopped
  <1>2. ASSUME RunEnds(w)
        PROVE  TypeOK' /\ RoomForPending'
    <2>1. [ws[w] EXCEPT !.state = "STOPPED", !.session = NoSession] \in WorkspaceRecords
      BY <1>1 DEF WorkspaceRecords
    <2>2. ws' \in [Workspaces -> WorkspaceRecords]
      BY <1>1, <1>2, <2>1 DEF RunEnds, WorkspaceRecords
    <2>3. \A v \in Workspaces : ws[v].state = "STOPPED" => ws'[v].state = "STOPPED"
      BY <1>1, <1>2 DEF RunEnds
    <2>4. pod' \in [Workspaces -> PodRecords] /\ sessions' \subseteq SessionIds
      BY <1>1, <1>2, EmptyRecords DEF RunEnds
    <2>5. QED
      BY <1>1, <2>2, <2>3, <2>4, WriteStep
  <1>3. ASSUME NEW st \in {"RUNNING", "STOPPING_REQUEST"}, ws' = [ws EXCEPT ![w].state = st],
               pod' \in [Workspaces -> PodRecords], UNCHANGED sessions
        PROVE  TypeOK' /\ RoomForPending'
    <2>1. [ws[w] EXCEPT !.state = st] \in WorkspaceRecords
      BY <1>1 DEF WorkspaceRecords
    <2>2. ws' \in [Workspaces -> WorkspaceRecords]
      BY <1>1, <1>3, <2>1
    <2>3. \A v \in Workspaces : ws[v].state = "STOPPED" => ws'[v].state = "STOPPED"
      BY <1>1, <1>3
    <2>4. QED
      BY <1>1, <1>3, <2>2, <2>3, WriteStep
  <1>4. CASE StopWorkspace(w)
    BY <1>1, <1>3, <1>4 DEF StopWorkspace
  <1>5. CASE Stopped(w)
    BY <1>2, <1>5 DEF Stopped
  <1>6. CASE NocturneStart(w)
    <2> DEFINE m == MountsOf(w, pod[w].mounts)
    <2>1. m \subseteq Volumes
      BY <1>1 DEF MountsOf, PodRecords, TypeOK
    <2>2. CASE m \subseteq vols
      <3>1. /\ pod' = [pod EXCEPT ![w] = [st |-> "up", mounts |-> m]]
            /\ ws' = [ws EXCEPT ![w].state = "RUNNING"] /\ UNCHANGED sessions
        BY <1>6, <2>2 DEF NocturneStart
      <3>2. [st |-> "up", mounts |-> m] \in PodRecords
        BY <2>1 DEF PodRecords
      <3> HIDE DEF m
      <3>3. pod' \in [Workspaces -> PodRecords]
        BY <1>1, <3>1, <3>2
      <3>4. QED
        BY <1>3, <3>1, <3>3
    <2>3. CASE ~(m \subseteq vols)
      BY <1>2, <1>6, <2>3 DEF NocturneStart
    <2>4. QED
      BY <2>2, <2>3
  <1>7. QED
    BY <1>4, <1>5, <1>6

-----------------------------------------------------------------------------
LEMMA InitAdmission == Init => TypeOK /\ RoomForPending
  <1> SUFFICES ASSUME Init PROVE TypeOK /\ RoomForPending
    OBVIOUS
  <1>1. ws \in [Workspaces -> WorkspaceRecords] /\ tmpl \subseteq Volumes
    <2>1. \A m \in Mounts : m \in SUBSET Volumes
      BY AdmissionAssumption
    <2>2. [state : {"STOPPED"}, mounts : Mounts, session : {NoSession}] \subseteq WorkspaceRecords
      BY <2>1 DEF WorkspaceRecords
    <2>3. QED
      BY <2>1, <2>2 DEF Init
  <1>2. TypeOK
    BY <1>1, EmptyRecords, AdmissionAssumption DEF Init, TypeOK
  <1>3. Active = {} /\ Pending = {}
    BY DEF Init, Active, Pending, Idle
  <1>4. Cardinality(Active) = 0 /\ Cardinality(Pending) = 0
    BY <1>3, FS_EmptySet
  <1>5. QED
    BY <1>2, <1>4, Counts DEF RoomForPending

LEMMA NextAdmission == TypeOK /\ RoomForPending /\ [Next]_vars => TypeOK' /\ RoomForPending'
  <1> SUFFICES ASSUME TypeOK, RoomForPending, [Next]_vars PROVE TypeOK' /\ RoomForPending'
    OBVIOUS
  <1>1. CASE UNCHANGED vars
    BY <1>1 DEF vars, TypeOK, RoomForPending, Active, Pending
  <1>2. ASSUME NEW c \in Callers, StartSteps(c)
        PROVE  TypeOK' /\ RoomForPending'
    BY <1>2, CountStep, ReadSteps, SessionStep, SaveStep, UndoStep DEF StartSteps
  <1>3. ASSUME NEW c \in Callers, ChangeSteps(c)
        PROVE  TypeOK' /\ RoomForPending'
    BY <1>3, BeginChange, EndChange DEF ChangeSteps
  <1>4. QED
    BY <1>1, <1>2, <1>3, RunStep DEF Next

\* The limit of active Workspaces is exceeded at most by the requests that overlap:
\* checkIfCanStartWorkspace counts before StartWorkspace writes.
THEOREM AdmissionBounded == Spec => []AdmissionInv
  <1>1. RoomForPending => ActiveBounded
    BY Counts DEF RoomForPending, ActiveBounded
  <1>2. QED
    BY <1>1, InitAdmission, NextAdmission, PTL DEF Spec, AdmissionInv

-----------------------------------------------------------------------------
(* The Sessions. *)

LEMMA StaleFields ==
  ASSUME NEW calls \in [Callers -> CallRecords], NEW r, NEW c \in Callers
  PROVE  LET q == Stale(calls, r)[c] IN
         /\ q \in CallRecords /\ q.pc = calls[c].pc /\ q.session = calls[c].session
         /\ q.on = calls[c].on /\ (q.fresh => calls[c].fresh /\ calls[c].on # {r})
  <1>1. ASSUME NEW q \in CallRecords, NEW b \in BOOLEAN
        PROVE  LET t == [q EXCEPT !.fresh = b] IN
               /\ t \in CallRecords /\ t.pc = q.pc /\ t.session = q.session /\ t.on = q.on
               /\ t.fresh = b
    BY DEF CallRecords
  <1> DEFINE b == calls[c].fresh /\ calls[c].on # {r}
  <1>2. b \in BOOLEAN /\ calls[c] \in CallRecords
    OBVIOUS
  <1>3. Stale(calls, r)[c] = [calls[c] EXCEPT !.fresh = b]
    BY DEF Stale
  <1>4. b => calls[c].fresh /\ calls[c].on # {r}
    OBVIOUS
  <1> HIDE DEF b
  <1>5. QED
    BY <1>1, <1>2, <1>3, <1>4

\* What is counted is finite.
LEMMA SessionCounts == TypeOK =>
  /\ IsFiniteSet(Strays) /\ IsFiniteSet(Bereft) /\ IsFiniteSet(Debts)
  /\ Cardinality(Strays) \in Nat /\ Cardinality(Bereft) \in Nat /\ Cardinality(Debts) \in Nat
  /\ faults \in Nat
  <1> SUFFICES ASSUME TypeOK
               PROVE  /\ IsFiniteSet(Strays) /\ IsFiniteSet(Bereft) /\ IsFiniteSet(Debts)
                      /\ faults \in Nat
    BY FS_CardinalityType
  <1>1. Strays \in SUBSET SessionIds /\ Bereft \in SUBSET Workspaces /\ Debts \in SUBSET Callers
    BY DEF TypeOK, Strays, Bereft, Active, Debts
  <1>2. IsFiniteSet(SessionIds) /\ IsFiniteSet(Workspaces) /\ IsFiniteSet(Callers)
    BY AdmissionAssumption
  <1>3. IsFiniteSet(Strays) /\ IsFiniteSet(Bereft) /\ IsFiniteSet(Debts)
    BY <1>1, <1>2, FS_Subset
  <1>4. QED
    BY <1>3, AdmissionAssumption DEF TypeOK

LEMMA SetGrows ==
  ASSUME NEW S, IsFiniteSet(S), NEW T, NEW x, T \subseteq S \cup {x}
  PROVE  /\ Cardinality(T) \in Nat /\ Cardinality(T) <= Cardinality(S) + 1
         /\ T \subseteq S => Cardinality(T) <= Cardinality(S)
         /\ x \in S /\ T \subseteq S \ {x} => Cardinality(T) <= Cardinality(S) - 1
  <1>1. /\ IsFiniteSet(S \cup {x}) /\ Cardinality(S \cup {x}) <= Cardinality(S) + 1
        /\ Cardinality(S) \in Nat
    BY FS_AddElement, FS_CardinalityType
  <1>2. IsFiniteSet(T) /\ Cardinality(T) <= Cardinality(S \cup {x})
    BY <1>1, FS_Subset
  <1>3. T \subseteq S => Cardinality(T) <= Cardinality(S)
    BY FS_Subset
  <1>4. ASSUME x \in S, T \subseteq S \ {x}
        PROVE  Cardinality(T) <= Cardinality(S) - 1
    <2>1. IsFiniteSet(S \ {x}) /\ Cardinality(S \ {x}) = Cardinality(S) - 1
      BY <1>4, FS_RemoveElement
    <2>2. QED
      BY <1>4, <2>1, FS_Subset
  <1>5. QED
    BY <1>1, <1>2, <1>3, <1>4, FS_CardinalityType

\* Nothing more is left behind; or one thing more, by a call that failed; or what was
\* still owed is.
LEMMA PaidSame ==
  ASSUME TypeOK, DebtsPaid, UNCHANGED faults,
         Strays' \subseteq Strays, Bereft' \subseteq Bereft, Debts' \subseteq Debts
  PROVE  DebtsPaid'
  <1>1. /\ Cardinality(Strays') \in Nat /\ Cardinality(Strays') <= Cardinality(Strays)
        /\ Cardinality(Bereft') \in Nat /\ Cardinality(Bereft') <= Cardinality(Bereft)
        /\ Cardinality(Debts') \in Nat /\ Cardinality(Debts') <= Cardinality(Debts)
    BY SessionCounts, FS_Subset, FS_CardinalityType
  <1>2. QED
    BY <1>1, SessionCounts DEF DebtsPaid

LEMMA PaidFault ==
  ASSUME TypeOK, DebtsPaid, faults' = faults + 1, Bereft' \subseteq Bereft, NEW x,
         \/ Strays' \subseteq Strays /\ Debts' \subseteq Debts \cup {x}
         \/ Strays' \subseteq Strays \cup {x} /\ Debts' \subseteq Debts
  PROVE  DebtsPaid'
  <1>1. Cardinality(Bereft') \in Nat /\ Cardinality(Bereft') <= Cardinality(Bereft)
    BY SessionCounts, FS_Subset, FS_CardinalityType
  <1>2. /\ Cardinality(Strays') \in Nat /\ Cardinality(Debts') \in Nat
        /\ Cardinality(Strays') + Cardinality(Debts') <= Cardinality(Strays) + Cardinality(Debts) + 1
    <2>1. CASE Strays' \subseteq Strays /\ Debts' \subseteq Debts \cup {x}
      <3>1. Cardinality(Strays') \in Nat /\ Cardinality(Strays') <= Cardinality(Strays)
        BY <2>1, SessionCounts, FS_Subset, FS_CardinalityType
      <3>2. Cardinality(Debts') \in Nat /\ Cardinality(Debts') <= Cardinality(Debts) + 1
        BY <2>1, SessionCounts, SetGrows
      <3>3. QED
        BY <3>1, <3>2, SessionCounts
    <2>2. CASE Strays' \subseteq Strays \cup {x} /\ Debts' \subseteq Debts
      <3>1. Cardinality(Debts') \in Nat /\ Cardinality(Debts') <= Cardinality(Debts)
        BY <2>2, SessionCounts, FS_Subset, FS_CardinalityType
      <3>2. Cardinality(Strays') \in Nat /\ Cardinality(Strays') <= Cardinality(Strays) + 1
        BY <2>2, SessionCounts, SetGrows
      <3>3. QED
        BY <3>1, <3>2, SessionCounts
    <2>3. QED
      BY <2>1, <2>2
  <1>3. QED
    BY <1>1, <1>2, SessionCounts DEF DebtsPaid

LEMMA PaidDebt ==
  ASSUME TypeOK, DebtsPaid, UNCHANGED faults, NEW c \in Debts, NEW w,
         Strays' \subseteq Strays, Bereft' \subseteq Bereft \cup {w}, Debts' \subseteq Debts \ {c}
  PROVE  DebtsPaid'
  <1>1. Cardinality(Strays') \in Nat /\ Cardinality(Strays') <= Cardinality(Strays)
    BY SessionCounts, FS_Subset, FS_CardinalityType
  <1>2. Cardinality(Bereft') \in Nat /\ Cardinality(Bereft') <= Cardinality(Bereft) + 1
    BY SessionCounts, SetGrows
  <1>3. Cardinality(Debts') \in Nat /\ Cardinality(Debts') <= Cardinality(Debts) - 1
    <2>1. Debts' \subseteq Debts \cup {c}
      OBVIOUS
    <2>2. QED
      BY <2>1, SessionCounts, SetGrows
  <1>4. QED
    BY <1>1, <1>2, <1>3, SessionCounts DEF DebtsPaid

-----------------------------------------------------------------------------
(* The steps, for the Sessions. *)

SessionsOK == SessionsHeld /\ CallsHold /\ DebtsPaid

\* What holds of the requests.
LEMMA Holder ==
  ASSUME TypeOK, CallsHold, NEW c \in Callers
  PROVE  /\ call[c] \in CallRecords
         /\ call[c].session \in SessionIds \cup {NoSession} /\ NoSession \notin SessionIds
         /\ call[c].pc \in {"save", "undo"} <=> call[c].session # NoSession
         /\ call[c].pc = "save" =>
              call[c].session \in sessions /\ \A v \in Workspaces : ws[v].session # call[c].session
         /\ call[c].pc \in {"resolve", "check", "session", "save"} /\ call[c].fresh =>
              \A v \in Workspaces : call[c].on = {v} => ws[v].state = "STOPPED"
  <1>1. NoSession \notin SessionIds
    BY AdmissionAssumption DEF NoSession
  <1>2. call[c] \in CallRecords
    BY DEF TypeOK
  <1>3. call[c].session \in SessionIds \cup {NoSession}
    BY <1>2 DEF CallRecords
  <1>4. QED
    BY <1>1, <1>2, <1>3 DEF CallsHold

\* A step that makes and ends no Session, starts and ends no run.
LEMMA HoldersStay ==
  ASSUME TypeOK, SessionsOK, UNCHANGED <<sessions, faults>>,
         \A v \in Workspaces : /\ ws'[v].session = ws[v].session
                               /\ ws'[v].state = "STOPPED" <=> ws[v].state = "STOPPED",
         \A d \in Callers :
           /\ call'[d].session = call[d].session
           /\ call'[d].pc = "save" <=> call[d].pc = "save"
           /\ call'[d].pc = "undo" <=> call[d].pc = "undo"
           /\ call'[d].pc \in {"resolve", "check", "session", "save"} /\ call'[d].fresh =>
                \A v \in Workspaces : call'[d].on = {v} => ws[v].state = "STOPPED"
  PROVE  SessionsOK'
  <1>1. SessionsHeld'
    BY DEF SessionsOK, SessionsHeld
  <1>2. CallsHold'
    BY DEF SessionsOK, CallsHold
  <1>3. Strays' \subseteq Strays /\ Bereft' \subseteq Bereft /\ Debts' \subseteq Debts
    BY DEF Strays, Bereft, Active, Debts
  <1>4. QED
    BY <1>1, <1>2, <1>3, PaidSame DEF SessionsOK

\* The steps of a request that has no Session and gets none.
LEMMA MoveStays ==
  ASSUME TypeOK, SessionsOK, NEW c \in Callers, NEW q \in CallRecords,
         UNCHANGED <<sessions, faults, ws>>, call' = [call EXCEPT ![c] = q],
         call[c].session = NoSession, q.session = NoSession, q.pc \notin {"save", "undo"},
         q.pc \in {"resolve", "check", "session"} /\ q.fresh =>
           \A v \in Workspaces : q.on = {v} => ws[v].state = "STOPPED"
  PROVE  SessionsOK'
  <1>1. \A d \in Callers : call'[d] = IF d = c THEN q ELSE call[d]
    BY DEF TypeOK
  <1>2. call[c].pc \notin {"save", "undo"}
    BY Holder DEF SessionsOK
  <1>3. \A d \in Callers : call[d].pc \in {"resolve", "check", "session", "save"} /\ call[d].fresh =>
           \A v \in Workspaces : call[d].on = {v} => ws[v].state = "STOPPED"
    BY Holder DEF SessionsOK
  <1>4. QED
    BY <1>1, <1>2, <1>3, HoldersStay

LEMMA IdleFields ==
  Idle \in CallRecords /\ Idle.pc = "idle" /\ Idle.session = NoSession /\ ~Idle.fresh
BY EmptyRecords DEF Idle

\* A request without a Session: what it changes of its record.
LEMMA MoveFields ==
  ASSUME NEW q \in CallRecords
  PROVE  /\ \A pc \in {"session", "delete"} :
              LET t == [q EXCEPT !.pc = pc] IN
              /\ t \in CallRecords /\ t.pc = pc
              /\ t.session = q.session /\ t.on = q.on /\ t.fresh = q.fresh
BY DEF CallRecords

LEMMA CheckFields ==
  ASSUME NEW q \in CallRecords, NEW m \in SUBSET Volumes
  PROVE  LET t == [q EXCEPT !.pc = "check", !.mounts = m] IN
         /\ t \in CallRecords /\ t.pc = "check"
         /\ t.session = q.session /\ t.on = q.on /\ t.fresh = q.fresh
BY DEF CallRecords

LEMMA ResolveFields ==
  ASSUME NEW q \in CallRecords, NEW m \in SUBSET Volumes
  PROVE  LET t == [q EXCEPT !.pc = "resolve", !.mounts = m, !.fresh = TRUE] IN
         /\ t \in CallRecords /\ t.pc = "resolve"
         /\ t.session = q.session /\ t.on = q.on
BY DEF CallRecords

LEMMA EarlySessions ==
  ASSUME TypeOK, SessionsOK, NEW c \in Callers, NEW w \in Workspaces,
         StartWorkspace(c, w) \/ StartGet(c, w) \/ StartResolve(c, w) \/ StartCheck(c, w)
  PROVE  SessionsOK'
  <1>1. /\ call[c] \in CallRecords /\ call[c].session = NoSession
        /\ call[c].pc \in {"resolve", "check", "session", "save"} /\ call[c].fresh =>
             \A v \in Workspaces : call[c].on = {v} => ws[v].state = "STOPPED"
        /\ UNCHANGED <<sessions, faults, ws>>
    BY Holder DEF SessionsOK, StartWorkspace, StartGet, StartResolve, StartCheck
  <1>2. CASE call' = [call EXCEPT ![c] = Idle]
    BY <1>1, <1>2, IdleFields, MoveStays
  <1>3. CASE StartWorkspace(c, w)
    <2> DEFINE q == [Idle EXCEPT !.pc = "get", !.on = {w}]
    <2>1. q \in CallRecords /\ q.pc = "get" /\ q.session = NoSession
      BY IdleFields DEF CallRecords
    <2>2. call' = [call EXCEPT ![c] = q]
      BY <1>3 DEF StartWorkspace
    <2> HIDE DEF q
    <2>3. QED
      BY <1>1, <2>1, <2>2, MoveStays
  <1>4. CASE StartGet(c, w) /\ ws[w].state = "STOPPED"
    <2> DEFINE m == ws[w].mounts
               q == [call[c] EXCEPT !.pc = "resolve", !.mounts = m, !.fresh = TRUE]
    <2>1. call' = [call EXCEPT ![c] = q] /\ call[c].on = {w}
      BY <1>1, <1>4 DEF StartGet, CallRecords, TypeOK
    <2>2. m \in SUBSET Volumes
      BY DEF TypeOK, WorkspaceRecords
    <2> HIDE DEF m
    <2>3. /\ q \in CallRecords /\ q.pc = "resolve"
          /\ q.session = call[c].session /\ q.on = call[c].on
      <3>1. call[c] \in CallRecords
        BY <1>1
      <3>2. QED
        BY <3>1, <2>2, ResolveFields
    <2> HIDE DEF q
    <2>4. QED
      BY <1>1, <1>4, <2>1, <2>3, MoveStays
  <1>5. CASE StartResolve(c, w) /\ MountsOf(w, call[c].mounts) \subseteq vols
    <2> DEFINE m == MountsOf(w, call[c].mounts)
               q == [call[c] EXCEPT !.pc = "check", !.mounts = m]
    <2>1. call' = [call EXCEPT ![c] = q] /\ call[c].pc = "resolve"
      BY <1>1, <1>5 DEF StartResolve, CallRecords, TypeOK
    <2>2. m \in SUBSET Volumes
      BY <1>5 DEF TypeOK
    <2> HIDE DEF m
    <2>3. q \in CallRecords /\ q.pc = "check" /\ q.session = NoSession /\ q.on = call[c].on
          /\ q.fresh = call[c].fresh
      BY <1>1, <2>2, CheckFields
    <2> HIDE DEF q
    <2>4. QED
      BY <1>1, <2>1, <2>3, MoveStays
  <1>6. CASE StartCheck(c, w) /\ call' # [call EXCEPT ![c] = Idle]
    <2> DEFINE q == [call[c] EXCEPT !.pc = "session"]
    <2>1. call' = [call EXCEPT ![c] = q] /\ call[c].pc = "check"
      BY <1>1, <1>6 DEF StartCheck, Return, Goto
    <2>2. q \in CallRecords /\ q.pc = "session" /\ q.session = NoSession /\ q.on = call[c].on
          /\ q.fresh = call[c].fresh
      BY <1>1, MoveFields
    <2> HIDE DEF q
    <2>3. QED
      BY <1>1, <2>1, <2>2, MoveStays
  <1>7. QED
    BY <1>2, <1>3, <1>4, <1>5, <1>6 DEF StartGet, StartResolve, Return

\* createWorkspaceSession: the new Session is held by its request alone.
LEMMA NewSession ==
  ASSUME TypeOK, SessionsOK, NEW c \in Callers, NEW w \in Workspaces, StartSession(c, w)
  PROVE  SessionsOK'
  <1> DEFINE s == CHOOSE s \in NewSessions : TRUE
             q == [call[c] EXCEPT !.pc = "save", !.session = s]
  <1>1. /\ s \in SessionIds /\ s \notin sessions
        /\ \A v \in Workspaces : ws[v].session # s
        /\ \A d \in Callers : call[d].session # s
    <2>1. s \in NewSessions
      BY DEF StartSession
    <2>2. QED
      BY <2>1 DEF NewSessions
  <1>2. /\ call[c] \in CallRecords /\ call \in [Callers -> CallRecords] /\ call[c].pc = "session"
        /\ sessions' = sessions \cup {s} /\ UNCHANGED <<ws, faults>>
    BY DEF TypeOK, StartSession
  <1>3. call' = [call EXCEPT ![c] = q]
    BY <1>2 DEF StartSession, CallRecords
  <1> HIDE DEF s
  <1>4. q.pc = "save" /\ q.session = s /\ q.on = call[c].on /\ q.fresh = call[c].fresh
    BY <1>2 DEF CallRecords
  <1> HIDE DEF q
  <1>5. \A d \in Callers : call'[d] = IF d = c THEN q ELSE call[d]
    BY <1>2, <1>3
  <1>6. SessionsHeld'
    BY <1>1, <1>2, <1>4, <1>5 DEF SessionsOK, SessionsHeld
  <1>7. CallsHold'
    <2> SUFFICES ASSUME NEW d \in Callers
                 PROVE  /\ call'[d].pc \in {"save", "undo"} <=> call'[d].session # NoSession
                        /\ call'[d].pc = "save" =>
                             /\ call'[d].session \in sessions'
                             /\ \A v \in Workspaces : ws'[v].session # call'[d].session
                        /\ call'[d].pc \in {"resolve", "check", "session", "save"} /\ call'[d].fresh =>
                             \A v \in Workspaces : call'[d].on = {v} => ws'[v].state = "STOPPED"
      BY DEF CallsHold
    <2>1. CASE d # c
      BY <1>2, <1>5, <2>1, Holder DEF SessionsOK
    <2>2. CASE d = c
      <3>1. s # NoSession
        BY <1>1, Holder DEF SessionsOK
      <3>2. QED
        BY <1>1, <1>2, <1>4, <1>5, <2>2, <3>1, Holder DEF SessionsOK
    <2>3. QED
      BY <2>1, <2>2
  <1>8. Strays' \subseteq Strays
    <2>1. call[c].session = NoSession /\ \A x \in sessions : x # NoSession
      BY <1>2, Holder DEF SessionsOK, TypeOK
    <2>2. QED
      BY <1>2, <1>4, <1>5, <2>1 DEF Strays
  <1>9. Bereft' \subseteq Bereft
    BY <1>2 DEF Bereft, Active
  <1>10. Debts' \subseteq Debts
    BY <1>2, <1>4, <1>5 DEF Debts
  <1>11. QED
    BY <1>2, <1>6, <1>7, <1>8, <1>9, <1>10, PaidSame DEF SessionsOK

\* The write of a start: the Session goes to the Workspace, and stays with the request
\* when the answer is lost.
LEMMA SaveSessions ==
  ASSUME TypeOK, SessionsOK, NEW c \in Callers, NEW w \in Workspaces, StartSave(c, w), MaySave(c)
  PROVE  SessionsOK'
  <1> DEFINE s == call[c].session
  <1>1. /\ call \in [Callers -> CallRecords] /\ call[c].pc = "save" /\ call[c].on = {w}
        /\ UNCHANGED sessions /\ Started(c, w)
        /\ ws \in [Workspaces -> WorkspaceRecords]
    BY DEF TypeOK, StartSave
  <1>2. /\ s \in sessions /\ s # NoSession /\ \A v \in Workspaces : ws[v].session # s
        /\ ws[w].state = "STOPPED"
    BY <1>1, Holder DEF SessionsOK, MaySave
  <1>3. ws[w].session = NoSession
    BY <1>2 DEF SessionsOK, SessionsHeld
  <1>4. /\ ws'[w].state # "STOPPED" /\ ws'[w].session = s
        /\ \A v \in Workspaces : v # w => ws'[v] = ws[v]
    <2>1. ws' = [ws EXCEPT ![w] = [ws[w] EXCEPT !.state = "INIT_REQUEST", !.session = s]]
      BY <1>1 DEF Started, WorkspaceRecords
    <2>2. LET r == [ws[w] EXCEPT !.state = "INIT_REQUEST", !.session = s] IN
          r.state = "INIT_REQUEST" /\ r.session = s
      BY <1>1 DEF WorkspaceRecords
    <2>3. QED
      BY <1>1, <2>1, <2>2
  <1>5. PICK q : /\ call' = [Stale(call, w) EXCEPT ![c] = q]
                 /\ \/ q.pc = "idle" /\ q.session = NoSession /\ UNCHANGED faults
                    \/ q.pc = "undo" /\ q.session = s /\ faults' = faults + 1
    <2>1. CASE call' = [Stale(call, w) EXCEPT ![c] = Idle] /\ UNCHANGED faults
      BY <2>1, IdleFields
    <2>2. CASE call' = [Stale(call, w) EXCEPT ![c].pc = "undo"] /\ faults' = faults + 1
      <3>1. Stale(call, w)[c] \in CallRecords /\ Stale(call, w)[c].session = s
        BY <1>1, StaleFields
      <3>2. LET t == [Stale(call, w)[c] EXCEPT !.pc = "undo"] IN t.pc = "undo" /\ t.session = s
        BY <3>1 DEF CallRecords
      <3>3. QED
        BY <2>2, <3>2
    <2>3. QED
      BY <2>1, <2>2 DEF StartSave
  <1>6. /\ call'[c] = q
        /\ \A d \in Callers : d # c =>
             /\ call'[d].pc = call[d].pc /\ call'[d].session = call[d].session
             /\ call'[d].on = call[d].on /\ (call'[d].fresh => call[d].fresh /\ call[d].on # {w})
    <2>1. Stale(call, w) \in [Callers -> CallRecords]
      BY <1>1, StaleType
    <2>2. QED
      BY <1>1, <1>5, <2>1, StaleFields
  <1>7. \A d \in Callers : d # c => call[d].session # s
    BY <1>2 DEF SessionsOK, SessionsHeld
  <1> HIDE DEF s
  <1>8. SessionsHeld'
    <2>1. \A v \in Workspaces : ws'[v].state = "STOPPED" => ws'[v].session = NoSession
      BY <1>4 DEF SessionsOK, SessionsHeld
    <2>2. \A v, u \in Workspaces : v # u /\ ws'[v].session = ws'[u].session => ws'[v].session = NoSession
      BY <1>2, <1>4 DEF SessionsOK, SessionsHeld
    <2>3. \A d, e \in Callers : d # e /\ call'[d].session = call'[e].session =>
                                  call'[d].session = NoSession
      BY <1>5, <1>6, <1>7 DEF SessionsOK, SessionsHeld
    <2>4. QED
      BY <2>1, <2>2, <2>3 DEF SessionsHeld
  <1>9. CallsHold'
    <2> SUFFICES ASSUME NEW d \in Callers
                 PROVE  /\ call'[d].pc \in {"save", "undo"} <=> call'[d].session # NoSession
                        /\ call'[d].pc = "save" =>
                             /\ call'[d].session \in sessions'
                             /\ \A v \in Workspaces : ws'[v].session # call'[d].session
                        /\ call'[d].pc \in {"resolve", "check", "session", "save"} /\ call'[d].fresh =>
                             \A v \in Workspaces : call'[d].on = {v} => ws'[v].state = "STOPPED"
      BY DEF CallsHold
    <2>1. CASE d = c
      BY <1>2, <1>5, <1>6, <2>1
    <2>2. CASE d # c
      BY <1>1, <1>4, <1>6, <1>7, <2>2, Holder DEF SessionsOK
    <2>3. QED
      BY <2>1, <2>2
  <1>10. Strays' \subseteq Strays
    <2> SUFFICES ASSUME NEW x \in Strays' PROVE x \in Strays
      OBVIOUS
    <2>1. /\ x \in sessions /\ \A v \in Workspaces : ws'[v].session # x
          /\ \A d \in Callers : call'[d].session # x
      BY <1>1 DEF Strays
    <2>2. x # s /\ x # NoSession
      BY <1>4, <2>1, Holder DEF SessionsOK, TypeOK
    <2>3. \A d \in Callers : call[d].session # x
      BY <1>6, <2>1, <2>2 DEF s
    <2>4. QED
      BY <1>3, <1>4, <2>1, <2>2, <2>3 DEF Strays
  <1>11. Bereft' \subseteq Bereft
    BY <1>1, <1>2, <1>4 DEF Bereft, Active
  <1>12. Debts' \subseteq Debts \cup {c} /\ (q.pc = "idle" => Debts' \subseteq Debts)
    BY <1>4, <1>6, <1>7 DEF Debts
  <1>13. DebtsPaid'
    <2>1. CASE q.pc = "idle"
      BY <1>5, <1>10, <1>11, <1>12, <2>1, PaidSame DEF SessionsOK
    <2>2. CASE q.pc # "idle"
      BY <1>5, <1>10, <1>11, <1>12, <2>2, PaidFault DEF SessionsOK
    <2>3. QED
      BY <2>1, <2>2
  <1>14. QED
    BY <1>8, <1>9, <1>13 DEF SessionsOK

\* The write of a start that conflicts leaves the Session to be undone.
LEMMA ConflictSessions ==
  ASSUME TypeOK, SessionsOK, NEW c \in Callers, NEW w \in Workspaces, StartSave(c, w), ~MaySave(c)
  PROVE  SessionsOK'
  <1> DEFINE q == [call[c] EXCEPT !.pc = "undo"]
  <1>1. /\ call[c] \in CallRecords /\ call \in [Callers -> CallRecords] /\ call[c].pc = "save"
        /\ call' = [call EXCEPT ![c] = q] /\ UNCHANGED <<ws, sessions, faults>>
    BY DEF TypeOK, StartSave, Goto
  <1>2. q.pc = "undo" /\ q.session = call[c].session
    BY <1>1 DEF CallRecords
  <1> HIDE DEF q
  <1>3. \A d \in Callers : call'[d] = IF d = c THEN q ELSE call[d]
    BY <1>1
  <1>4. SessionsHeld'
    BY <1>1, <1>2, <1>3 DEF SessionsOK, SessionsHeld
  <1>5. CallsHold'
    BY <1>1, <1>2, <1>3 DEF SessionsOK, CallsHold
  <1>6. \A v \in Workspaces : ws[v].session # call[c].session
    BY <1>1, Holder DEF SessionsOK
  <1>7. Strays' \subseteq Strays /\ Bereft' \subseteq Bereft /\ Debts' \subseteq Debts
    BY <1>1, <1>2, <1>3, <1>6 DEF Strays, Bereft, Active, Debts
  <1>8. QED
    BY <1>1, <1>4, <1>5, <1>7, PaidSame DEF SessionsOK

\* The DeleteSession of a failed start takes the Session of a run only when the answer
\* to the write was lost.
LEMMA UndoSessions ==
  ASSUME TypeOK, SessionsOK, NEW c \in Callers, StartUndo(c)
  PROVE  SessionsOK'
  <1> DEFINE s == call[c].session
  <1>1. /\ call \in [Callers -> CallRecords] /\ call[c].pc = "undo" /\ s # NoSession
        /\ UNCHANGED ws /\ call' = [call EXCEPT ![c] = Idle]
    BY Holder DEF TypeOK, StartUndo, Return, SessionsOK
  <1>2. \A d \in Callers : call'[d] = IF d = c THEN Idle ELSE call[d]
    BY <1>1
  <1>3. \A d \in Callers : d # c => call[d].session # s
    BY <1>1 DEF SessionsOK, SessionsHeld
  <1>4. \/ sessions' = sessions \ {s} /\ UNCHANGED faults
        \/ UNCHANGED sessions /\ faults' = faults + 1
    BY DEF StartUndo, Undone
  <1> HIDE DEF s
  <1>5. SessionsHeld'
    BY <1>1, <1>2, IdleFields DEF SessionsOK, SessionsHeld
  <1>6. CallsHold'
    <2> SUFFICES ASSUME NEW d \in Callers
                 PROVE  /\ call'[d].pc \in {"save", "undo"} <=> call'[d].session # NoSession
                        /\ call'[d].pc = "save" =>
                             /\ call'[d].session \in sessions'
                             /\ \A v \in Workspaces : ws'[v].session # call'[d].session
                        /\ call'[d].pc \in {"resolve", "check", "session", "save"} /\ call'[d].fresh =>
                             \A v \in Workspaces : call'[d].on = {v} => ws'[v].state = "STOPPED"
      BY DEF CallsHold
    <2>1. CASE d = c
      BY <1>2, <2>1, IdleFields
    <2>2. CASE d # c
      BY <1>1, <1>2, <1>3, <1>4, <2>2, Holder DEF SessionsOK
    <2>3. QED
      BY <2>1, <2>2
  <1>7. Debts' \subseteq Debts \ {c}
    BY <1>1, <1>2, IdleFields DEF Debts
  <1>8. CASE UNCHANGED sessions /\ faults' = faults + 1
    <2>1. Strays' \subseteq Strays \cup {s}
      BY <1>1, <1>2, <1>8 DEF Strays, s
    <2>2. Bereft' \subseteq Bereft
      BY <1>1, <1>8 DEF Bereft, Active
    <2>3. QED
      BY <1>5, <1>6, <1>7, <1>8, <2>1, <2>2, PaidFault DEF SessionsOK
  <1>9. CASE sessions' = sessions \ {s} /\ UNCHANGED faults
    <2>1. Strays' \subseteq Strays
      BY <1>1, <1>2, <1>9 DEF Strays, s
    <2>2. CASE \E w \in Workspaces : ws[w].session = s
      <3>1. PICK w \in Workspaces : ws[w].session = s
        BY <2>2
      <3>2. \A v \in Workspaces : v # w => ws[v].session # s
        BY <1>1, <3>1 DEF SessionsOK, SessionsHeld
      <3>3. Bereft' \subseteq Bereft \cup {w}
        BY <1>1, <1>9, <3>2 DEF Bereft, Active
      <3>4. c \in Debts
        BY <1>1, <3>1 DEF Debts, s
      <3>5. QED
        BY <1>5, <1>6, <1>7, <1>9, <2>1, <3>3, <3>4, PaidDebt DEF SessionsOK
    <2>3. CASE ~\E w \in Workspaces : ws[w].session = s
      <3>1. Bereft' \subseteq Bereft
        BY <1>1, <1>9, <2>3 DEF Bereft, Active
      <3>2. QED
        BY <1>5, <1>6, <1>7, <1>9, <2>1, <3>1, PaidSame DEF SessionsOK
    <2>4. QED
      BY <2>2, <2>3
  <1>10. QED
    BY <1>4, <1>8, <1>9

\* The requests that change what a start has looked at have no Session.
LEMMA ChangeSessions ==
  ASSUME TypeOK, SessionsOK, NEW c \in Callers, ChangeSteps(c)
  PROVE  SessionsOK'
  <1>1. /\ call[c] \in CallRecords /\ call[c].session = NoSession /\ UNCHANGED <<sessions, faults>>
        /\ call[c].pc \in {"idle", "update", "template", "listed", "delete"}
        /\ call \in [Callers -> CallRecords]
    BY Holder DEF SessionsOK, TypeOK, ChangeSteps, UpdateWorkspace, UpdateSave, UpdateTemplate,
                  TemplateSave, DeleteVolume, DeleteList, DeleteDo
  <1>2. CASE call' = [call EXCEPT ![c] = Idle] /\ UNCHANGED ws
    BY <1>1, <1>2, IdleFields, MoveStays
  <1>3. ASSUME NEW w \in Workspaces, NEW m \in Mounts, UpdateWorkspace(c, w, m)
        PROVE  SessionsOK'
    <2> DEFINE q == [Idle EXCEPT !.pc = "update", !.on = {w}, !.mounts = m, !.fresh = TRUE]
    <2>1. m \subseteq Volumes /\ call' = [call EXCEPT ![c] = q] /\ UNCHANGED ws
      BY <1>3, AdmissionAssumption DEF UpdateWorkspace
    <2>2. q \in CallRecords /\ q.pc = "update" /\ q.session = NoSession
      BY <2>1, IdleFields DEF CallRecords
    <2> HIDE DEF q
    <2>3. QED
      BY <1>1, <2>1, <2>2, MoveStays
  <1>4. ASSUME NEW m \in Mounts, UpdateTemplate(c, m)
        PROVE  SessionsOK'
    <2> DEFINE q == [Idle EXCEPT !.pc = "template", !.on = {"tmpl"}, !.mounts = m, !.fresh = TRUE]
    <2>1. m \subseteq Volumes /\ call' = [call EXCEPT ![c] = q] /\ UNCHANGED ws
      BY <1>4, AdmissionAssumption DEF UpdateTemplate
    <2>2. q \in CallRecords /\ q.pc = "template" /\ q.session = NoSession
      BY <2>1, IdleFields DEF CallRecords
    <2> HIDE DEF q
    <2>3. QED
      BY <1>1, <2>1, <2>2, MoveStays
  <1>5. ASSUME NEW v \in Volumes, DeleteVolume(c, v)
        PROVE  SessionsOK'
    <2> DEFINE q == [Idle EXCEPT !.pc = "listed", !.mounts = {v}]
    <2>1. call' = [call EXCEPT ![c] = q] /\ UNCHANGED ws
      BY <1>5 DEF DeleteVolume
    <2>2. q \in CallRecords /\ q.pc = "listed" /\ q.session = NoSession
      BY IdleFields DEF CallRecords
    <2> HIDE DEF q
    <2>3. QED
      BY <1>1, <2>1, <2>2, MoveStays
  <1>6. ASSUME NEW v \in Volumes, DeleteList(c, v), ~MountedByWorkspace(v)
        PROVE  SessionsOK'
    <2> DEFINE q == [call[c] EXCEPT !.pc = "delete"]
    <2>1. call' = [call EXCEPT ![c] = q] /\ UNCHANGED ws
      BY <1>6 DEF DeleteList, Goto, TypeOK
    <2>2. q \in CallRecords /\ q.pc = "delete" /\ q.session = NoSession
      BY <1>1, MoveFields
    <2> HIDE DEF q
    <2>3. QED
      BY <1>1, <2>1, <2>2, MoveStays
  <1>7. ASSUME NEW r, call' = [Stale(call, r) EXCEPT ![c] = Idle],
               \A v \in Workspaces : /\ ws'[v].session = ws[v].session
                                     /\ ws'[v].state = ws[v].state
        PROVE  SessionsOK'
    <2>1. \A d \in Callers :
            /\ call'[d].session = call[d].session
            /\ call'[d].pc = "save" <=> call[d].pc = "save"
            /\ call'[d].pc = "undo" <=> call[d].pc = "undo"
            /\ call'[d].pc \in {"resolve", "check", "session", "save"} /\ call'[d].fresh =>
                 \A v \in Workspaces : call'[d].on = {v} => ws[v].state = "STOPPED"
      <3> SUFFICES ASSUME NEW d \in Callers
                   PROVE  /\ call'[d].session = call[d].session
                          /\ call'[d].pc = "save" <=> call[d].pc = "save"
                          /\ call'[d].pc = "undo" <=> call[d].pc = "undo"
                          /\ call'[d].pc \in {"resolve", "check", "session", "save"} /\ call'[d].fresh =>
                               \A v \in Workspaces : call'[d].on = {v} => ws[v].state = "STOPPED"
        OBVIOUS
      <3>1. Stale(call, r) \in [Callers -> CallRecords]
        BY <1>1, StaleType
      <3>2. CASE d = c
        BY <1>1, <1>7, <3>1, <3>2, IdleFields
      <3>3. CASE d # c
        BY <1>1, <1>7, <3>1, <3>3, StaleFields, Holder DEF SessionsOK
      <3>4. QED
        BY <3>2, <3>3
    <2>2. QED
      BY <1>1, <1>7, <2>1, HoldersStay
  <1>8. ASSUME NEW w \in Workspaces, UpdateSave(c, w), call[c].fresh
        PROVE  SessionsOK'
    <2> DEFINE t == [ws[w] EXCEPT !.mounts = call[c].mounts]
    <2>1. /\ t.session = ws[w].session /\ t.state = ws[w].state
          /\ ws' = [ws EXCEPT ![w] = t] /\ ws \in [Workspaces -> WorkspaceRecords]
      BY <1>8 DEF UpdateSave, TypeOK, WorkspaceRecords
    <2> HIDE DEF t
    <2>2. \A v \in Workspaces : ws'[v].session = ws[v].session /\ ws'[v].state = ws[v].state
      BY <2>1
    <2>3. QED
      BY <1>7, <1>8, <2>2 DEF UpdateSave
  <1>9. CASE TemplateSave(c) /\ call[c].fresh
    BY <1>7, <1>9 DEF TemplateSave
  <1>10. QED
    BY <1>2, <1>3, <1>4, <1>5, <1>6, <1>8, <1>9
       DEF ChangeSteps, UpdateSave, TemplateSave, DeleteList, DeleteDo, Return

\* The end of a run takes its Session with it.
LEMMA RunSessions ==
  ASSUME TypeOK, SessionsOK, NEW w \in Workspaces,
         StopWorkspace(w) \/ NocturneStart(w) \/ Stopped(w)
  PROVE  SessionsOK'
  <1>1. /\ ws \in [Workspaces -> WorkspaceRecords] /\ call \in [Callers -> CallRecords]
        /\ call' = Stale(call, w) /\ UNCHANGED faults /\ ws[w].state # "STOPPED"
    BY DEF TypeOK, StopWorkspace, NocturneStart, Stopped
  <1>2. \A d \in Callers :
          /\ call'[d].pc = call[d].pc /\ call'[d].session = call[d].session
          /\ call'[d].on = call[d].on /\ (call'[d].fresh => call[d].fresh /\ call[d].on # {w})
    BY <1>1, StaleFields
  <1>3. ASSUME NEW st \in {"RUNNING", "STOPPING_REQUEST"}, ws' = [ws EXCEPT ![w].state = st],
               UNCHANGED sessions
        PROVE  SessionsOK'
    <2>1. LET r == [ws[w] EXCEPT !.state = st] IN r.state = st /\ r.session = ws[w].session
      BY <1>1 DEF WorkspaceRecords
    <2>2. \A v \in Workspaces : /\ ws'[v].session = ws[v].session
                                /\ ws'[v].state = "STOPPED" <=> ws[v].state = "STOPPED"
      BY <1>1, <1>3, <2>1
    <2>3. \A d \in Callers :
            call[d].pc \in {"resolve", "check", "session", "save"} /\ call[d].fresh =>
              \A v \in Workspaces : call[d].on = {v} => ws[v].state = "STOPPED"
      BY Holder DEF SessionsOK
    <2>4. QED
      BY <1>1, <1>2, <1>3, <2>2, <2>3, HoldersStay
  <1>4. ASSUME RunEnds(w)
        PROVE  SessionsOK'
    <2> DEFINE s == ws[w].session
    <2>1. /\ ws'[w].state = "STOPPED" /\ ws'[w].session = NoSession
          /\ \A v \in Workspaces : v # w => ws'[v] = ws[v]
      <3>1. LET r == [ws[w] EXCEPT !.state = "STOPPED", !.session = NoSession] IN
            r.state = "STOPPED" /\ r.session = NoSession
        BY <1>1 DEF WorkspaceRecords
      <3>2. ws' = [ws EXCEPT ![w] = [ws[w] EXCEPT !.state = "STOPPED", !.session = NoSession]]
        BY <1>1, <1>4 DEF RunEnds, WorkspaceRecords
      <3>3. QED
        BY <1>1, <3>1, <3>2
    <2>2. sessions' = sessions \ {s} /\ \A x \in sessions : x # NoSession
      BY <1>4, AdmissionAssumption DEF RunEnds, TypeOK, NoSession
    <2> HIDE DEF s
    <2>3. SessionsHeld'
      BY <1>2, <2>1 DEF SessionsOK, SessionsHeld
    <2>4. CallsHold'
      <3> SUFFICES ASSUME NEW d \in Callers
                   PROVE  /\ call'[d].pc \in {"save", "undo"} <=> call'[d].session # NoSession
                          /\ call'[d].pc = "save" =>
                               /\ call'[d].session \in sessions'
                               /\ \A v \in Workspaces : ws'[v].session # call'[d].session
                          /\ call'[d].pc \in {"resolve", "check", "session", "save"} /\ call'[d].fresh =>
                               \A v \in Workspaces : call'[d].on = {v} => ws'[v].state = "STOPPED"
        BY DEF CallsHold
      <3>1. call[d].pc \in {"save", "undo"} <=> call[d].session # NoSession
        BY Holder DEF SessionsOK
      <3>2. call[d].pc = "save" => call[d].session \in sessions'
                                   /\ \A v \in Workspaces : ws'[v].session # call[d].session
        BY <2>1, <2>2, <3>1, Holder DEF SessionsOK, s
      <3>3. QED
        BY <1>2, <2>1, <3>1, <3>2, Holder DEF SessionsOK
    <2>5. Strays' \subseteq Strays
      BY <1>2, <2>1, <2>2 DEF Strays, s
    <2>6. Bereft' \subseteq Bereft
      <3> SUFFICES ASSUME NEW v \in Bereft' PROVE v \in Bereft
        OBVIOUS
      <3>1. v \in Workspaces /\ v # w /\ ws[v].state # "STOPPED" /\ ws[v].session \notin sessions'
        BY <2>1 DEF Bereft, Active
      <3>2. ws[v].session = s => s = NoSession
        BY <3>1 DEF SessionsOK, SessionsHeld, s
      <3>3. QED
        BY <2>2, <3>1, <3>2 DEF Bereft, Active
    <2>7. Debts' \subseteq Debts
      <3>1. \A d \in Callers : call[d].pc = "undo" => call[d].session # NoSession
        BY Holder DEF SessionsOK
      <3>2. QED
        BY <1>2, <2>1, <3>1 DEF Debts
    <2>8. QED
      BY <1>1, <2>3, <2>4, <2>5, <2>6, <2>7, PaidSame DEF SessionsOK
  <1>5. QED
    BY <1>3, <1>4 DEF StopWorkspace, NocturneStart, Stopped

LEMMA NextSessions == SessionIInv /\ [Next]_vars => SessionsOK'
  <1> SUFFICES ASSUME TypeOK, SessionsOK, [Next]_vars PROVE SessionsOK'
    BY DEF SessionIInv, SessionsOK
  <1>1. CASE UNCHANGED vars
    BY <1>1 DEF vars, SessionsOK, SessionsHeld, CallsHold, DebtsPaid, Strays, Bereft, Active, Debts
  <1>2. ASSUME NEW c \in Callers, StartSteps(c)
        PROVE  SessionsOK'
    BY <1>2, EarlySessions, NewSession, SaveSessions, ConflictSessions, UndoSessions DEF StartSteps
  <1>3. QED
    BY <1>1, <1>2, ChangeSessions, RunSessions DEF Next

\* A Session that nobody holds, and a run without its Session, are left behind only by
\* store calls that failed, at most one by each, however many starts and runs overlap
\* (createWorkspaceSession, the DeleteSession of a failed start).
THEOREM SessionsPaid == Spec => []SessionsAgree
  <1>1. Init => SessionIInv
    <2> SUFFICES ASSUME Init PROVE SessionIInv
      OBVIOUS
    <2>1. TypeOK
      BY InitAdmission
    <2>2. \A w \in Workspaces : ws[w].state = "STOPPED" /\ ws[w].session = NoSession
      BY DEF Init
    <2>3. \A c \in Callers : call[c] = Idle
      BY DEF Init
    <2>4. SessionsHeld /\ CallsHold
      BY <2>2, <2>3, IdleFields DEF SessionsHeld, CallsHold
    <2>5. Strays = {} /\ Bereft = {} /\ Debts = {} /\ faults = 0
      BY <2>2, <2>3, IdleFields DEF Init, Strays, Bereft, Active, Debts
    <2>6. Cardinality(Strays) = 0 /\ Cardinality(Bereft) = 0 /\ Cardinality(Debts) = 0
      BY <2>5, FS_EmptySet
    <2>7. QED
      BY <2>1, <2>4, <2>5, <2>6 DEF SessionIInv, DebtsPaid
  <1>2. TypeOK /\ RoomForPending /\ SessionIInv /\ [Next]_vars
          => TypeOK' /\ RoomForPending' /\ SessionIInv'
    BY NextAdmission, NextSessions DEF SessionIInv, SessionsOK
  <1>3. SessionIInv => SessionsAgree
    BY SessionCounts DEF SessionIInv, DebtsPaid, SessionsAgree
  <1>4. QED
    BY <1>1, <1>2, <1>3, InitAdmission, PTL DEF Spec

-----------------------------------------------------------------------------
(* The Volumes, when requests come one after the other. *)

LEMMA PcFields ==
  ASSUME NEW q \in CallRecords, NEW pc
  PROVE  LET t == [q EXCEPT !.pc = pc] IN t.pc = pc /\ t.mounts = q.mounts /\ t.on = q.on
BY DEF CallRecords

LEMMA StaleKeeps ==
  ASSUME NEW calls \in [Callers -> CallRecords], NEW r, NEW c \in Callers
  PROVE  LET q == Stale(calls, r)[c] IN
         q.pc = calls[c].pc /\ q.mounts = calls[c].mounts /\ q.on = calls[c].on
<1>1. \A q \in CallRecords : \A b :
        LET t == [q EXCEPT !.fresh = b] IN t.pc = q.pc /\ t.mounts = q.mounts /\ t.on = q.on
  BY DEF CallRecords
<1> QED
  BY <1>1 DEF Stale

\* The requests other than c are where they were.
OthersKept(c) ==
  \A d \in Callers \ {c} :
    call'[d].pc = call[d].pc /\ call'[d].mounts = call[d].mounts /\ call'[d].on = call[d].on

LEMMA CallMoves ==
  ASSUME TypeOK, NEW c \in Callers, NEW q, NEW r,
         call' = [call EXCEPT ![c] = q] \/ call' = [Stale(call, r) EXCEPT ![c] = q]
  PROVE  call'[c] = q /\ OthersKept(c)
<1>1. Stale(call, r) \in [Callers -> CallRecords] /\ call \in [Callers -> CallRecords]
  BY StaleType DEF TypeOK
<1> QED
  BY <1>1, StaleKeeps DEF OthersKept

\* A write of the state and the Session of a Workspace, by the step that it is part of.
LEMMA StateWrites ==
  ASSUME TypeOK, NEW w \in Workspaces
  PROVE  /\ \A c \in Callers : Started(c, w) =>
              \A v \in Workspaces : ws'[v].mounts = ws[v].mounts /\ (v # w => ws'[v] = ws[v])
         /\ StopWorkspace(w) \/ NocturneStart(w) \/ Stopped(w) =>
              \A v \in Workspaces : ws'[v].mounts = ws[v].mounts /\ (v # w => ws'[v] = ws[v])
<1> DEFINE r(st) == [ws[w] EXCEPT !.state = st]
           t(st, s) == [ws[w] EXCEPT !.state = st, !.session = s]
           Kept == \A v \in Workspaces : ws'[v].mounts = ws[v].mounts /\ (v # w => ws'[v] = ws[v])
<1>1. ws \in [Workspaces -> WorkspaceRecords] /\ ws[w] \in WorkspaceRecords
  BY DEF TypeOK
<1>2. ASSUME NEW st PROVE r(st).mounts = ws[w].mounts
  BY <1>1 DEF WorkspaceRecords
<1>3. ASSUME NEW st, NEW s PROVE t(st, s).mounts = ws[w].mounts
  BY <1>1 DEF WorkspaceRecords
<1>4. ASSUME NEW q, q.mounts = ws[w].mounts, ws' = [ws EXCEPT ![w] = q] PROVE Kept
  BY <1>1, <1>4
<1>5. ASSUME NEW c \in Callers, Started(c, w) PROVE Kept
  <2>1. ws' = [ws EXCEPT ![w] = t("INIT_REQUEST", call[c].session)]
    BY <1>1, <1>5 DEF Started, WorkspaceRecords
  <2> HIDE DEF t, Kept
  <2> QED
    BY <1>3, <1>4, <2>1
<1>6. ASSUME StopWorkspace(w) PROVE Kept
  <2>1. ws' = [ws EXCEPT ![w] = r("STOPPING_REQUEST")]
    BY <1>6 DEF StopWorkspace
  <2> HIDE DEF r, Kept
  <2> QED
    BY <1>2, <1>4, <2>1
<1>7. ASSUME RunEnds(w) PROVE Kept
  <2>1. ws' = [ws EXCEPT ![w] = t("STOPPED", NoSession)]
    BY <1>1, <1>7 DEF RunEnds, WorkspaceRecords
  <2> HIDE DEF t, Kept
  <2> QED
    BY <1>3, <1>4, <2>1
<1>8. ASSUME ws' = [ws EXCEPT ![w].state = "RUNNING"] PROVE Kept
  <2>1. ws' = [ws EXCEPT ![w] = r("RUNNING")]
    BY <1>8
  <2> HIDE DEF r, Kept
  <2> QED
    BY <1>2, <1>4, <2>1
<1>9. ASSUME NocturneStart(w) \/ Stopped(w) PROVE Kept
  BY <1>7, <1>8, <1>9 DEF NocturneStart, Stopped
<1> HIDE DEF Kept
<1>10. /\ \A c \in Callers : Started(c, w) => Kept
       /\ StopWorkspace(w) \/ NocturneStart(w) \/ Stopped(w) => Kept
  BY <1>5, <1>6, <1>9
<1> QED
  BY <1>10 DEF Kept

\* A step of a run writes the mounts of no spec and moves no request.
LEMMA RunMoves ==
  ASSUME TypeOK, NEW w \in Workspaces, StopWorkspace(w) \/ NocturneStart(w) \/ Stopped(w)
  PROVE  /\ UNCHANGED <<tmpl, vols>> /\ \A v \in Workspaces : ws'[v].mounts = ws[v].mounts
         /\ \A d \in Callers : /\ call'[d].pc = call[d].pc
                               /\ call'[d].mounts = call[d].mounts /\ call'[d].on = call[d].on
<1>1. /\ ws \in [Workspaces -> WorkspaceRecords] /\ call \in [Callers -> CallRecords]
      /\ call' = Stale(call, w) /\ UNCHANGED <<tmpl, vols>>
  BY DEF TypeOK, StopWorkspace, NocturneStart, Stopped
<1>2. \A v \in Workspaces : ws'[v].mounts = ws[v].mounts
  BY StateWrites
<1> QED
  BY <1>1, <1>2, StaleKeeps

\* A step of a start writes the mounts of no spec.
LEMMA StartMoves ==
  ASSUME TypeOK, NEW c \in Callers, StartSteps(c)
  PROVE  /\ UNCHANGED <<tmpl, vols>> /\ \A v \in Workspaces : ws'[v].mounts = ws[v].mounts
         /\ call'[c].pc \in {"idle", "get", "resolve", "check", "session", "save", "undo"}
         /\ OthersKept(c)
<1>1. /\ ws \in [Workspaces -> WorkspaceRecords] /\ call \in [Callers -> CallRecords]
      /\ call[c] \in CallRecords /\ UNCHANGED <<tmpl, vols>>
  BY DEF TypeOK, StartSteps, StartWorkspace, StartGet, StartResolve, StartCheck, StartSession,
         StartSave, StartUndo
<1>2. \A v \in Workspaces : ws'[v].mounts = ws[v].mounts
  <2>1. ASSUME NEW w \in Workspaces, Started(c, w)
        PROVE  \A v \in Workspaces : ws'[v].mounts = ws[v].mounts
    BY <2>1, StateWrites
  <2>2. UNCHANGED ws \/ \E w \in Workspaces : Started(c, w)
    BY DEF StartSteps, StartWorkspace, StartGet, StartResolve, StartCheck, StartSession,
           StartSave, StartUndo
  <2> QED
    BY <2>1, <2>2
<1>3. \E q, r : /\ call' = [call EXCEPT ![c] = q] \/ call' = [Stale(call, r) EXCEPT ![c] = q]
                /\ q.pc \in {"idle", "get", "resolve", "check", "session", "save", "undo"}
  <2>1. CASE Return(c)
    BY <2>1, IdleFields DEF Return
  <2>2. ASSUME NEW pc \in {"session", "undo"}, Goto(c, pc)
        PROVE  call' = [call EXCEPT ![c] = [call[c] EXCEPT !.pc = pc]]
               /\ [call[c] EXCEPT !.pc = pc].pc = pc
    BY <1>1, <2>2, PcFields DEF Goto
  <2>3. ASSUME NEW w \in Workspaces, StartWorkspace(c, w)
        PROVE  LET q == [Idle EXCEPT !.pc = "get", !.on = {w}] IN
               call' = [call EXCEPT ![c] = q] /\ q.pc = "get"
    BY <2>3 DEF StartWorkspace, Idle
  <2>4. ASSUME NEW w \in Workspaces, StartGet(c, w), ~Return(c)
        PROVE  LET q == [call[c] EXCEPT !.pc = "resolve", !.mounts = ws[w].mounts, !.fresh = TRUE] IN
               call' = [call EXCEPT ![c] = q] /\ q.pc = "resolve"
    BY <1>1, <2>4 DEF StartGet, CallRecords
  <2>5. ASSUME NEW w \in Workspaces, StartResolve(c, w), ~Return(c)
        PROVE  LET q == [call[c] EXCEPT !.pc = "check", !.mounts = MountsOf(w, call[c].mounts)] IN
               call' = [call EXCEPT ![c] = q] /\ q.pc = "check"
    BY <1>1, <2>5 DEF StartResolve, CallRecords
  <2>6. ASSUME NEW w \in Workspaces, StartSession(c, w)
        PROVE  \E s : LET q == [call[c] EXCEPT !.pc = "save", !.session = s] IN
                      call' = [call EXCEPT ![c] = q] /\ q.pc = "save"
    BY <1>1, <2>6 DEF StartSession, CallRecords
  <2>7. ASSUME NEW w \in Workspaces, StartSave(c, w), ~Goto(c, "undo")
        PROVE  \/ call' = [Stale(call, w) EXCEPT ![c] = Idle]
               \/ LET q == [Stale(call, w)[c] EXCEPT !.pc = "undo"] IN
                  call' = [Stale(call, w) EXCEPT ![c] = q] /\ q.pc = "undo"
    <3>1. Stale(call, w) \in [Callers -> CallRecords]
      BY <1>1, StaleType
    <3> QED
      BY <2>7, <3>1, PcFields DEF StartSave
  <2>8. ASSUME NEW w \in Workspaces, StartSave(c, w), ~Goto(c, "undo")
        PROVE  \E q, r : /\ call' = [Stale(call, r) EXCEPT ![c] = q]
                         /\ q.pc \in {"idle", "undo"}
    BY <2>7, <2>8, IdleFields
  <2>9. ASSUME NEW w \in Workspaces,
               \/ StartWorkspace(c, w) \/ StartGet(c, w) \/ StartResolve(c, w)
               \/ StartCheck(c, w) \/ StartSession(c, w), ~Return(c)
        PROVE  \E q : /\ call' = [call EXCEPT ![c] = q]
                      /\ q.pc \in {"get", "resolve", "check", "session", "save"}
    <3>1. CASE StartCheck(c, w)
      BY <2>2, <2>9, <3>1 DEF StartCheck
    <3> QED
      BY <2>3, <2>4, <2>5, <2>6, <2>9, <3>1
  <2>10. CASE StartUndo(c)
    BY <2>1, <2>10 DEF StartUndo
  <2>11. ASSUME NEW w \in Workspaces, StartSave(c, w), Goto(c, "undo")
         PROVE  \E q : call' = [call EXCEPT ![c] = q] /\ q.pc = "undo"
    BY <2>2, <2>11
  <2> QED
    BY <2>1, <2>8, <2>9, <2>10, <2>11 DEF StartSteps
<1> QED
  BY <1>1, <1>2, <1>3, CallMoves

-----------------------------------------------------------------------------
(* MountedExists. *)

\* The requests other than c are idle: what they have looked at does not matter.
LEMMA AloneLooked ==
  ASSUME OneRequest, NEW c \in Callers, call[c].pc # "idle", OthersKept(c),
         /\ call'[c].pc \in {"update", "template"} => call'[c].mounts \subseteq vols'
         /\ call'[c].pc \in {"listed", "delete"} => call'[c].mounts \cap tmpl' = {}
         /\ call'[c].pc = "delete" => \A w \in Workspaces : call'[c].mounts \cap ws'[w].mounts = {}
  PROVE  VolumesLooked'
<1>1. \A d \in Callers \ {c} : call'[d].pc = "idle"
  BY DEF OneRequest, OthersKept
<1> QED
  BY <1>1 DEF VolumesLooked

\* A step that writes no spec and deletes no Volume; a request that moves has looked.
LEMMA KeptLooked ==
  ASSUME MountedExists, VolumesLooked, UNCHANGED <<tmpl, vols>>,
         \A v \in Workspaces : ws'[v].mounts = ws[v].mounts,
         \A d \in Callers :
           \/ call'[d].pc = call[d].pc /\ call'[d].mounts = call[d].mounts
           \/ call'[d].pc \notin {"update", "template", "listed", "delete"}
           \/ call'[d].pc \in {"update", "template"} /\ call'[d].mounts \subseteq vols
           \/ /\ call'[d].pc \in {"listed", "delete"} /\ call'[d].mounts \cap tmpl = {}
              /\ call'[d].pc = "delete" =>
                   \A w \in Workspaces : call'[d].mounts \cap ws[w].mounts = {}
  PROVE  MountedExists' /\ VolumesLooked'
BY DEF MountedExists, VolumesLooked

LEMMA ChangeLooked ==
  ASSUME TypeOK, OneRequest, MountedExists, VolumesLooked, NEW c \in Callers, ChangeSteps(c)
  PROVE  MountedExists' /\ VolumesLooked'
<1>1. /\ ws \in [Workspaces -> WorkspaceRecords] /\ call \in [Callers -> CallRecords]
      /\ call[c] \in CallRecords
  BY DEF TypeOK
<1>2. CASE Return(c) /\ UNCHANGED <<ws, tmpl, vols>>
  BY <1>2, CallMoves, IdleFields, KeptLooked DEF Return, OthersKept
<1>3. ASSUME NEW w \in Workspaces, NEW m \in Mounts, UpdateWorkspace(c, w, m)
      PROVE  MountedExists' /\ VolumesLooked'
  <2> DEFINE q == [Idle EXCEPT !.pc = "update", !.on = {w}, !.mounts = m, !.fresh = TRUE]
  <2>1. q.pc = "update" /\ q.mounts = m
    BY DEF Idle
  <2>2. call' = [call EXCEPT ![c] = q] /\ m \subseteq vols /\ UNCHANGED <<ws, tmpl, vols>>
    BY <1>3 DEF UpdateWorkspace
  <2> HIDE DEF q
  <2> QED
    BY <2>1, <2>2, CallMoves, KeptLooked DEF OthersKept
<1>4. ASSUME NEW m \in Mounts, UpdateTemplate(c, m)
      PROVE  MountedExists' /\ VolumesLooked'
  <2> DEFINE q == [Idle EXCEPT !.pc = "template", !.on = {"tmpl"}, !.mounts = m, !.fresh = TRUE]
  <2>1. q.pc = "template" /\ q.mounts = m
    BY DEF Idle
  <2>2. call' = [call EXCEPT ![c] = q] /\ m \subseteq vols /\ UNCHANGED <<ws, tmpl, vols>>
    BY <1>4 DEF UpdateTemplate
  <2> HIDE DEF q
  <2> QED
    BY <2>1, <2>2, CallMoves, KeptLooked DEF OthersKept
<1>5. ASSUME NEW v \in Volumes, DeleteVolume(c, v)
      PROVE  MountedExists' /\ VolumesLooked'
  <2> DEFINE q == [Idle EXCEPT !.pc = "listed", !.mounts = {v}]
  <2>1. q.pc = "listed" /\ q.mounts = {v}
    BY DEF Idle
  <2>2. call' = [call EXCEPT ![c] = q] /\ v \notin tmpl /\ UNCHANGED <<ws, tmpl, vols>>
    BY <1>5 DEF DeleteVolume
  <2> HIDE DEF q
  <2> QED
    BY <2>1, <2>2, CallMoves, KeptLooked DEF OthersKept
<1>6. ASSUME NEW v \in Volumes, DeleteList(c, v), ~Return(c)
      PROVE  MountedExists' /\ VolumesLooked'
  <2> DEFINE q == [call[c] EXCEPT !.pc = "delete"]
  <2>1. q.pc = "delete" /\ q.mounts = {v}
    BY <1>1, <1>6, PcFields DEF DeleteList
  <2>2. /\ call' = [call EXCEPT ![c] = q] /\ UNCHANGED <<ws, tmpl, vols>>
        /\ \A w \in Workspaces : v \notin ws[w].mounts
        /\ call[c].pc = "listed" /\ call[c].mounts = {v}
    BY <1>1, <1>6 DEF DeleteList, Goto, MountedByWorkspace
  <2>3. {v} \cap tmpl = {}
    BY <2>2 DEF VolumesLooked
  <2> HIDE DEF q
  <2> QED
    BY <2>1, <2>2, <2>3, CallMoves, KeptLooked DEF OthersKept
<1>7. CASE DeleteDo(c)
  <2>1. /\ call[c].pc = "delete" /\ Return(c) /\ UNCHANGED <<ws, tmpl>>
        /\ vols' = vols \ call[c].mounts
    BY <1>7 DEF DeleteDo
  <2>2. call[c].mounts \cap tmpl = {} /\ \A w \in Workspaces : call[c].mounts \cap ws[w].mounts = {}
    BY <2>1 DEF VolumesLooked
  <2>3. MountedExists'
    BY <2>1, <2>2 DEF MountedExists
  <2>4. call'[c].pc = "idle" /\ OthersKept(c)
    BY <2>1, CallMoves, IdleFields DEF Return
  <2> QED
    BY <2>1, <2>3, <2>4, AloneLooked
<1>8. ASSUME NEW w \in Workspaces, UpdateSave(c, w), call[c].fresh
      PROVE  MountedExists' /\ VolumesLooked'
  <2>1. /\ call[c].pc = "update" /\ call' = [Stale(call, w) EXCEPT ![c] = Idle]
        /\ ws' = [ws EXCEPT ![w] = [ws[w] EXCEPT !.mounts = call[c].mounts]]
        /\ UNCHANGED <<tmpl, vols>>
    BY <1>1, <1>8 DEF UpdateSave
  <2>2. [ws[w] EXCEPT !.mounts = call[c].mounts].mounts = call[c].mounts
    BY <1>1 DEF WorkspaceRecords
  <2>3. call[c].mounts \subseteq vols
    BY <2>1 DEF VolumesLooked
  <2>4. MountedExists'
    BY <1>1, <2>1, <2>2, <2>3 DEF MountedExists
  <2>5. call'[c].pc = "idle" /\ OthersKept(c)
    BY <2>1, CallMoves, IdleFields
  <2> QED
    BY <2>1, <2>4, <2>5, AloneLooked
<1>9. CASE TemplateSave(c) /\ call[c].fresh
  <2>1. /\ call[c].pc = "template" /\ call' = [Stale(call, "tmpl") EXCEPT ![c] = Idle]
        /\ tmpl' = call[c].mounts /\ UNCHANGED <<ws, vols>>
    BY <1>9 DEF TemplateSave
  <2>2. MountedExists'
    BY <2>1 DEF MountedExists, VolumesLooked
  <2>3. call'[c].pc = "idle" /\ OthersKept(c)
    BY <2>1, CallMoves, IdleFields
  <2> QED
    BY <2>1, <2>2, <2>3, AloneLooked
<1> QED
  BY <1>2, <1>3, <1>4, <1>5, <1>6, <1>7, <1>8, <1>9
     DEF ChangeSteps, UpdateSave, TemplateSave, DeleteList

LEMMA NextLooked ==
  TypeOK /\ OneRequest /\ MountedExists /\ VolumesLooked /\ [Next]_vars
    => MountedExists' /\ VolumesLooked'
<1> SUFFICES ASSUME TypeOK, OneRequest, MountedExists, VolumesLooked, [Next]_vars
             PROVE  MountedExists' /\ VolumesLooked'
  OBVIOUS
<1>1. CASE UNCHANGED vars
  BY <1>1 DEF vars, MountedExists, VolumesLooked
<1>2. ASSUME NEW c \in Callers, StartSteps(c)
      PROVE  MountedExists' /\ VolumesLooked'
  BY <1>2, StartMoves, KeptLooked DEF OthersKept
<1>3. ASSUME NEW w \in Workspaces, StopWorkspace(w) \/ NocturneStart(w) \/ Stopped(w)
      PROVE  MountedExists' /\ VolumesLooked'
  BY <1>3, RunMoves, KeptLooked
<1> QED
  BY <1>1, <1>2, <1>3, ChangeLooked DEF Next

LEMMA InitLooked == Init => OneRequest /\ MountedExists /\ VolumesLooked
<1> SUFFICES ASSUME Init PROVE OneRequest /\ MountedExists /\ VolumesLooked
  OBVIOUS
<1>1. \A c \in Callers : call[c].pc = "idle"
  BY IdleFields DEF Init
<1>2. TypeOK /\ vols = Volumes
  BY InitAdmission DEF Init
<1> QED
  BY <1>1, <1>2 DEF OneRequest, MountedExists, VolumesLooked, TypeOK, WorkspaceRecords

\* As long as requests do not overlap, a Volume that the spec of a Workspace or of the
\* Template mounts is not deleted, whatever runs start and end meanwhile
\* (checkVolumeIsNotMounted).
THEOREM SerialDeletes == Spec /\ []OneRequest => []MountedExists
BY InitAdmission, NextAdmission, InitLooked, NextLooked, PTL DEF Spec

-----------------------------------------------------------------------------
(* ExclusiveMounts. *)

LEMMA BySpecSame ==
  ASSUME UNCHANGED tmpl, \A v \in Workspaces : ws'[v].mounts = ws[v].mounts
  PROVE  \A v \in Workspaces : MountedBy(v)' = MountedBy(v)
BY DEF MountedBy, MountsOf

\* What a request q that is past its check has found.
QueryLooked(q) ==
  \A w \in Workspaces : q.on = {w} =>
    /\ q.pc = "resolve" => q.mounts = ws[w].mounts
    /\ q.pc = "check" => q.mounts = MountedBy(w)
    /\ q.pc \in {"session", "save"} => ExclusiveBySpec(w)

\* A step that activates no Workspace and writes no spec.
LEMMA KeptExclusive ==
  ASSUME ExclusiveLooked, UNCHANGED tmpl, Active' \subseteq Active,
         \A v \in Workspaces : ws'[v].mounts = ws[v].mounts,
         \A v \in Workspaces :
           \/ pod'[v] = pod[v] /\ (v \in Active => v \in Active')
           \/ pod'[v].st = "none"
           \/ pod'[v].st = "up" /\ v \in Active' /\ pod'[v].mounts = MountedBy(v),
         \A d \in Callers :
           \/ call'[d].pc = call[d].pc /\ call'[d].mounts = call[d].mounts /\ call'[d].on = call[d].on
           \/ QueryLooked(call'[d])
  PROVE  ExclusiveLooked'
<1>1. \A v \in Workspaces : MountedBy(v)' = MountedBy(v)
  BY BySpecSame
<1>2. Active \subseteq Workspaces /\ Active' \subseteq Workspaces
  BY DEF Active
<1>3. \A w \in Workspaces : ExclusiveBySpec(w) => ExclusiveBySpec(w)'
  BY <1>1, <1>2 DEF ExclusiveBySpec
<1>4. \A w \in Active' : ExclusiveBySpec(w)'
  BY <1>2, <1>3 DEF ExclusiveLooked
<1>5. \A w \in Workspaces :
        /\ pod'[w].st # "none" => w \in Active'
        /\ pod'[w].st = "asked" => pod'[w].mounts = ws'[w].mounts
        /\ pod'[w].st = "up" => pod'[w].mounts = MountedBy(w)'
  BY <1>1 DEF ExclusiveLooked
<1>6. ASSUME NEW d \in Callers, NEW w \in Workspaces, call'[d].on = {w}
      PROVE  /\ call'[d].pc = "resolve" => call'[d].mounts = ws'[w].mounts
             /\ call'[d].pc = "check" => call'[d].mounts = MountedBy(w)'
             /\ call'[d].pc \in {"session", "save"} => ExclusiveBySpec(w)'
  <2>1. CASE QueryLooked(call'[d])
    BY <1>1, <1>3, <1>6, <2>1 DEF QueryLooked
  <2>2. CASE call'[d].pc = call[d].pc /\ call'[d].mounts = call[d].mounts /\ call'[d].on = call[d].on
    BY <1>1, <1>3, <1>6, <2>2 DEF ExclusiveLooked
  <2> QED
    BY <2>1, <2>2
<1> QED
  BY <1>4, <1>5, <1>6 DEF ExclusiveLooked

\* A request moves on, and nothing else changes that matters here.
LEMMA MoveExclusive ==
  ASSUME TypeOK, ExclusiveLooked, NEW c \in Callers, NEW q, call' = [call EXCEPT ![c] = q],
         UNCHANGED <<ws, tmpl, pod>>, QueryLooked(q)
  PROVE  ExclusiveLooked'
<1>1. call'[c] = q /\ OthersKept(c)
  BY CallMoves
<1> QED
  BY <1>1, KeptExclusive DEF OthersKept, Active

LEMMA EarlyExclusive ==
  ASSUME TypeOK, ExclusiveLooked, NEW c \in Callers, NEW w \in Workspaces,
         \/ StartWorkspace(c, w) \/ StartGet(c, w) \/ StartResolve(c, w)
         \/ StartCheck(c, w) \/ StartSession(c, w)
  PROVE  ExclusiveLooked'
<1>1. /\ call[c] \in CallRecords /\ call \in [Callers -> CallRecords]
      /\ UNCHANGED <<ws, tmpl, pod>>
  BY DEF TypeOK, StartWorkspace, StartGet, StartResolve, StartCheck, StartSession
<1>2. \A v \in Workspaces : {w} = {v} => v = w
  OBVIOUS
<1>3. QueryLooked(Idle)
  BY IdleFields DEF QueryLooked
<1>4. CASE Return(c)
  BY <1>1, <1>3, <1>4, MoveExclusive DEF Return
<1>5. CASE StartWorkspace(c, w)
  <2> DEFINE q == [Idle EXCEPT !.pc = "get", !.on = {w}]
  <2>1. q.pc = "get"
    BY DEF Idle
  <2>2. call' = [call EXCEPT ![c] = q]
    BY <1>5 DEF StartWorkspace
  <2> HIDE DEF q
  <2>3. QueryLooked(q)
    BY <2>1 DEF QueryLooked
  <2> QED
    BY <1>1, <2>2, <2>3, MoveExclusive
<1>6. CASE StartGet(c, w) /\ ~Return(c)
  <2> DEFINE q == [call[c] EXCEPT !.pc = "resolve", !.mounts = ws[w].mounts, !.fresh = TRUE]
  <2>1. q.pc = "resolve" /\ q.mounts = ws[w].mounts /\ q.on = {w}
    BY <1>1, <1>6 DEF StartGet, CallRecords
  <2>2. call' = [call EXCEPT ![c] = q]
    BY <1>1, <1>6 DEF StartGet, CallRecords
  <2> HIDE DEF q
  <2>3. QueryLooked(q)
    BY <1>2, <2>1 DEF QueryLooked
  <2> QED
    BY <1>1, <2>2, <2>3, MoveExclusive
<1>7. CASE StartResolve(c, w) /\ ~Return(c)
  <2> DEFINE q == [call[c] EXCEPT !.pc = "check", !.mounts = MountsOf(w, call[c].mounts)]
  <2>1. q.pc = "check" /\ q.mounts = MountsOf(w, call[c].mounts) /\ q.on = {w}
    BY <1>1, <1>7 DEF StartResolve, CallRecords
  <2>2. call' = [call EXCEPT ![c] = q]
    BY <1>1, <1>7 DEF StartResolve, CallRecords
  <2>3. call[c].mounts = ws[w].mounts
    BY <1>7 DEF StartResolve, ExclusiveLooked
  <2> HIDE DEF q
  <2>4. QueryLooked(q)
    BY <1>2, <2>1, <2>3 DEF QueryLooked, MountedBy
  <2> QED
    BY <1>1, <2>2, <2>4, MoveExclusive
<1>8. CASE StartCheck(c, w) /\ ~Return(c)
  <2> DEFINE q == [call[c] EXCEPT !.pc = "session"]
  <2>1. q.pc = "session" /\ q.on = {w}
    BY <1>1, <1>8, PcFields DEF StartCheck
  <2>2. call' = [call EXCEPT ![c] = q]
    BY <1>1, <1>8 DEF StartCheck, Goto
  <2>3. call[c].mounts = MountedBy(w)
    BY <1>8 DEF StartCheck, ExclusiveLooked
  <2>4. ExclusiveBySpec(w)
    BY <1>8, <2>3 DEF StartCheck, ExclusiveBySpec
  <2> HIDE DEF q
  <2>5. QueryLooked(q)
    BY <1>2, <2>1, <2>4 DEF QueryLooked
  <2> QED
    BY <1>1, <2>2, <2>5, MoveExclusive
<1>9. CASE StartSession(c, w)
  <2> DEFINE s == CHOOSE s \in NewSessions : TRUE
             q == [call[c] EXCEPT !.pc = "save", !.session = s]
  <2>1. q.pc = "save" /\ q.on = {w}
    BY <1>1, <1>9 DEF StartSession, CallRecords
  <2>2. call' = [call EXCEPT ![c] = q]
    BY <1>1, <1>9 DEF StartSession, CallRecords
  <2>3. ExclusiveBySpec(w)
    BY <1>9 DEF StartSession, ExclusiveLooked
  <2> HIDE DEF q
  <2>4. QueryLooked(q)
    BY <1>2, <2>1, <2>3 DEF QueryLooked
  <2> QED
    BY <1>1, <2>2, <2>4, MoveExclusive
<1> QED
  BY <1>4, <1>5, <1>6, <1>7, <1>8, <1>9

\* The write of a start: the other requests are idle, and the Workspace has no exclusive
\* Volume of another active one.
LEMMA SaveExclusive ==
  ASSUME TypeOK, ExclusiveLooked, OneRequest, NEW c \in Callers, NEW w \in Workspaces,
         StartSave(c, w)
  PROVE  ExclusiveLooked'
<1>1. /\ call[c] \in CallRecords /\ call \in [Callers -> CallRecords]
      /\ call[c].pc = "save" /\ call[c].on = {w} /\ UNCHANGED tmpl
      /\ ExclusiveBySpec(w)
  BY DEF TypeOK, StartSave, ExclusiveLooked
<1>2. CASE Goto(c, "undo") /\ UNCHANGED <<ws, pod>>
  <2> DEFINE q == [call[c] EXCEPT !.pc = "undo"]
  <2>1. q.pc = "undo" /\ call' = [call EXCEPT ![c] = q]
    BY <1>1, <1>2, PcFields DEF Goto
  <2> HIDE DEF q
  <2>2. QueryLooked(q)
    BY <2>1 DEF QueryLooked
  <2> QED
    BY <1>1, <1>2, <2>1, <2>2, MoveExclusive
<1>3. CASE Started(c, w)
  <2>1. /\ \A v \in Workspaces : ws'[v].mounts = ws[v].mounts /\ (v # w => ws'[v] = ws[v])
        /\ pod' = [pod EXCEPT ![w] = [st |-> "asked", mounts |-> ws[w].mounts]]
    BY <1>3, StateWrites DEF Started
  <2>2. \A v \in Workspaces : MountedBy(v)' = MountedBy(v)
    BY <1>1, <2>1, BySpecSame
  <2>3. w \in Active' /\ Active' \subseteq Active \cup {w} /\ Active \subseteq Workspaces
    <3>1. ws'[w].state = "INIT_REQUEST"
      <4>1. ws[w] \in WorkspaceRecords /\ ws \in [Workspaces -> WorkspaceRecords]
        BY DEF TypeOK
      <4> QED
        BY <1>3, <4>1 DEF Started, WorkspaceRecords
    <3> QED
      BY <2>1, <3>1 DEF Active
  <2>4. Active \subseteq Active'
    BY <2>1, <2>3 DEF Active
  <2>5. \A v \in Active' : ExclusiveBySpec(v)'
    <3> SUFFICES ASSUME NEW v \in Active', NEW u \in Active' \ {v}
                 PROVE  MountedBy(v)' \cap MountedBy(u)' \cap Exclusive = {}
      BY DEF ExclusiveBySpec
    <3>1. CASE v = w
      BY <1>1, <2>2, <2>3, <3>1 DEF ExclusiveBySpec
    <3>2. CASE u = w
      BY <1>1, <2>2, <2>3, <3>2 DEF ExclusiveBySpec
    <3>3. CASE v # w /\ u # w
      BY <2>2, <2>3, <3>3 DEF ExclusiveLooked, ExclusiveBySpec
    <3> QED
      BY <3>1, <3>2, <3>3
  <2>6. \A v \in Workspaces :
          /\ pod'[v].st # "none" => v \in Active'
          /\ pod'[v].st = "asked" => pod'[v].mounts = ws'[v].mounts
          /\ pod'[v].st = "up" => pod'[v].mounts = MountedBy(v)'
    BY <2>1, <2>2, <2>3, <2>4 DEF TypeOK, ExclusiveLooked
  <2>7. \A d \in Callers : call'[d].pc \in {"idle", "undo"}
    <3>1. call'[c].pc \in {"idle", "undo"} /\ OthersKept(c)
      <4>1. Stale(call, w) \in [Callers -> CallRecords]
        BY <1>1, StaleType
      <4>2. call' = [Stale(call, w) EXCEPT ![c] = Idle]
            \/ call' = [Stale(call, w) EXCEPT ![c] = [Stale(call, w)[c] EXCEPT !.pc = "undo"]]
            \/ call' = [call EXCEPT ![c] = [call[c] EXCEPT !.pc = "undo"]]
        BY <1>1, <4>1 DEF StartSave, Goto
      <4>3. /\ [Stale(call, w)[c] EXCEPT !.pc = "undo"].pc = "undo"
            /\ [call[c] EXCEPT !.pc = "undo"].pc = "undo"
        BY <1>1, <4>1, PcFields
      <4> QED
        BY <4>2, <4>3, IdleFields, CallMoves
    <3> QED
      BY <1>1, <3>1 DEF OneRequest, OthersKept
  <2> QED
    BY <2>5, <2>6, <2>7 DEF ExclusiveLooked
<1> QED
  BY <1>2, <1>3 DEF StartSave

LEMMA RunExclusive ==
  ASSUME TypeOK, ExclusiveLooked, NEW w \in Workspaces,
         StopWorkspace(w) \/ NocturneStart(w) \/ Stopped(w)
  PROVE  ExclusiveLooked'
<1>1. /\ UNCHANGED tmpl
      /\ \A v \in Workspaces : ws'[v].mounts = ws[v].mounts /\ (v # w => ws'[v] = ws[v])
      /\ \A d \in Callers : /\ call'[d].pc = call[d].pc
                            /\ call'[d].mounts = call[d].mounts /\ call'[d].on = call[d].on
      /\ ws \in [Workspaces -> WorkspaceRecords] /\ ws[w] \in WorkspaceRecords
      /\ pod \in [Workspaces -> PodRecords]
  BY RunMoves, StateWrites DEF TypeOK
<1>2. w \in Active
  BY DEF Active, StopWorkspace, NocturneStart, Stopped
<1>3. Active' \subseteq Active /\ \A v \in Workspaces \ {w} : v \in Active => v \in Active'
  BY <1>1, <1>2 DEF Active
<1>4. CASE RunEnds(w)
  <2>1. \A v \in Workspaces : pod'[v] = IF v = w THEN NoPod ELSE pod[v]
    BY <1>1, <1>4 DEF RunEnds
  <2>2. NoPod.st = "none"
    BY DEF NoPod
  <2> QED
    BY <1>1, <1>3, <2>1, <2>2, KeptExclusive
<1>5. CASE StopWorkspace(w)
  <2>1. w \in Active' /\ UNCHANGED pod
    BY <1>1, <1>5 DEF StopWorkspace, Active, WorkspaceRecords
  <2> QED
    BY <1>1, <1>3, <2>1, KeptExclusive
<1>6. CASE NocturneStart(w) /\ ~RunEnds(w)
  <2> DEFINE p == [st |-> "up", mounts |-> MountsOf(w, pod[w].mounts)]
  <2>1. /\ pod[w].st = "asked" /\ ws' = [ws EXCEPT ![w].state = "RUNNING"]
        /\ pod' = [pod EXCEPT ![w] = p]
    BY <1>6 DEF NocturneStart
  <2>2. w \in Active'
    BY <1>1, <2>1 DEF Active, WorkspaceRecords
  <2>3. pod[w].mounts = ws[w].mounts
    BY <2>1 DEF ExclusiveLooked
  <2>4. \A v \in Workspaces : pod'[v] = IF v = w THEN p ELSE pod[v]
    BY <1>1, <2>1
  <2>5. p.st = "up" /\ p.mounts = MountedBy(w)
    BY <2>3 DEF MountedBy
  <2> HIDE DEF p
  <2> QED
    BY <1>1, <1>3, <2>2, <2>4, <2>5, KeptExclusive
<1> QED
  BY <1>4, <1>5, <1>6 DEF NocturneStart, Stopped

\* A request that begins to change a spec has not done so yet.
LEMMA BeginExclusive ==
  ASSUME TypeOK, ExclusiveLooked, OnlyStarts, NEW c \in Callers, ChangeSteps(c)
  PROVE  ExclusiveLooked'
<1>1. call[c].pc \notin {"update", "template", "listed", "delete"}
  BY DEF OnlyStarts
<1>2. ASSUME NEW w \in Workspaces, NEW m \in Mounts, UpdateWorkspace(c, w, m)
      PROVE  ExclusiveLooked'
  <2> DEFINE q == [Idle EXCEPT !.pc = "update", !.on = {w}, !.mounts = m, !.fresh = TRUE]
  <2>1. q.pc = "update"
    BY DEF Idle
  <2>2. call' = [call EXCEPT ![c] = q] /\ UNCHANGED <<ws, tmpl, pod>>
    BY <1>2 DEF UpdateWorkspace
  <2> HIDE DEF q
  <2>3. QueryLooked(q)
    BY <2>1 DEF QueryLooked
  <2> QED
    BY <2>2, <2>3, MoveExclusive
<1>3. ASSUME NEW m \in Mounts, UpdateTemplate(c, m)
      PROVE  ExclusiveLooked'
  <2> DEFINE q == [Idle EXCEPT !.pc = "template", !.on = {"tmpl"}, !.mounts = m, !.fresh = TRUE]
  <2>1. q.pc = "template"
    BY DEF Idle
  <2>2. call' = [call EXCEPT ![c] = q] /\ UNCHANGED <<ws, tmpl, pod>>
    BY <1>3 DEF UpdateTemplate
  <2> HIDE DEF q
  <2>3. QueryLooked(q)
    BY <2>1 DEF QueryLooked
  <2> QED
    BY <2>2, <2>3, MoveExclusive
<1>4. ASSUME NEW v \in Volumes, DeleteVolume(c, v)
      PROVE  ExclusiveLooked'
  <2> DEFINE q == [Idle EXCEPT !.pc = "listed", !.mounts = {v}]
  <2>1. q.pc = "listed"
    BY DEF Idle
  <2>2. call' = [call EXCEPT ![c] = q] /\ UNCHANGED <<ws, tmpl, pod>>
    BY <1>4 DEF DeleteVolume
  <2> HIDE DEF q
  <2>3. QueryLooked(q)
    BY <2>1 DEF QueryLooked
  <2> QED
    BY <2>2, <2>3, MoveExclusive
<1> QED
  BY <1>1, <1>2, <1>3, <1>4 DEF ChangeSteps, UpdateSave, TemplateSave, DeleteList, DeleteDo

LEMMA NextExclusive ==
  TypeOK /\ OneRequest /\ OnlyStarts /\ ExclusiveLooked /\ [Next]_vars => ExclusiveLooked'
<1> SUFFICES ASSUME TypeOK, OneRequest, OnlyStarts, ExclusiveLooked, [Next]_vars
             PROVE  ExclusiveLooked'
  OBVIOUS
<1>1. CASE UNCHANGED vars
  BY <1>1 DEF vars, ExclusiveLooked, ExclusiveBySpec, MountedBy, MountsOf, Active
<1>2. ASSUME NEW c \in Callers, StartUndo(c)
      PROVE  ExclusiveLooked'
  <2>1. QueryLooked(Idle)
    BY IdleFields DEF QueryLooked
  <2> QED
    BY <1>2, <2>1, MoveExclusive DEF StartUndo, Return
<1>3. ASSUME NEW c \in Callers, StartSteps(c)
      PROVE  ExclusiveLooked'
  BY <1>2, <1>3, EarlyExclusive, SaveExclusive DEF StartSteps
<1> QED
  BY <1>1, <1>3, BeginExclusive, RunExclusive DEF Next

LEMMA InitExclusive == Init => ExclusiveLooked
<1> SUFFICES ASSUME Init PROVE ExclusiveLooked
  OBVIOUS
<1>1. /\ \A c \in Callers : call[c].pc = "idle"
      /\ \A w \in Workspaces : pod[w].st = "none"
  BY IdleFields DEF Init, NoPod
<1>2. Active = {}
  BY DEF Init, Active
<1> QED
  BY <1>1, <1>2 DEF ExclusiveLooked

LEMMA PodsExclusive == ExclusiveLooked => ExclusiveMounts
BY DEF ExclusiveLooked, ExclusiveMounts, ExclusiveBySpec, Active

\* As long as starts do not overlap and nothing changes a spec or a Volume, an exclusive
\* Volume is mounted by the pod of one Workspace at a time, be it by its spec or by its
\* Template (checkExclusiveVolumes).
THEOREM SerialStarts == Spec /\ []OneRequest /\ []OnlyStarts => []ExclusiveMounts
BY InitAdmission, NextAdmission, InitExclusive, NextExclusive, PodsExclusive, PTL DEF Spec

-----------------------------------------------------------------------------
(* The scenarios of MCStartAdmission. *)

\* In the serial ones at most one request is under way.
LEMMA CountedOne ==
  ASSUME NEW calls, Cardinality({c \in Callers : calls[c].pc # "idle"}) <= 1
  PROVE  \A c, d \in Callers : c # d => calls[c].pc = "idle" \/ calls[d].pc = "idle"
<1> DEFINE S == {c \in Callers : calls[c].pc # "idle"}
<1> SUFFICES ASSUME NEW c \in S, NEW d \in S, c # d PROVE FALSE
  OBVIOUS
<1>1. S \in SUBSET Callers /\ {c} \cup {d} \in SUBSET S
  OBVIOUS
<1>2. Cardinality(S) <= 1
  OBVIOUS
<1> HIDE DEF S
<1>3. IsFiniteSet(S) /\ Cardinality(S) \in Nat
  BY <1>1, AdmissionAssumption, FS_Subset, FS_CardinalityType
<1>4. IsFiniteSet({c}) /\ Cardinality({c}) = 1 /\ d \notin {c}
  BY FS_Singleton
<1>5. Cardinality({c} \cup {d}) = 2
  BY <1>4, FS_AddElement
<1>6. Cardinality({c} \cup {d}) <= Cardinality(S)
  BY <1>1, <1>3, FS_Subset
<1> QED
  BY <1>2, <1>3, <1>5, <1>6

\* The inductive invariant of the serial scenarios.
SerialIInv ==
  /\ TypeOK
  /\ Serial => OneRequest /\ MountedExists /\ VolumesLooked
  /\ scenario = "serial" => OnlyStarts /\ ExclusiveLooked

LEMMA MCNextSerial == SerialIInv /\ RoomForPending /\ [MCNext]_<<vars, scenario>> => SerialIInv'
<1> SUFFICES ASSUME SerialIInv, RoomForPending, [MCNext]_<<vars, scenario>> PROVE SerialIInv'
  OBVIOUS
<1>1. UNCHANGED scenario /\ [Next]_vars
  BY DEF MCNext
<1>2. TypeOK'
  BY <1>1, NextAdmission DEF SerialIInv
<1>3. ASSUME Serial
      PROVE  OneRequest' /\ MountedExists' /\ VolumesLooked'
  <2>1. OneRequest'
    <3>1. CASE UNCHANGED call
      BY <1>3, <3>1 DEF SerialIInv, OneRequest
    <3>2. CASE Within
      <4>1. Cardinality({c \in Callers : call'[c].pc # "idle"}) <= 1
        BY <1>3, <3>2 DEF Within
      <4>2. \A c, d \in Callers : c # d => call'[c].pc = "idle" \/ call'[d].pc = "idle"
        BY <4>1, CountedOne
      <4> QED
        BY <4>2 DEF OneRequest
    <3> QED
      BY <3>1, <3>2 DEF MCNext, vars
  <2> QED
    BY <1>1, <1>3, <2>1, NextLooked DEF SerialIInv
<1>4. ASSUME scenario = "serial"
      PROVE  OnlyStarts' /\ ExclusiveLooked'
  <2>1. OnlyStarts'
    <3>1. CASE UNCHANGED call
      BY <1>4, <3>1 DEF SerialIInv, OnlyStarts
    <3>2. CASE Within
      BY <1>4, <3>2 DEF Within, OnlyStarts
    <3> QED
      BY <3>1, <3>2 DEF MCNext, vars
  <2> QED
    BY <1>1, <1>4, <2>1, NextExclusive DEF SerialIInv, Serial
<1> QED
  BY <1>1, <1>2, <1>3, <1>4 DEF SerialIInv, Serial

\* What the checks of StartWorkspace and DeleteVolume promise of the Volumes holds when
\* requests do not overlap: in the serial scenarios, with any Workspaces and Volumes
\* (checkExclusiveVolumes, checkVolumeIsNotMounted).
THEOREM SerialMountsHold == MCSpec => []SerialMounts
<1>1. MCInit => SerialIInv /\ RoomForPending
  <2>1. Init => OnlyStarts
    BY IdleFields DEF Init, OnlyStarts
  <2> QED
    BY <2>1, InitAdmission, InitLooked, InitExclusive DEF MCInit, SerialIInv
<1>2. SerialIInv /\ RoomForPending /\ [MCNext]_<<vars, scenario>> => RoomForPending'
  BY NextAdmission DEF MCNext, SerialIInv
<1>3. SerialIInv => SerialMounts
  BY PodsExclusive DEF SerialIInv, SerialMounts, SerialExclusive, SerialMounted, Serial
<1> QED
  BY <1>1, <1>2, <1>3, MCNextSerial, PTL DEF MCSpec
=============================================================================
