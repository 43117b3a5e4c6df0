---------------------- MODULE WorkspaceLifecycleProofs ----------------------
(***************************************************************************)
(* Proofs about WorkspaceLifecycle, for every number of watchers and every *)
(* value of the bounds.                                                    *)
(***************************************************************************)
EXTENDS WorkspaceLifecycle, TLAPS

-----------------------------------------------------------------------------
(* Type correctness. *)

BudgetRecords == [stops : Nat, passes : Nat, crashes : Nat, restarts : Nat, faults : Nat]

\* The updates of the Workspace that the writers build are Workspaces.
LEMMA WritesType ==
  ASSUME NEW r \in WorkspaceRecords
  PROVE  /\ Cleared(r) \in WorkspaceRecords
         /\ Stamped(r) \in WorkspaceRecords
         /\ \A st \in States : [r EXCEPT !.state = st] \in WorkspaceRecords
  BY DEF Cleared, Stamped, WorkspaceRecords, States, PreRunning, Stopping

\* The sequences of at most one element that OnUpdate returns.
LEMMA ShortSeqs ==
  ASSUME NEW S
  PROVE  <<>> \in Seq(S) /\ \A e \in S : <<e>> \in Seq(S)
  OBVIOUS

\* A write keeps the types of the store, and queues at most one event.
LEMMA PutType ==
  ASSUME TypeOK, NEW r \in WorkspaceRecords, Put(r)
  PROVE  /\ ws' \in WorkspaceRecords
         /\ fresh' \subseteq Callers \cup {"queue"}
         /\ events' \in Seq(EventRecords)
  <1>1. \A kind \in {"start", "stop"} : Event(kind, r) \in EventRecords
    BY DEF Event, EventRecords, WorkspaceRecords
  <1>a. OnUpdate(ws, r) \in Seq(EventRecords)
    BY <1>1, ShortSeqs DEF OnUpdate
  <1>2. QED
    BY <1>a DEF Put, Notify, TypeOK

\* Faults only count.
LEMMA BudgetType ==
  ASSUME TypeOK, NoFault \/ Fault
  PROVE  budget' \in BudgetRecords
  BY DEF TypeOK, NoFault, Fault, BudgetRecords

\* The records that StartWorkspace builds.
LEMMA StartedType ==
  ASSUME NEW r \in WorkspaceRecords, NEW n \in Nat
  PROVE  [r EXCEPT !.state = "INIT_REQUEST", !.run = n,
                   !.region = TRUE, !.session = n] \in WorkspaceRecords
  BY DEF WorkspaceRecords, States, PreRunning

\* The controller's calls stay calls.
LEMMA CallType ==
  ASSUME TypeOK, NEW c \in Callers
  PROVE  /\ Return(c) => calls' \in [Callers -> CallRecords]
         /\ \A op \in {"setWatcher", "delK8s", "update", "pvc"} :
              GotoOp(c, op) => calls' \in [Callers -> CallRecords]
         /\ AfterStop(c) => calls' \in [Callers -> CallRecords]
         /\ AbortStop(c) => calls' \in [Callers -> CallRecords]
  <1>1. calls \in [Callers -> CallRecords]
    BY DEF TypeOK
  <1>2. NoCall \in CallRecords
    BY DEF NoCall, CallRecords
  <1>3. Return(c) => calls' \in [Callers -> CallRecords]
    BY <1>1, <1>2 DEF Return
  <1>4. \A op \in {"setWatcher", "delK8s", "update", "pvc"} :
          GotoOp(c, op) => calls' \in [Callers -> CallRecords]
    <2>1. \A op \in {"setWatcher", "delK8s", "update", "pvc"} :
            [calls[c] EXCEPT !.op = op] \in CallRecords
      BY <1>1 DEF CallRecords
    <2>2. QED
      BY <1>1, <2>1 DEF GotoOp
  <1>5. QED
    BY <1>3, <1>4 DEF AfterStop, AbortStop

\* The goroutines stay goroutines.
LEMMA ThreadType ==
  ASSUME TypeOK, NEW w \in Watchers, NEW t \in Threads
  PROVE  /\ threads[w][t] \in ThreadRecords
         /\ Off \in ThreadRecords
         /\ AllOff \in [Threads -> ThreadRecords]
         /\ \A pc \in PCs, path \in Paths, st \in Reports : At(pc, path, st) \in ThreadRecords
         /\ \A th \in ThreadRecords :
              [threads EXCEPT ![w][t] = th] \in [Watchers -> [Threads -> ThreadRecords]]
         /\ \A pc \in PCs : Goto(w, t, pc) => threads' \in [Watchers -> [Threads -> ThreadRecords]]
         /\ \A th \in ThreadRecords :
              Set(w, t, th) => threads' \in [Watchers -> [Threads -> ThreadRecords]]
  <1>1. threads \in [Watchers -> [Threads -> ThreadRecords]]
    BY DEF TypeOK
  <1>2. Off \in ThreadRecords
    BY DEF Off, At, ThreadRecords, PCs, Paths, Reports
  <1>3. \A pc \in PCs : [threads[w][t] EXCEPT !.pc = pc] \in ThreadRecords
    BY <1>1 DEF ThreadRecords
  <1>4. AllOff \in [Threads -> ThreadRecords]
    BY <1>2 DEF AllOff
  <1>5. \A pc \in PCs, path \in Paths, st \in Reports : At(pc, path, st) \in ThreadRecords
    BY DEF At, ThreadRecords
  <1>6. \A th \in ThreadRecords :
          [threads EXCEPT ![w][t] = th] \in [Watchers -> [Threads -> ThreadRecords]]
    BY <1>1
  <1>7. \A pc \in PCs : Goto(w, t, pc) => threads' \in [Watchers -> [Threads -> ThreadRecords]]
    BY <1>1, <1>3, SMTT(30) DEF Goto
  <1>8. QED
    BY <1>1, <1>2, <1>4, <1>5, <1>6, <1>7 DEF Set

\* The statusWatchers stay statusWatchers.
LEMMA WatcherType ==
  ASSUME TypeOK, NEW w \in Watchers
  PROVE  /\ FreeWatcher \in WatcherRecords
         /\ watchers[w] \in WatcherRecords
         /\ \A r \in WatcherRecords : [watchers EXCEPT ![w] = r] \in [Watchers -> WatcherRecords]
         /\ \A run, sess \in Nat, phase \in {"new", "live"} :
              [FreeWatcher EXCEPT !.phase = phase, !.run = run, !.sess = sess] \in WatcherRecords
  <1>1. FreeWatcher \in WatcherRecords
    BY ShortSeqs DEF FreeWatcher, WatcherRecords
  <1>2. \A run, sess \in Nat, phase \in {"new", "live"} :
          [FreeWatcher EXCEPT !.phase = phase, !.run = run, !.sess = sess] \in WatcherRecords
    BY <1>1 DEF WatcherRecords
  <1>3. QED
    BY <1>1, <1>2 DEF TypeOK

\* A restart of Nocturne keeps the types.
LEMMA RestartedType ==
  ASSUME TypeOK, Restarted, budget' \in BudgetRecords
  PROVE  TypeOK'
  <1>1. calls' \in [Callers -> CallRecords]
    BY DEF Restarted, NoCall, CallRecords
  <1>2. watchers' \in [Watchers -> WatcherRecords]
    BY WatcherType DEF Restarted
  <1>3. threads' \in [Watchers -> [Threads -> ThreadRecords]]
    BY DEF Restarted, AllOff, Off, At, ThreadRecords, PCs, Paths, Reports
  <1>4. periodic' \in PassRecords /\ periodic'.op = "idle"
    BY DEF Restarted, NoPass, PassRecords
  <1>5. fresh' \subseteq Callers \cup {"queue"} /\ events' \in Seq(EventRecords)
    BY ShortSeqs DEF Restarted
  <1>6. QED
    BY <1>1, <1>2, <1>3, <1>4, <1>5 DEF Restarted, TypeOK, BudgetRecords, k8s

LEMMA TypeInit == Init => TypeOK
  BY ConstAssumption DEF Init, TypeOK, WorkspaceRecords, EventRecords, CallRecords, WatcherRecords,
     ThreadRecords, PassRecords, PodRecords, Callers, NoCall, FreeWatcher, AllOff, Off,
     At, Threads, PCs, Paths, Reports, NoPass, NoPod, NoPVC, States, PreRunning, Stopping

LEMMA UserType ==
  ASSUME TypeOK, User
  PROVE  TypeOK'
  <1>0. ws \in WorkspaceRecords
    BY DEF TypeOK
  <1>1. CASE StartWorkspace
    <2> DEFINE new == [ws EXCEPT !.state = "INIT_REQUEST", !.run = ws.run + 1,
                                 !.region = TRUE, !.session = ws.run + 1]
    <2>a. ws.run + 1 \in Nat
      BY <1>0 DEF WorkspaceRecords
    <2>1. Stamped(new) \in WorkspaceRecords
      BY <1>0, <2>a, StartedType, WritesType
    <2>2. /\ ws' \in WorkspaceRecords
          /\ fresh' \subseteq Callers \cup {"queue"}
          /\ events' \in Seq(EventRecords)
      BY <1>1, <2>1, PutType DEF StartWorkspace
    <2>3. sessions' \subseteq Nat
      BY <1>1 DEF StartWorkspace, TypeOK, WorkspaceRecords
    <2>4. QED
      BY <1>1, <2>2, <2>3 DEF StartWorkspace, TypeOK, supervision, k8s
  <1>2. CASE StopWorkspace
    <2>1. [ws EXCEPT !.state = "STOPPING_REQUEST"] \in WorkspaceRecords
      BY WritesType DEF TypeOK, States, Stopping
    <2>2. /\ ws' \in WorkspaceRecords
          /\ fresh' \subseteq Callers \cup {"queue"}
          /\ events' \in Seq(EventRecords)
      BY <1>2, <2>1, PutType DEF StopWorkspace
    <2>3. budget' \in BudgetRecords
      <3>1. budget \in BudgetRecords
        BY DEF TypeOK, BudgetRecords
      <3>2. budget.stops + 1 \in Nat
        BY <3>1 DEF BudgetRecords
      <3>3. budget' = [budget EXCEPT !.stops = budget.stops + 1]
        BY <1>2 DEF StopWorkspace
      <3>4. PICK n \in Nat : budget' = [budget EXCEPT !.stops = n]
        BY <3>2, <3>3
      <3>5. QED
        BY <3>1, <3>4 DEF BudgetRecords
    <2>4. QED
      BY <1>2, <2>2, <2>3 DEF StopWorkspace, TypeOK, BudgetRecords, supervision, k8s
  <1>3. CASE DeleteWorkspace
    <2>1. ws' \in WorkspaceRecords
      <3>1. Stamped(Cleared(ws)) \in WorkspaceRecords
        BY <1>0, WritesType
      <3>2. QED
        BY <1>3, <3>1 DEF DeleteWorkspace, WorkspaceRecords
    <2>2. /\ fresh' \subseteq Callers \cup {"queue"}
          /\ events' \in Seq(EventRecords)
      <3> DEFINE kind == IF ws.region /\ ws.state # "STOPPED" THEN "delete" ELSE "purge"
      <3>1. Event(kind, ws) \in EventRecords
        BY <1>0 DEF Event, EventRecords, WorkspaceRecords
      <3>2. <<Event(kind, ws)>> \in Seq(EventRecords)
        BY <3>1, ShortSeqs
      <3>3. Notify(<<Event(kind, ws)>>)
        BY <1>3 DEF DeleteWorkspace
      <3>4. events \in Seq(EventRecords)
        BY DEF TypeOK
      <3>5. QED
        BY <3>2, <3>3, <3>4 DEF Notify
    <2>3. QED
      BY <1>3, <2>1, <2>2 DEF DeleteWorkspace, TypeOK, supervision, k8s
  <1>4. CASE OtherWrite
    <2>1. /\ ws' \in WorkspaceRecords
          /\ fresh' \subseteq Callers \cup {"queue"}
          /\ events' \in Seq(EventRecords)
      BY <1>4, PutType DEF OtherWrite, TypeOK
    <2>2. QED
      BY <1>4, <2>1 DEF OtherWrite, TypeOK, supervision, k8s
  <1>5. QED
    BY <1>1, <1>2, <1>3, <1>4 DEF User

\* The event handlers keep the types.
LEMMA HandlerType ==
  ASSUME TypeOK, NEW h \in Handlers, Dispatch(h) \/ StartSteps(h)
  PROVE  TypeOK'
  <1>0. /\ h \in Callers
        /\ ws \in WorkspaceRecords
        /\ calls \in [Callers -> CallRecords]
        /\ calls[h] \in CallRecords
        /\ events \in Seq(EventRecords)
    BY DEF TypeOK, Callers
  <1>1. CASE Dispatch(h)
    <2>1. Head(events) \in EventRecords /\ Tail(events) \in Seq(EventRecords)
      BY <1>0, <1>1 DEF Dispatch
    <2>2. calls' \in [Callers -> CallRecords]
      <3> DEFINE e == Head(events)
                 call == [op |-> FirstOp(e.kind), kind |-> e.kind, run |-> e.run,
                          sess |-> e.sess, w |-> None]
      <3>1. call \in CallRecords
        BY <2>1 DEF CallRecords, EventRecords, FirstOp
      <3>2. QED
        BY <1>0, <1>1, <3>1 DEF Dispatch
    <2>3. fresh' \subseteq Callers \cup {"queue"}
      BY <1>0, <1>1 DEF Dispatch, TypeOK
    <2>4. QED
      BY <1>1, <2>1, <2>2, <2>3 DEF Dispatch, TypeOK, supervision, k8s
  <1>2. CASE SetPVC(h)
    <2>1. calls' \in [Callers -> CallRecords]
      BY <1>0, <1>2, CallType DEF SetPVC
    <2>2. pvc' \in [run : Nat, terminating : BOOLEAN]
      <3>1. calls[h].run \in Nat
        BY <1>0 DEF CallRecords
      <3>2. [NoPVC EXCEPT !.run = calls[h].run] \in [run : Nat, terminating : BOOLEAN]
        BY <3>1 DEF NoPVC
      <3>3. \/ pvc' = pvc
            \/ pvc' = [NoPVC EXCEPT !.run = calls[h].run]
        BY <1>2 DEF SetPVC
      <3>4. QED
        BY <3>2, <3>3 DEF TypeOK
    <2>3. budget' \in BudgetRecords
      BY <1>2, BudgetType DEF SetPVC
    <2>4. QED
      BY <1>2, <2>1, <2>2, <2>3 DEF SetPVC, TypeOK, BudgetRecords, store, supervision
  <1>3. CASE SetWatcher(h)
    <2>1. CASE ~MayRegister
      BY <1>0, <1>3, <2>1, CallType DEF SetWatcher, TypeOK, store, supervision, k8s
    <2>2. CASE MayRegister
      <3>1. PICK w \in Watchers :
              /\ watchers' = [watchers EXCEPT ![w] = NewWatcher(calls[h], "new")]
              /\ registered' = w
              /\ calls' = [calls EXCEPT ![h].op = "doOnAdd", ![h].w = w]
              /\ UNCHANGED threads
        BY <1>3, <2>2 DEF SetWatcher
      <3>2. NewWatcher(calls[h], "new") \in WatcherRecords
        BY <1>0, WatcherType DEF NewWatcher, CallRecords
      <3>3. watchers' \in [Watchers -> WatcherRecords]
        BY <3>1, <3>2, WatcherType
      <3>4. calls' \in [Callers -> CallRecords]
        BY <1>0, <3>1 DEF CallRecords
      <3>5. QED
        BY <1>3, <3>1, <3>3, <3>4 DEF SetWatcher, TypeOK, store, k8s
    <2>3. QED
      BY <2>1, <2>2
  <1>4. CASE ResolveFails(h)
    <2>1. budget' \in BudgetRecords
      BY <1>4, BudgetType DEF ResolveFails
    <2>2. CASE Put(Stamped(Cleared(ws)))
               /\ calls' = [calls EXCEPT ![h].op = "failSession", ![h].sess = ws.session]
      <3>1. Stamped(Cleared(ws)) \in WorkspaceRecords
        BY <1>0, WritesType
      <3>2. /\ ws' \in WorkspaceRecords
            /\ fresh' \subseteq Callers \cup {"queue"}
            /\ events' \in Seq(EventRecords)
        BY <2>2, <3>1, PutType
      <3>3. calls' \in [Callers -> CallRecords]
        BY <1>0, <2>2 DEF CallRecords, WorkspaceRecords
      <3>4. QED
        BY <1>4, <2>1, <3>2, <3>3 DEF ResolveFails, TypeOK, BudgetRecords, supervision, k8s
    <2>3. CASE Return(h) /\ UNCHANGED store
      BY <1>0, <1>4, <2>1, <2>3, CallType DEF ResolveFails, TypeOK, BudgetRecords, store, supervision, k8s
    <2>4. QED
      BY <1>4, <2>2, <2>3 DEF ResolveFails
  <1>5. CASE FailSession(h)
    <2>1. budget' \in BudgetRecords
      BY <1>5, BudgetType DEF FailSession
    <2>2. QED
      BY <1>0, <1>5, <2>1, CallType DEF FailSession, TypeOK, BudgetRecords, store, supervision, k8s
  <1>6. CASE DoOnAdd(h)
    <2>1. pod' \in PodRecords
      BY <1>0, <1>6 DEF DoOnAdd, NoPod, PodRecords, CallRecords
    <2>2. watchers' \in [Watchers -> WatcherRecords]
      <3>1. \A r \in WatcherRecords : [r EXCEPT !.phase = "live"] \in WatcherRecords
        BY DEF WatcherRecords
      <3>2. QED
        BY <1>6, <3>1 DEF DoOnAdd, TypeOK
    <2>3. threads' \in [Watchers -> [Threads -> ThreadRecords]]
      <3>1. At("wait", "status", "STOPPED") \in ThreadRecords
        BY DEF At, ThreadRecords, PCs, Paths, Reports
      <3>2. QED
        BY <1>6, <3>1 DEF DoOnAdd, TypeOK
    <2>4. QED
      BY <1>0, <1>6, <2>1, <2>2, <2>3, CallType DEF DoOnAdd, TypeOK, store
  <1>7. CASE DoOnAddFails(h)
    <2>1. budget' \in BudgetRecords
      BY <1>7, BudgetType DEF DoOnAddFails
    <2>2. pod' \in PodRecords
      BY <1>7 DEF DoOnAddFails, DeleteOwner, TypeOK, PodRecords
    <2>3. watchers' \in [Watchers -> WatcherRecords]
      BY <1>7, WatcherType DEF DoOnAddFails, TypeOK
    <2>4. QED
      BY <1>0, <1>7, <2>1, <2>2, <2>3, CallType DEF DoOnAddFails, TypeOK, BudgetRecords, store
  <1>8. QED
    BY <1>1, <1>2, <1>3, <1>4, <1>5, <1>6, <1>7 DEF StartSteps

\* stopWorkspace keeps the types.
LEMMA StopType ==
  ASSUME TypeOK, NEW c \in Callers, StopSteps(c)
  PROVE  TypeOK'
  <1>0. pod \in PodRecords /\ pvc \in [run : Nat, terminating : BOOLEAN]
    BY DEF TypeOK
  <1>a. budget' \in BudgetRecords
    <2>1. NoFault \/ Fault
      BY DEF StopSteps, Shutdown, StopDelK8s, StopUpdate, StopPVC
    <2>2. QED
      BY <2>1, BudgetType
  <1>1. CASE Shutdown(c)
    <2>1. pod' \in PodRecords
      BY <1>0, <1>1 DEF Shutdown, PodRecords
    <2>2. calls' \in [Callers -> CallRecords]
      BY <1>1, CallType DEF Shutdown, ShutdownErr
    <2>3. QED
      BY <1>1, <1>a, <2>1, <2>2 DEF Shutdown, TypeOK, BudgetRecords, store, supervision
  <1>2. CASE StopDelK8s(c)
    <2>1. pod' \in PodRecords
      BY <1>0, <1>2 DEF StopDelK8s, DeleteOwner, PodRecords
    <2>2. calls' \in [Callers -> CallRecords]
      BY <1>2, CallType DEF StopDelK8s
    <2>3. QED
      BY <1>2, <1>a, <2>1, <2>2 DEF StopDelK8s, TypeOK, BudgetRecords, store, supervision
  <1>3. CASE StopUpdate(c)
    <2>1. CASE UNCHANGED <<store, threads>> /\ AbortStop(c)
      <3>1. calls' \in [Callers -> CallRecords]
        BY <2>1, CallType
      <3>2. QED
        BY <1>3, <1>a, <2>1, <3>1 DEF StopUpdate, TypeOK, BudgetRecords, store, k8s
    <2>2. CASE Put(Cleared(ws)) /\ SpawnForce /\ AfterStop(c)
      <3>1. /\ ws' \in WorkspaceRecords
            /\ fresh' \subseteq Callers \cup {"queue"}
            /\ events' \in Seq(EventRecords)
        BY <2>2, WritesType, PutType DEF TypeOK
      <3>2. threads' \in [Watchers -> [Threads -> ThreadRecords]]
        <4>1. At("update", "force", "STOPPED") \in ThreadRecords
          BY DEF At, ThreadRecords, PCs, Paths, Reports
        <4>2. QED
          BY <2>2, <4>1 DEF SpawnForce, TypeOK
      <3>3. calls' \in [Callers -> CallRecords]
        BY <2>2, CallType
      <3>4. QED
        BY <1>3, <1>a, <3>1, <3>2, <3>3 DEF StopUpdate, TypeOK, BudgetRecords, k8s
    <2>3. QED
      BY <1>3, <2>1, <2>2 DEF StopUpdate
  <1>4. CASE StopPVC(c)
    <2>1. pvc' \in [run : Nat, terminating : BOOLEAN]
      <3>1. /\ [pvc EXCEPT !.terminating = TRUE] \in [run : Nat, terminating : BOOLEAN]
            /\ NoPVC \in [run : Nat, terminating : BOOLEAN]
        BY <1>0 DEF NoPVC
      <3>2. QED
        BY <1>0, <1>4, <3>1 DEF StopPVC, RemoveClaim
    <2>2. calls' \in [Callers -> CallRecords]
      BY <1>4, CallType DEF StopPVC
    <2>3. QED
      BY <1>4, <1>a, <2>1, <2>2 DEF StopPVC, TypeOK, BudgetRecords, store, supervision
  <1>5. QED
    BY <1>1, <1>2, <1>3, <1>4 DEF StopSteps

\* The supervising goroutine and the timers keep the types.
LEMMA SuperviseType ==
  ASSUME TypeOK, NEW w \in Watchers,
         Supervise(w) \/ StreamBreaks(w) \/ HealthTimeout(w) \/ CleanupTimeout(w)
  PROVE  TypeOK'
  <1>0. /\ watchers \in [Watchers -> WatcherRecords]
        /\ watchers[w] \in WatcherRecords
        /\ threads \in [Watchers -> [Threads -> ThreadRecords]]
        /\ pod \in PodRecords
        /\ {"sup", "health", "clean"} \subseteq Threads
    BY DEF TypeOK, Threads
  <1>1. CASE WaitReady(w)
    <2>1. watchers' \in [Watchers -> WatcherRecords]
      BY <1>0, <1>1 DEF WaitReady, WatcherRecords
    <2>2. threads' \in [Watchers -> [Threads -> ThreadRecords]]
      <3>1. \A r \in ThreadRecords : /\ [r EXCEPT !.pc = "recv"] \in ThreadRecords
                                     /\ [r EXCEPT !.pc = "watch"] \in ThreadRecords
        BY DEF ThreadRecords, PCs
      <3>2. threads' = [threads EXCEPT ![w] = [threads[w] EXCEPT
                          !["sup"] = [threads[w]["sup"] EXCEPT !.pc = "recv"],
                          !["health"] = [threads[w]["health"] EXCEPT !.pc = "watch"]]]
        BY <1>0, <1>1 DEF WaitReady
      <3>3. [threads[w] EXCEPT
               !["sup"] = [threads[w]["sup"] EXCEPT !.pc = "recv"],
               !["health"] = [threads[w]["health"] EXCEPT !.pc = "watch"]]
              \in [Threads -> ThreadRecords]
        BY <1>0, <3>1
      <3>4. QED
        BY <1>0, <3>2, <3>3
    <2>3. QED
      BY <1>1, <2>1, <2>2 DEF WaitReady, TypeOK, store, others
  <1>2. CASE WaitTimeout(w)
    <2>1. watchers' \in [Watchers -> WatcherRecords]
      BY <1>0, <1>2 DEF WaitTimeout, WatcherRecords
    <2>2. threads' \in [Watchers -> [Threads -> ThreadRecords]]
      BY <1>0, <1>2, ThreadType DEF WaitTimeout, PCs
    <2>3. budget' \in BudgetRecords
      BY <1>2, BudgetType DEF WaitTimeout
    <2>4. QED
      BY <1>2, <2>1, <2>2, <2>3 DEF WaitTimeout, TypeOK, BudgetRecords, store, others
  <1>3. CASE ListenState(w)
    <2>1. pod.st \in Reports
      BY <1>0, <1>3 DEF ListenState, Serving, PodRecords
    <2>2. <<pod.st>> \in Seq(Reports)
      BY <2>1, ShortSeqs
    <2>3. watchers' \in [Watchers -> WatcherRecords]
      BY <1>0, <1>3, <2>2 DEF ListenState, WatcherRecords
    <2>4. QED
      BY <1>3, <2>3 DEF ListenState, TypeOK, store, others
  <1>4. CASE StreamBreaks(w)
    <2>1. watchers' \in [Watchers -> WatcherRecords]
      BY <1>0, <1>4, ShortSeqs DEF StreamBreaks, WatcherRecords
    <2>2. threads' \in [Watchers -> [Threads -> ThreadRecords]]
      BY <1>0, <1>4, ThreadType DEF StreamBreaks, PCs
    <2>3. budget' \in BudgetRecords
      BY <1>4, BudgetType DEF StreamBreaks
    <2>4. QED
      BY <1>4, <2>1, <2>2, <2>3 DEF StreamBreaks, TypeOK, BudgetRecords, store, others
  <1>5. CASE HandleStatus(w)
    <2> DEFINE st == Head(watchers[w].chan)
               read == [watchers EXCEPT ![w].chan = Tail(@)]
    <2>1. st \in Reports /\ Tail(watchers[w].chan) \in Seq(Reports)
      BY <1>0, <1>5 DEF HandleStatus, WatcherRecords
    <2>2. read \in [Watchers -> WatcherRecords]
      BY <1>0, <2>1 DEF WatcherRecords
    <2>3. /\ [read EXCEPT ![w].didOnInit = TRUE] \in [Watchers -> WatcherRecords]
          /\ [read EXCEPT ![w].didOnStopping = TRUE] \in [Watchers -> WatcherRecords]
      <3>1. \A r \in WatcherRecords : /\ [r EXCEPT !.didOnInit = TRUE] \in WatcherRecords
                                      /\ [r EXCEPT !.didOnStopping = TRUE] \in WatcherRecords
        BY DEF WatcherRecords
      <3>2. QED
        BY <2>2, <3>1
    <2>4. watchers' \in [Watchers -> WatcherRecords]
      BY <1>5, <2>2, <2>3 DEF HandleStatus
    <2>5. \A pc \in PCs, path \in Paths, r \in Reports : At(pc, path, r) \in ThreadRecords
      BY DEF At, ThreadRecords
    <2>6. \A th \in ThreadRecords :
            Set(w, "sup", th) => threads' \in [Watchers -> [Threads -> ThreadRecords]]
      BY <1>0 DEF Set
    <2>7. threads' \in [Watchers -> [Threads -> ThreadRecords]]
      <3>1. CASE st = "INITIALIZING"
        BY <1>5, <2>1, <2>5, <2>6, <3>1 DEF HandleStatus, PCs, Paths
      <3>2. CASE st = "STOPPING"
        <4>1. threads' = [threads EXCEPT
                ![w]["sup"] = At("update", "status", st),
                ![w]["clean"] = IF watchers[w].didOnStopping THEN threads[w]["clean"]
                                ELSE At("timer", "force", "STOPPED")]
          BY <1>5, <3>2 DEF HandleStatus
        <4>2. At("update", "status", st) \in ThreadRecords
              /\ At("timer", "force", "STOPPED") \in ThreadRecords
          BY <2>1, <2>5 DEF PCs, Paths, Reports
        <4>3. QED
          BY <1>0, <4>1, <4>2
      <3>3. CASE st = "STOPPED" \/ st = "RUNNING"
        BY <1>5, <2>1, <2>5, <2>6, <3>3 DEF HandleStatus, PCs, Paths
      <3>4. QED
        BY <2>1, <3>1, <3>2, <3>3 DEF Reports
    <2>8. QED
      BY <1>5, <2>4, <2>7 DEF HandleStatus, TypeOK, store, others
  <1>6. CASE OnReadyInit(w)
    <2>1. pod' \in PodRecords
      BY <1>0, <1>6 DEF OnReadyInit, PodRecords
    <2>2. threads' \in [Watchers -> [Threads -> ThreadRecords]]
      BY <1>0, <1>6, ThreadType DEF OnReadyInit, PCs
    <2>3. budget' \in BudgetRecords
      BY <1>6, BudgetType DEF OnReadyInit
    <2>4. QED
      BY <1>6, <2>1, <2>2, <2>3 DEF OnReadyInit, TypeOK, BudgetRecords, store, others
  <1>7. CASE HealthTimeout(w)
    <2>1. watchers' \in [Watchers -> WatcherRecords]
      BY <1>0, <1>7 DEF HealthTimeout, WatcherRecords
    <2>2. threads' \in [Watchers -> [Threads -> ThreadRecords]]
      BY <1>0, <1>7, ThreadType DEF HealthTimeout, PCs
    <2>3. budget' \in BudgetRecords
      BY <1>7, BudgetType DEF HealthTimeout
    <2>4. QED
      BY <1>7, <2>1, <2>2, <2>3 DEF HealthTimeout, TypeOK, BudgetRecords, store, others
  <1>8. CASE CleanupTimeout(w)
    <2>1. threads' \in [Watchers -> [Threads -> ThreadRecords]]
      BY <1>0, <1>8, ThreadType DEF CleanupTimeout, PCs
    <2>2. budget' \in BudgetRecords
      BY <1>8, BudgetType DEF CleanupTimeout
    <2>3. QED
      BY <1>8, <2>1, <2>2 DEF CleanupTimeout, TypeOK, BudgetRecords, store, others
  <1>9. QED
    BY <1>1, <1>2, <1>3, <1>4, <1>5, <1>6, <1>7, <1>8 DEF Supervise

\* The steps that any goroutine of a statusWatcher takes keep the types.
LEMMA ThreadStepsType ==
  ASSUME TypeOK, NEW w \in Watchers, NEW t \in Threads, ThreadSteps(w, t)
  PROVE  TypeOK'
  <1>0. /\ ws \in WorkspaceRecords
        /\ watchers \in [Watchers -> WatcherRecords]
        /\ watchers[w] \in WatcherRecords
        /\ threads \in [Watchers -> [Threads -> ThreadRecords]]
        /\ threads[w][t] \in ThreadRecords
        /\ calls \in [Callers -> CallRecords]
        /\ w \in Callers
        /\ pod \in PodRecords
    BY DEF TypeOK, Callers
  <1>a. ASSUME Exit(w, t) \/ RemoveWatcher(w, t)
        PROVE  /\ watchers' \in [Watchers -> WatcherRecords]
               /\ threads' \in [Watchers -> [Threads -> ThreadRecords]]
               /\ RemoveWatcher(w, t) => registered' \in Watchers \cup {None}
    <2>1. [watchers[w] EXCEPT !.phase = "gone", !.isClosed = TRUE,
                              !.subscribed = FALSE, !.chan = <<>>] \in WatcherRecords
      BY <1>0, ShortSeqs DEF WatcherRecords
    <2>2. watchers' \in [Watchers -> WatcherRecords]
      BY <1>0, <1>a, <2>1, WatcherType DEF Exit, RemoveWatcher
    <2>3. threads' \in [Watchers -> [Threads -> ThreadRecords]]
      <3>1. [threads[w] EXCEPT ![t] = Off] \in [Threads -> ThreadRecords]
        BY <1>0, ThreadType
      <3>2. [u \in Threads |-> IF Ended(w, t, u) THEN Off ELSE threads[w][u]]
              \in [Threads -> ThreadRecords]
        BY <1>0, ThreadType
      <3>3. CASE Exit(w, t)
        BY <1>0, <3>1, <3>3 DEF Exit
      <3>4. CASE RemoveWatcher(w, t)
        BY <1>0, <3>2, <3>4 DEF RemoveWatcher
      <3>5. QED
        BY <1>a, <3>3, <3>4
    <2>4. QED
      BY <2>2, <2>3 DEF RemoveWatcher, Deregistered, TypeOK
  <1>1. CASE DoUpdateStatus(w, t)
    <2>1. threads[w][t].st \in States
      BY <1>0 DEF ThreadRecords, Reports, States, PreRunning, Stopping
    <2>2. NewStatus(threads[w][t].st) \in WorkspaceRecords
      BY <1>0, <2>1, WritesType DEF NewStatus
    <2>3. /\ ws' \in WorkspaceRecords
          /\ fresh' \subseteq Callers \cup {"queue"}
          /\ events' \in Seq(EventRecords)
      BY <1>1, <2>2, PutType DEF DoUpdateStatus, TypeOK, store
    <2>4. threads' \in [Watchers -> [Threads -> ThreadRecords]]
      BY <1>0, <1>1, ThreadType DEF DoUpdateStatus, AfterUpdate, PCs
    <2>5. budget' \in BudgetRecords
      BY <1>1, BudgetType DEF DoUpdateStatus
    <2>6. QED
      BY <1>1, <2>3, <2>4, <2>5 DEF DoUpdateStatus, TypeOK, BudgetRecords, others
  <1>2. CASE OnStopped(w, t)
    <2>1. threads' \in [Watchers -> [Threads -> ThreadRecords]]
      BY <1>0, <1>2, ThreadType DEF OnStopped, AfterOnStopped, FailOnStopped, PCs
    <2>2. watchers' \in [Watchers -> WatcherRecords]
      BY <1>0, <1>2 DEF OnStopped, WatcherRecords
    <2>3. budget' \in BudgetRecords
      BY <1>2, BudgetType DEF OnStopped
    <2>4. sessions' \subseteq Nat
      BY <1>2 DEF OnStopped, TypeOK
    <2>5. QED
      BY <1>2, <2>1, <2>2, <2>3, <2>4 DEF OnStopped, TypeOK, BudgetRecords, store, others
  <1>3. CASE OnStoppedPanics(w, t)
    <2>1. budget' \in BudgetRecords
      BY <1>3, BudgetType DEF OnStoppedPanics
    <2>2. QED
      BY <1>3, <2>1, RestartedType DEF OnStoppedPanics
  <1>4. CASE OnStoppedK8s(w, t)
    <2>1. threads' \in [Watchers -> [Threads -> ThreadRecords]]
      BY <1>0, <1>4, ThreadType DEF OnStoppedK8s, AfterOnStopped, FailOnStopped, PCs
    <2>2. pod' \in PodRecords
      BY <1>0, <1>4 DEF OnStoppedK8s, DeleteOwner, PodRecords
    <2>3. /\ ws' \in WorkspaceRecords
          /\ fresh' \subseteq Callers \cup {"queue"}
          /\ events' \in Seq(EventRecords)
      BY <1>0, <1>4, PutType DEF OnStoppedK8s, TypeOK, store
    <2>4. budget' \in BudgetRecords
      BY <1>4, BudgetType DEF OnStoppedK8s
    <2>5. QED
      BY <1>4, <2>1, <2>2, <2>3, <2>4 DEF OnStoppedK8s, TypeOK, BudgetRecords, others
  <1>5. CASE DoClose(w, t)
    <2>1. CASE Exit(w, t) /\ UNCHANGED registered
      BY <1>5, <1>a, <2>1 DEF DoClose, TypeOK, store, others
    <2>2. CASE RemoveWatcher(w, t)
      BY <1>5, <1>a, <2>2 DEF DoClose, TypeOK, store, others
    <2>3. CASE /\ CloseDecision(w) # "finish"
               /\ Set(w, t, At(CloseDecision(w), "closing", "STOPPED"))
               /\ watchers' = [watchers EXCEPT ![w].isClosed = TRUE]
               /\ UNCHANGED registered
      <3>1. At(CloseDecision(w), "closing", "STOPPED") \in ThreadRecords
        BY ThreadType DEF CloseDecision, PCs, Paths, Reports
      <3>2. threads' \in [Watchers -> [Threads -> ThreadRecords]]
        BY <2>3, <3>1, ThreadType
      <3>3. watchers' \in [Watchers -> WatcherRecords]
        BY <1>0, <2>3 DEF WatcherRecords
      <3>4. QED
        BY <1>5, <2>3, <3>2, <3>3 DEF DoClose, TypeOK, store, others
    <2>4. QED
      BY <1>5, <2>1, <2>2, <2>3 DEF DoClose
  <1>6. CASE DoStopWorkspace(w, t)
    <2>1. threads' \in [Watchers -> [Threads -> ThreadRecords]]
      BY <1>0, <1>6, ThreadType DEF DoStopWorkspace, PCs
    <2>2. calls' \in [Callers -> CallRecords]
      <3>1. [NoCall EXCEPT !.op = "shutdown", !.kind = "close", !.run = ws.run,
                           !.sess = ws.session] \in CallRecords
        BY <1>0 DEF NoCall, CallRecords, WorkspaceRecords
      <3>2. QED
        BY <1>0, <1>6, <3>1 DEF DoStopWorkspace
    <2>3. fresh' \subseteq Callers \cup {"queue"}
      BY <1>0, <1>6 DEF DoStopWorkspace, TypeOK
    <2>4. budget' \in BudgetRecords
      BY <1>6, BudgetType DEF DoStopWorkspace
    <2>5. QED
      BY <1>6, <2>1, <2>2, <2>3, <2>4 DEF DoStopWorkspace, TypeOK, BudgetRecords, k8s
  <1>7. CASE FinishClose(w, t)
    BY <1>7, <1>a DEF FinishClose, TypeOK, store, others
  <1>8. QED
    BY <1>1, <1>2, <1>3, <1>4, <1>5, <1>6, <1>7 DEF ThreadSteps

\* The periodic pass keeps the types.
LEMMA PeriodicType ==
  ASSUME TypeOK, Periodic
  PROVE  TypeOK'
  <1>0. /\ ws \in WorkspaceRecords
        /\ periodic \in PassRecords
        /\ pod \in PodRecords
        /\ NoPass \in PassRecords /\ NoPass.op = "idle"
    BY DEF TypeOK, NoPass, PassRecords
  <1>1. CASE HandleWorkspaces
    <2>1. periodic' \in PassRecords /\ (periodic'.op = "stall" => periodic'.verdict # "none")
      <3>1. PICK v \in Verdicts(ws) :
              periodic' = [op |-> "resume", resumable |-> ws.state # "INIT_REQUEST",
                           verdict |-> v, run |-> ws.run, sess |-> ws.session]
        BY <1>1 DEF HandleWorkspaces
      <3>2. v \in {"none", "STOPPED", "STOPPING_REQUEST"}
        BY <1>0, <3>1 DEF Verdicts, Stopping, WorkspaceRecords, States, PreRunning
      <3>3. QED
        BY <1>0, <3>1, <3>2 DEF PassRecords, WorkspaceRecords
    <2>2. budget' \in BudgetRecords
      BY <1>1, BudgetType DEF HandleWorkspaces, TypeOK, BudgetRecords
    <2>3. QED
      BY <1>1, <2>1, <2>2 DEF HandleWorkspaces, TypeOK, BudgetRecords, store, supervision, k8s
  <1>2. CASE ResumeWorkspace
    <2>1. periodic' \in PassRecords /\ (periodic'.op = "stall" => periodic'.verdict # "none")
      BY <1>0, <1>2 DEF ResumeWorkspace, AfterResume, PassRecords
    <2>2. CASE UNCHANGED supervision
      BY <1>2, <2>1, <2>2 DEF ResumeWorkspace, TypeOK, store, supervision, k8s
    <2>3. ASSUME NEW w \in Watchers,
                 watchers' = [watchers EXCEPT ![w] = NewWatcher(periodic, "live")],
                 threads' = [threads EXCEPT ![w]["sup"] = At("wait", "status", "STOPPED")],
                 registered' = w
          PROVE  TypeOK'
      <3>1. NewWatcher(periodic, "live") \in WatcherRecords
        BY <1>0, WatcherType DEF NewWatcher, PassRecords
      <3>2. watchers' \in [Watchers -> WatcherRecords]
        BY <2>3, <3>1, WatcherType
      <3>3. At("wait", "status", "STOPPED") \in ThreadRecords
        BY DEF At, ThreadRecords, PCs, Paths, Reports
      <3>4. threads' \in [Watchers -> [Threads -> ThreadRecords]]
        BY <2>3, <3>3 DEF TypeOK
      <3>5. QED
        BY <1>2, <2>1, <2>3, <3>2, <3>4 DEF ResumeWorkspace, TypeOK, store, k8s
    <2>4. QED
      BY <1>2, <2>2, <2>3 DEF ResumeWorkspace
  <1>3. CASE DoHandleStalledState
    <2>1. /\ ws' \in WorkspaceRecords
          /\ fresh' \subseteq Callers \cup {"queue"}
          /\ events' \in Seq(EventRecords)
      <3>1. CASE UNCHANGED store
        BY <3>1 DEF store, TypeOK
      <3>2. CASE Put(Stamped([ws EXCEPT !.state = periodic.verdict]))
        <4>1. periodic.verdict \in States
          BY <1>0, <1>3 DEF DoHandleStalledState, TypeOK, PassRecords, States, Stopping
        <4>2. Stamped([ws EXCEPT !.state = periodic.verdict]) \in WorkspaceRecords
          BY <1>0, <4>1, WritesType
        <4>3. QED
          BY <3>2, <4>2, PutType
      <3>3. QED
        BY <1>3, <3>1, <3>2 DEF DoHandleStalledState, DoSetState
    <2>2. periodic' \in PassRecords /\ (periodic'.op = "stall" => periodic'.verdict # "none")
      BY <1>0, <1>3 DEF DoHandleStalledState, PassRecords
    <2>3. budget' \in BudgetRecords
      BY <1>3, BudgetType DEF DoHandleStalledState
    <2>4. QED
      BY <1>3, <2>1, <2>2, <2>3 DEF DoHandleStalledState, TypeOK, BudgetRecords, supervision, k8s
  <1>4. CASE StalledCleanup
    <2>1. pod' \in PodRecords
      BY <1>0, <1>4 DEF StalledCleanup, DeleteOwner, PodRecords
    <2>2. sessions' \subseteq Nat
      BY <1>4 DEF StalledCleanup, TypeOK
    <2>3. budget' \in BudgetRecords
      BY <1>4, BudgetType DEF StalledCleanup
    <2>4. QED
      BY <1>0, <1>4, <2>1, <2>2, <2>3 DEF StalledCleanup, TypeOK, BudgetRecords, store, supervision
  <1>5. QED
    BY <1>1, <1>2, <1>3, <1>4 DEF Periodic

\* The pod keeps the types.
LEMMA PodType ==
  ASSUME TypeOK, Pod
  PROVE  TypeOK'
  <1>a. pod \in PodRecords /\ watchers \in [Watchers -> WatcherRecords]
    BY DEF TypeOK
  <1>b. NoPod \in PodRecords
    BY DEF NoPod, PodRecords
  <1>c. \A r \in WatcherRecords : [r EXCEPT !.subscribed = FALSE] \in WatcherRecords
    BY DEF WatcherRecords
  <1>0. /\ pod \in PodRecords
        /\ NoPod \in PodRecords
        /\ watchers \in [Watchers -> WatcherRecords]
        /\ \A w \in Watchers : [watchers[w] EXCEPT !.subscribed = FALSE] \in WatcherRecords
    BY <1>a, <1>b, <1>c
  <1>1. ASSUME NEW st \in Reports, Report(st)
        PROVE  TypeOK'
    <2>1. pod' \in PodRecords
      BY <1>0, <1>1 DEF Report, PodRecords
    <2>2. \A w \in Watchers :
            [watchers[w] EXCEPT !.chan = Append(@, st)] \in WatcherRecords
      <3>1. TAKE w \in Watchers
      <3>2. Append(watchers[w].chan, st) \in Seq(Reports)
        BY <1>0, <1>1 DEF WatcherRecords
      <3>3. QED
        BY <1>0, <3>2 DEF WatcherRecords
    <2>3. watchers' \in [Watchers -> WatcherRecords]
      BY <1>0, <1>1, <2>2 DEF Report
    <2>4. QED
      BY <1>1, <2>1, <2>3 DEF Report, TypeOK, store, nocturne
  <1>2. CASE PodRestart
    <2>1. pod' \in PodRecords
      BY <1>0, <1>2 DEF PodRestart, PodRecords
    <2>2. budget' \in BudgetRecords
      BY <1>2 DEF PodRestart, TypeOK, BudgetRecords
    <2>3. QED
      BY <1>0, <1>2, <2>1, <2>2 DEF PodRestart, BreakLinks, TypeOK, BudgetRecords, store, nocturne
  <1>3. CASE PodGone
    <2>1. pvc' \in [run : Nat, terminating : BOOLEAN]
      BY <1>3 DEF PodGone, NoPVC, TypeOK
    <2>2. QED
      BY <1>0, <1>3, <2>1 DEF PodGone, BreakLinks, TypeOK, store, nocturne
  <1>4. QED
    BY <1>1, <1>2, <1>3 DEF Pod, PodServe, PodRun, PodStopping, PodStopped, Reports

\* Every step keeps the types.
LEMMA TypeNext ==
  ASSUME TypeOK, [Next]_vars
  PROVE  TypeOK'
  <1>1. CASE Age
    <2>1. ws' \in WorkspaceRecords
      BY <1>1 DEF Age, TypeOK, WorkspaceRecords
    <2>2. QED
      BY <1>1, <2>1 DEF Age, TypeOK, supervision, k8s
  <1>2. CASE NocturneCrash
    <2>1. budget' \in BudgetRecords
      BY <1>2 DEF NocturneCrash, TypeOK, BudgetRecords
    <2>2. QED
      BY <1>2, <2>1, RestartedType DEF NocturneCrash
  <1>3. CASE UNCHANGED vars
    BY <1>3 DEF vars, TypeOK
  <1>4. QED
    BY <1>1, <1>2, <1>3, UserType, HandlerType, StopType, SuperviseType, ThreadStepsType,
       PeriodicType, PodType DEF Next

\* Every state of the lifecycle is well typed.  In particular no writer (a status of
\* the supervisor, a request, the periodic pass's verdict on a copy that it listed
\* earlier) ever stores anything but a Workspace state.
THEOREM TypeCorrect == Spec => []TypeOK
  BY TypeInit, TypeNext, PTL DEF Spec

-----------------------------------------------------------------------------
(* One statusWatcher at a time: SupervisionInv is inductive, and with it   *)
(* OneWatcher, CloseOnce and OnlyRegisteredReports hold.                   *)

\* A step that leaves the controller's calls, watcherMap and goroutines alone, and
\* every watcher in its phase.
LEMMA QuietStep ==
  ASSUME SupervisionInv, calls' = calls, registered' = registered, threads' = threads,
         \A w \in Watchers : /\ watchers'[w].phase = watchers[w].phase
                             /\ watchers'[w].isClosed = watchers[w].isClosed,
         TypeOK
  PROVE  SupervisionInv'
  <1>1. registered \in Watchers \cup {None}
    BY DEF TypeOK
  <1>2. OneWatcher' /\ CloseOnce'
    BY DEF SupervisionInv, OneWatcher, CloseOnce
  <1>3. RegisteredLives'
    BY <1>1 DEF SupervisionInv, RegisteredLives
  <1>4. ThreadsFollowPhase'
    BY DEF SupervisionInv, ThreadsFollowPhase
  <1>5. CloserHoldsWatcher'
    BY DEF SupervisionInv, CloserHoldsWatcher
  <1>6. QED
    BY <1>2, <1>3, <1>4, <1>5 DEF SupervisionInv

\* Steps of the controller's calls that leave the watchers alone: an event handler
\* that is not, and does not become, about to add a Deployment.
LEMMA HandlerStep ==
  ASSUME SupervisionInv, TypeOK, UNCHANGED supervision, NEW h \in Handlers,
         calls[h].op # "doOnAdd",
         \/ calls' = calls
         \/ /\ calls' = [calls EXCEPT ![h] = calls'[h]]
            /\ calls'[h].op # "doOnAdd"
  PROVE  SupervisionInv'
  <1>1. /\ registered' = registered /\ watchers' = watchers /\ threads' = threads
        /\ h \in Callers /\ \A w \in Watchers : w # h /\ w \in Callers
        /\ calls \in [Callers -> CallRecords]
    BY ConstAssumption DEF supervision, Callers, TypeOK
  <1>2. \A w \in Watchers : calls'[w] = calls[w]
    BY <1>1
  <1>3. \A g \in Handlers : g = h
    BY ConstAssumption
  <1>4. OneWatcher' /\ CloseOnce' /\ ThreadsFollowPhase'
    BY <1>1 DEF SupervisionInv, OneWatcher, CloseOnce, ThreadsFollowPhase
  <1>5. RegisteredLives'
    BY <1>1, <1>3 DEF SupervisionInv, RegisteredLives
  <1>6. CloserHoldsWatcher'
    BY <1>1, <1>2 DEF SupervisionInv, CloserHoldsWatcher
  <1>7. QED
    BY <1>4, <1>5, <1>6 DEF SupervisionInv

\* What Goto leaves alone.
LEMMA ThreadPc ==
  ASSUME NEW r \in ThreadRecords, NEW pc \in PCs
  PROVE  /\ [r EXCEPT !.pc = pc] \in ThreadRecords
         /\ [r EXCEPT !.pc = pc].pc = pc
         /\ [r EXCEPT !.pc = pc].path = r.path
         /\ [r EXCEPT !.pc = pc].st = r.st
  BY DEF ThreadRecords

\* A step of the goroutines of one watcher that leaves the calls, watcherMap and the
\* phases alone: none becomes the closing one, and the closing one goes on.
LEMMA ThreadsStep ==
  ASSUME SupervisionInv, TypeOK, calls' = calls, registered' = registered,
         \A v \in Watchers : /\ watchers'[v].phase = watchers[v].phase
                             /\ watchers'[v].isClosed = watchers[v].isClosed,
         NEW w \in Watchers,
         \A v \in Watchers : v # w => threads'[v] = threads[v],
         watchers[w].phase \in {"live", "gone"},
         \A t \in Threads :
           \/ threads'[w][t] = threads[w][t]
           \/ /\ t = "sup" => watchers[w].phase = "live"
              /\ t # "sup" => threads'[w][t].st = "STOPPED"
              /\ threads'[w][t].path = "closing"
                   => threads[w][t].path = "closing" /\ threads[w][t].pc # "off"
              /\ threads'[w][t].pc \in {"stop", "finish"} => threads'[w][t].path = "closing"
              /\ threads'[w][t].pc \in {"onStopped", "delK8s"} => threads'[w][t].path # "status"
              /\ threads[w][t].pc = "finish" => threads'[w][t].pc = "finish",
         threads'[w]["sup"].pc = "wait" => threads'[w]["health"] = Off
  PROVE  SupervisionInv'
  <1>1. registered \in Watchers \cup {None} /\ "sup" \in Threads
    BY DEF TypeOK, Threads
  <1>3. OneWatcher'
    BY DEF SupervisionInv, OneWatcher
  <1>4. CloseOnce'
    BY DEF SupervisionInv, CloseOnce
  <1>5. RegisteredLives'
    BY <1>1 DEF SupervisionInv, RegisteredLives
  <1>6. ThreadsFollowPhase'
    <2>1. ASSUME NEW v \in Watchers, v # w
          PROVE  /\ watchers'[v].phase \in {"free", "new"} => threads'[v] = AllOff
                 /\ watchers'[v].phase = "gone" => watchers'[v].isClosed
                 /\ threads'[v]["sup"].pc # "off" => watchers'[v].phase = "live"
                 /\ threads'[v]["sup"].pc = "wait" => threads'[v]["health"] = Off
                 /\ \A t \in Threads \ {"sup"} : threads'[v][t].st = "STOPPED"
      BY <2>1 DEF SupervisionInv, ThreadsFollowPhase
    <2>2. /\ watchers'[w].phase = "gone" => watchers'[w].isClosed
          /\ threads'[w]["sup"].pc # "off" => watchers'[w].phase = "live"
      BY <1>1 DEF SupervisionInv, ThreadsFollowPhase
    <2>3. \A t \in Threads \ {"sup"} : threads'[w][t].st = "STOPPED"
      BY <1>1 DEF SupervisionInv, ThreadsFollowPhase
    <2>4. QED
      BY <2>1, <2>2, <2>3 DEF ThreadsFollowPhase
  <1>7. CloserHoldsWatcher'
    BY DEF SupervisionInv, CloserHoldsWatcher
  <1>8. QED
    BY <1>3, <1>4, <1>5, <1>6, <1>7 DEF SupervisionInv

\* The same, when one goroutine goes on.
LEMMA ThreadStep ==
  ASSUME SupervisionInv, TypeOK, calls' = calls, registered' = registered,
         \A v \in Watchers : /\ watchers'[v].phase = watchers[v].phase
                             /\ watchers'[v].isClosed = watchers[v].isClosed,
         NEW w \in Watchers, NEW t \in Threads, NEW th \in ThreadRecords,
         threads' = [threads EXCEPT ![w][t] = th],
         watchers[w].phase \in {"live", "gone"},
         t = "sup" => watchers[w].phase = "live",
         t # "sup" => th.st = "STOPPED",
         th.path = "closing" => threads[w][t].path = "closing" /\ threads[w][t].pc # "off",
         th.pc \in {"stop", "finish"} => th.path = "closing",
         th.pc \in {"onStopped", "delK8s"} => th.path # "status",
         threads[w][t].pc = "finish" => th.pc = "finish",
         threads[w][t].pc # "off", th.pc # "wait"
  PROVE  SupervisionInv'
  <1>1. threads \in [Watchers -> [Threads -> ThreadRecords]]
    BY DEF TypeOK
  <1>2. /\ threads'[w][t] = th
        /\ \A u \in Threads : u # t => threads'[w][u] = threads[w][u]
        /\ \A v \in Watchers : v # w => threads'[v] = threads[v]
    BY <1>1
  <1>3. threads'[w]["sup"].pc = "wait" => threads'[w]["health"] = Off
    <2>1. SUFFICES ASSUME threads'[w]["sup"].pc = "wait"
                   PROVE  threads'[w]["health"] = Off
      OBVIOUS
    <2>2. t # "sup" /\ threads[w]["sup"].pc = "wait"
      BY <1>2, <2>1 DEF Threads
    <2>3. threads[w]["health"] = Off /\ Off.pc = "off"
      BY <2>2 DEF SupervisionInv, ThreadsFollowPhase, Off, At
    <2>4. QED
      BY <1>2, <2>3 DEF Threads
  <1>4. QED
    BY <1>2, <1>3, ThreadsStep

\* Nocturne has just started.
Unsupervised ==
  /\ calls = [c \in Callers |-> NoCall]
  /\ registered = None
  /\ watchers = [w \in Watchers |-> FreeWatcher]
  /\ threads = [w \in Watchers |-> AllOff]

LEMMA UnsupervisedInv == Unsupervised => SupervisionInv
  <1> SUFFICES ASSUME Unsupervised PROVE SupervisionInv
    OBVIOUS
  <1>1. \A w \in Watchers : /\ watchers[w].phase = "free" /\ threads[w] = AllOff
                            /\ calls[w].op = "idle"
    BY DEF Unsupervised, FreeWatcher, NoCall, Callers
  <1>2. \A t \in Threads : AllOff[t].pc = "off" /\ AllOff[t].st = "STOPPED"
    BY DEF AllOff, Off, At
  <1>a. AllOff["sup"].pc # "wait"
    BY DEF AllOff, Off, At, Threads
  <1>3. \A h \in Handlers : calls[h].op = "idle"
    BY DEF Unsupervised, NoCall, Callers
  <1>4. registered = None /\ "sup" \in Threads
    BY DEF Unsupervised, Threads
  <1>5. OneWatcher /\ CloseOnce
    BY <1>1, <1>2 DEF OneWatcher, CloseOnce
  <1>6. RegisteredLives
    BY <1>1, <1>3, <1>4 DEF RegisteredLives
  <1>7. ThreadsFollowPhase
    BY <1>1, <1>2, <1>4, <1>a DEF ThreadsFollowPhase
  <1>8. CloserHoldsWatcher
    BY <1>1, <1>2 DEF CloserHoldsWatcher
  <1>9. QED
    BY <1>5, <1>6, <1>7, <1>8 DEF SupervisionInv

\* Dispatch, startWorkspace and setWorkspaceStartFailure.
LEMMA HandlerSupervision ==
  ASSUME SupervisionInv, TypeOK, NEW h \in Handlers, Dispatch(h) \/ StartSteps(h)
  PROVE  SupervisionInv'
  <1>0. /\ h \in Callers
        /\ calls \in [Callers -> CallRecords]
        /\ watchers \in [Watchers -> WatcherRecords]
        /\ threads \in [Watchers -> [Threads -> ThreadRecords]]
        /\ registered \in Watchers \cup {None}
        /\ None \notin Watchers
        /\ \A g \in Handlers : g = h
        /\ \A w \in Watchers : w # h /\ w \in Callers
        /\ NoCall.op = "idle"
        /\ FreeWatcher.phase = "free" /\ FreeWatcher.isClosed = FALSE
        /\ "sup" \in Threads
    BY ConstAssumption DEF TypeOK, Callers, NoCall, FreeWatcher, Threads
  <1>1. CASE Dispatch(h)
    <2>1. calls[h].op # "doOnAdd" /\ UNCHANGED supervision
      BY <1>1 DEF Dispatch
    <2>2. calls' = [calls EXCEPT ![h] = calls'[h]] /\ calls'[h].op # "doOnAdd"
      BY <1>0, <1>1 DEF Dispatch, FirstOp
    <2>3. QED
      BY <2>1, <2>2, HandlerStep
  <1>2. CASE SetPVC(h) \/ ResolveFails(h) \/ FailSession(h)
    <2>1. calls[h].op # "doOnAdd" /\ UNCHANGED supervision
      BY <1>2 DEF SetPVC, ResolveFails, FailSession
    <2>2. calls' = [calls EXCEPT ![h] = calls'[h]] /\ calls'[h].op # "doOnAdd"
      <3>1. CASE Return(h)
        BY <1>0, <3>1 DEF Return
      <3>2. CASE GotoOp(h, "setWatcher")
        BY <1>0, <3>2 DEF GotoOp, CallRecords
      <3>3. CASE calls' = [calls EXCEPT ![h].op = "failSession", ![h].sess = ws.session]
        BY <1>0, <3>3 DEF CallRecords
      <3>4. QED
        BY <1>2, <3>1, <3>2, <3>3 DEF SetPVC, ResolveFails, FailSession
    <2>3. QED
      BY <2>1, <2>2, HandlerStep
  <1>3. CASE SetWatcher(h)
    <2>1. CASE ~MayRegister
      <3>1. calls[h].op # "doOnAdd" /\ UNCHANGED supervision
        BY <1>3, <2>1 DEF SetWatcher
      <3>2. calls' = [calls EXCEPT ![h] = calls'[h]] /\ calls'[h].op # "doOnAdd"
        BY <1>0, <1>3, <2>1 DEF SetWatcher, Return
      <3>3. QED
        BY <3>1, <3>2, HandlerStep
    <2>2. CASE MayRegister
      <3>1. PICK w \in Watchers :
              /\ watchers[w].phase = "free"
              /\ watchers' = [watchers EXCEPT ![w] = NewWatcher(calls[h], "new")]
              /\ registered' = w
              /\ calls' = [calls EXCEPT ![h].op = "doOnAdd", ![h].w = w]
              /\ threads' = threads
        BY <1>3, <2>2 DEF SetWatcher
      <3>2. /\ watchers'[w].phase = "new" /\ watchers'[w].isClosed = FALSE
            /\ \A v \in Watchers : v # w => watchers'[v] = watchers[v]
            /\ \A v \in Watchers : calls'[v] = calls[v]
            /\ calls'[h].op = "doOnAdd" /\ calls'[h].w = w
        BY <1>0, <3>1 DEF NewWatcher, FreeWatcher, CallRecords
      <3>3. \A v \in Watchers : watchers[v].phase \notin {"new", "live"}
        BY <1>0, <2>2 DEF MayRegister, SupervisionInv, OneWatcher
      <3>4. OneWatcher' /\ CloseOnce'
        BY <3>1, <3>2, <3>3 DEF SupervisionInv, OneWatcher, CloseOnce
      <3>5. RegisteredLives'
        BY <1>0, <3>1, <3>2, <3>3 DEF RegisteredLives
      <3>6. ThreadsFollowPhase'
        <4>1. threads[w] = AllOff /\ AllOff["sup"].pc = "off"
          BY <1>0, <3>1 DEF SupervisionInv, ThreadsFollowPhase, AllOff, Off, At
        <4>2. QED
          BY <3>1, <3>2, <4>1 DEF SupervisionInv, ThreadsFollowPhase
      <3>7. CloserHoldsWatcher'
        <4>1. \A v \in Watchers, t \in Threads :
                ~(threads[v][t].path = "closing" /\ threads[v][t].pc # "off")
          BY <3>3 DEF SupervisionInv, CloserHoldsWatcher
        <4>2. threads' = threads /\ \A v \in Watchers : calls'[v] = calls[v]
          BY <3>1, <3>2
        <4>3. QED
          BY <4>1, <4>2 DEF SupervisionInv, CloserHoldsWatcher
      <3>8. QED
        BY <3>4, <3>5, <3>6, <3>7 DEF SupervisionInv
    <2>3. QED
      BY <2>1, <2>2
  <1>4. CASE DoOnAdd(h)
    <2> DEFINE w == calls[h].w
    <2>1. w \in Watchers /\ watchers[w].phase = "new" /\ registered = w
      BY <1>4 DEF DoOnAdd, SupervisionInv, RegisteredLives, OneWatcher
    <2>2. threads[w] = AllOff
      BY <2>1 DEF SupervisionInv, ThreadsFollowPhase
    <2>3. /\ watchers'[w].phase = "live" /\ watchers'[w].isClosed = watchers[w].isClosed
          /\ \A v \in Watchers : v # w => watchers'[v] = watchers[v]
          /\ \A v \in Watchers : calls'[v] = calls[v]
          /\ calls'[h].op = "idle"
          /\ registered' = w
      BY <1>0, <1>4, <2>1 DEF DoOnAdd, Return, WatcherRecords
    <2>4. /\ threads'[w]["sup"] = At("wait", "status", "STOPPED")
          /\ \A t \in Threads : t # "sup" => threads'[w][t] = threads[w][t]
          /\ \A v \in Watchers : v # w => threads'[v] = threads[v]
      BY <1>0, <1>4, <2>1 DEF DoOnAdd
    <2>5. \A t \in Threads : AllOff[t].pc = "off" /\ AllOff[t].st = "STOPPED"
      BY DEF AllOff, Off, At
    <2>6. OneWatcher'
      BY <2>1, <2>3 DEF SupervisionInv, OneWatcher
    <2>7. CloseOnce'
      BY <2>2, <2>4, <2>5 DEF SupervisionInv, CloseOnce, At
    <2>8. RegisteredLives'
      BY <1>0, <2>1, <2>3 DEF SupervisionInv, RegisteredLives, OneWatcher
    <2>a. AllOff["health"] = Off /\ "health" \in Threads
      BY DEF AllOff, Threads
    <2>9. ThreadsFollowPhase'
      BY <2>2, <2>3, <2>4, <2>5, <2>a DEF SupervisionInv, ThreadsFollowPhase
    <2>10. CloserHoldsWatcher'
      BY <2>2, <2>3, <2>4, <2>5 DEF SupervisionInv, CloserHoldsWatcher, At
    <2>11. QED
      BY <2>6, <2>7, <2>8, <2>9, <2>10 DEF SupervisionInv
  <1>5. CASE DoOnAddFails(h)
    <2> DEFINE w == calls[h].w
    <2>1. w \in Watchers /\ watchers[w].phase = "new" /\ registered = w
      BY <1>5 DEF DoOnAddFails, SupervisionInv, RegisteredLives, OneWatcher
    <2>2. threads[w] = AllOff /\ threads' = threads
      BY <1>5, <2>1 DEF DoOnAddFails, SupervisionInv, ThreadsFollowPhase
    <2>3. /\ watchers'[w] = FreeWatcher
          /\ \A v \in Watchers : v # w => watchers'[v] = watchers[v]
          /\ \A v \in Watchers : calls'[v] = calls[v]
          /\ calls'[h].op = "idle"
          /\ registered' = None
      BY <1>0, <1>5, <2>1 DEF DoOnAddFails, Return
    <2>4. \A t \in Threads : AllOff[t].pc = "off" /\ AllOff[t].st = "STOPPED"
      BY DEF AllOff, Off, At
    <2>5. OneWatcher' /\ CloseOnce'
      BY <1>0, <2>1, <2>2, <2>3 DEF SupervisionInv, OneWatcher, CloseOnce
    <2>6. RegisteredLives'
      BY <1>0, <2>1, <2>3 DEF SupervisionInv, RegisteredLives, OneWatcher
    <2>7. ThreadsFollowPhase'
      BY <1>0, <2>2, <2>3, <2>4 DEF SupervisionInv, ThreadsFollowPhase
    <2>8. CloserHoldsWatcher'
      BY <2>2, <2>3, <2>4 DEF SupervisionInv, CloserHoldsWatcher
    <2>9. QED
      BY <2>5, <2>6, <2>7, <2>8 DEF SupervisionInv
  <1>6. QED
    BY <1>1, <1>2, <1>3, <1>4, <1>5 DEF StartSteps

\* stopWorkspace, called by an event handler or by the closing goroutine of a
\* watcher: the watcher whose forceOnStop it spawns is running.
LEMMA StopSupervision ==
  ASSUME SupervisionInv, TypeOK, NEW c \in Callers, StopSteps(c)
  PROVE  SupervisionInv'
  <1>0. /\ calls \in [Callers -> CallRecords]
        /\ threads \in [Watchers -> [Threads -> ThreadRecords]]
        /\ registered \in Watchers \cup {None}
        /\ Watchers \subseteq Callers /\ Handlers \subseteq Callers
        /\ c \in Handlers \/ c \in Watchers
        /\ \A g, h \in Handlers : g = h
        /\ \A w \in Watchers : w \notin Handlers
        /\ "force" \in Threads /\ "sup" # "force"
    BY ConstAssumption DEF TypeOK, Callers, Threads
  <1>1. /\ calls[c].op \in {"shutdown", "delK8s", "update", "pvc"}
        /\ calls'[c].op \in {"delK8s", "update", "pvc", "idle"}
        /\ \A d \in Callers : d # c => calls'[d] = calls[d]
        /\ registered' = registered /\ watchers' = watchers
    BY <1>0 DEF StopSteps, Shutdown, StopDelK8s, StopUpdate, StopPVC, AfterStop, AbortStop,
       ShutdownErr, GotoOp, Return, NoCall, CallRecords, supervision
  <1>2. registered # None => watchers[registered].phase = "live"
    <2>1. SUFFICES ASSUME registered # None, watchers[registered].phase = "new"
                   PROVE  FALSE
      BY DEF SupervisionInv, RegisteredLives
    <2>2. PICK h \in Handlers : calls[h].op = "doOnAdd"
      BY <1>0, <2>1 DEF SupervisionInv, RegisteredLives
    <2>3. c \in Watchers
      BY <1>0, <1>1, <2>2
    <2>4. watchers[c].phase = "live"
      BY <1>1, <2>3 DEF SupervisionInv, CloserHoldsWatcher
    <2>5. registered = c
      BY <2>3, <2>4 DEF SupervisionInv, OneWatcher
    <2>6. QED
      BY <2>1, <2>4, <2>5
  <1>3. \/ threads' = threads
        \/ /\ registered # None
           /\ threads' = [threads EXCEPT ![registered]["force"] = At("update", "force", "STOPPED")]
    BY DEF StopSteps, Shutdown, StopDelK8s, StopUpdate, StopPVC, SpawnForce, supervision
  <1>4. OneWatcher'
    BY <1>1 DEF SupervisionInv, OneWatcher
  <1>5. RegisteredLives'
    BY <1>0, <1>1 DEF SupervisionInv, RegisteredLives
  <1>6. CASE threads' = threads
    <2>1. CloseOnce' /\ ThreadsFollowPhase'
      BY <1>1, <1>6 DEF SupervisionInv, CloseOnce, ThreadsFollowPhase
    <2>2. CloserHoldsWatcher'
      BY <1>0, <1>1, <1>6 DEF SupervisionInv, CloserHoldsWatcher
    <2>3. QED
      BY <1>4, <1>5, <2>1, <2>2 DEF SupervisionInv
  <1>7. CASE /\ registered # None
             /\ threads[registered]["force"] = Off
             /\ threads' = [threads EXCEPT ![registered]["force"] = At("update", "force", "STOPPED")]
    <2>1. /\ \A v \in Watchers : \A t \in Threads :
               v # registered \/ t # "force" => threads'[v][t] = threads[v][t]
          /\ \A v \in Watchers : v # registered => threads'[v] = threads[v]
          /\ threads'[registered]["force"].pc = "update"
          /\ threads'[registered]["force"].path = "force"
          /\ threads'[registered]["force"].st = "STOPPED"
          /\ threads[registered]["force"].pc = "off"
      BY <1>0, <1>7 DEF At, Off
    <2>2. CloseOnce'
      BY <2>1 DEF SupervisionInv, CloseOnce
    <2>3. ThreadsFollowPhase'
      <3>1. "sup" \in Threads
        BY DEF Threads
      <3>2. QED
        BY <1>0, <1>1, <1>2, <1>7, <2>1, <3>1 DEF SupervisionInv, ThreadsFollowPhase
    <2>4. CloserHoldsWatcher'
      <3>1. ASSUME NEW w \in Watchers, calls'[w].op # "idle"
            PROVE  \E t \in Threads : threads'[w][t].pc = "finish"
        <4>1. calls[w].op # "idle"
          BY <1>0, <1>1, <3>1
        <4>2. PICK t \in Threads : threads[w][t].pc = "finish"
          BY <4>1 DEF SupervisionInv, CloserHoldsWatcher
        <4>3. QED
          BY <2>1, <4>2
      <3>2. QED
        BY <1>1, <2>1, <3>1 DEF SupervisionInv, CloserHoldsWatcher
    <2>5. QED
      BY <1>4, <1>5, <2>2, <2>3, <2>4 DEF SupervisionInv
  <1>8. QED
    BY <1>3, <1>6, <1>7 DEF StopSteps, Shutdown, StopDelK8s, StopUpdate, StopPVC, SpawnForce, supervision

\* The supervising goroutine and the timers.
LEMMA SuperviseSupervision ==
  ASSUME SupervisionInv, TypeOK, NEW w \in Watchers,
         Supervise(w) \/ StreamBreaks(w) \/ HealthTimeout(w) \/ CleanupTimeout(w)
  PROVE  SupervisionInv'
  <1>0. /\ watchers \in [Watchers -> WatcherRecords]
        /\ threads \in [Watchers -> [Threads -> ThreadRecords]]
        /\ {"sup", "health", "clean"} \subseteq Threads
        /\ pod \in PodRecords
    BY DEF TypeOK, Threads
  <1>1. /\ calls' = calls /\ registered' = registered
        /\ \A v \in Watchers : /\ watchers'[v].phase = watchers[v].phase
                                /\ watchers'[v].isClosed = watchers[v].isClosed
    <2>1. calls' = calls /\ registered' = registered
      BY DEF Supervise, WaitReady, WaitTimeout, ListenState, HandleStatus, OnReadyInit,
         StreamBreaks, HealthTimeout, CleanupTimeout, others
    <2>2. CASE \/ WaitReady(w) \/ WaitTimeout(w) \/ ListenState(w)
               \/ StreamBreaks(w) \/ HealthTimeout(w)
      <3>1. PICK r \in {[watchers[w] EXCEPT !.connected = TRUE],
                       [watchers[w] EXCEPT !.healthCheckErr = TRUE],
                       [watchers[w] EXCEPT !.subscribed = TRUE, !.chan = <<pod.st>>],
                       [watchers[w] EXCEPT !.subscribed = FALSE, !.chan = <<>>]} :
              watchers' = [watchers EXCEPT ![w] = r]
        BY <1>0, <2>2 DEF WaitReady, WaitTimeout, ListenState, StreamBreaks, HealthTimeout
      <3>2. r.phase = watchers[w].phase /\ r.isClosed = watchers[w].isClosed
        BY <1>0, <3>1 DEF WatcherRecords
      <3>3. QED
        BY <1>0, <2>1, <3>1, <3>2
    <2>3. CASE HandleStatus(w)
      <3> DEFINE read == [watchers EXCEPT ![w].chan = Tail(@)]
      <3>1. \A v \in Watchers : /\ read[v].phase = watchers[v].phase
                                /\ read[v].isClosed = watchers[v].isClosed
        BY <1>0 DEF WatcherRecords
      <3>2. watchers' \in {read, [read EXCEPT ![w].didOnInit = TRUE],
                           [read EXCEPT ![w].didOnStopping = TRUE]}
        BY <2>3 DEF HandleStatus
      <3>3. \A v \in Watchers : /\ watchers'[v].phase = read[v].phase
                                /\ watchers'[v].isClosed = read[v].isClosed
        BY <1>0, <3>2 DEF WatcherRecords
      <3>4. QED
        BY <2>1, <3>1, <3>3
    <2>4. CASE OnReadyInit(w) \/ CleanupTimeout(w)
      BY <2>1, <2>4 DEF OnReadyInit, CleanupTimeout
    <2>5. QED
      BY <2>2, <2>3, <2>4 DEF Supervise
  <1>a. ASSUME NEW t \in Threads, NEW pc \in {"recv", "update", "close"}, Goto(w, t, pc),
               threads[w][t].pc \notin {"off", "finish"}
        PROVE  SupervisionInv'
    <2> DEFINE th == [threads[w][t] EXCEPT !.pc = pc]
    <2>a. threads[w][t] \in ThreadRecords /\ pc \in PCs
      BY <1>0, <1>a DEF PCs
    <2>1. /\ th \in ThreadRecords /\ th.pc = pc /\ th.path = threads[w][t].path
          /\ th.st = threads[w][t].st
      BY <2>a, ThreadPc
    <2>2. threads' = [threads EXCEPT ![w][t] = th]
      BY <1>a DEF Goto
    <2>3. /\ watchers[w].phase \in {"live", "gone"}
          /\ t = "sup" => watchers[w].phase = "live"
          /\ t # "sup" => th.st = "STOPPED"
      <3>1. AllOff[t].pc = "off"
        BY <1>a DEF AllOff, Off, At
      <3>2. watchers[w].phase \in {"free", "new", "live", "gone"}
        BY <1>0 DEF WatcherRecords
      <3>3. QED
        BY <1>a, <2>1, <3>1, <3>2 DEF SupervisionInv, ThreadsFollowPhase
    <2>4. QED
      BY <1>1, <1>a, <2>1, <2>2, <2>3, ThreadStep
  <1>2. CASE WaitReady(w)
    <2>1. /\ threads'[w]["sup"] = [threads[w]["sup"] EXCEPT !.pc = "recv"]
          /\ threads'[w]["health"] = [threads[w]["health"] EXCEPT !.pc = "watch"]
          /\ \A t \in Threads : t \notin {"sup", "health"} => threads'[w][t] = threads[w][t]
          /\ \A v \in Watchers : v # w => threads'[v] = threads[v]
      BY <1>0, <1>2 DEF WaitReady
    <2>2. threads[w]["sup"].pc = "wait" /\ watchers[w].phase = "live"
      BY <1>2 DEF WaitReady, SupervisionInv, ThreadsFollowPhase
    <2>a. /\ threads'[w]["sup"].pc = "recv"
          /\ threads'[w]["sup"].path = threads[w]["sup"].path
          /\ threads'[w]["health"].pc = "watch"
          /\ threads'[w]["health"].path = threads[w]["health"].path
          /\ threads'[w]["health"].st = threads[w]["health"].st
      BY <1>0, <2>1, ThreadPc DEF PCs
    <2>b. /\ \A t \in Threads : t \notin {"sup", "health"} => threads'[w][t] = threads[w][t]
          /\ \A v \in Watchers : v # w => threads'[v] = threads[v]
      BY <2>1
    <2>3. threads[w]["health"].st = "STOPPED"
      BY <1>0 DEF SupervisionInv, ThreadsFollowPhase
    <2>4. threads[w]["health"].pc # "finish" /\ threads[w]["health"].path # "closing"
      BY <2>2 DEF SupervisionInv, ThreadsFollowPhase, Off, At
    <2>5. QED
      BY <1>1, <2>2, <2>3, <2>4, <2>a, <2>b, ThreadsStep
  <1>3. CASE ListenState(w)
    BY <1>1, <1>3, QuietStep DEF ListenState
  <1>4. CASE StreamBreaks(w)
    <2>1. CASE UNCHANGED threads
      BY <1>1, <2>1, QuietStep
    <2>2. CASE Goto(w, "sup", "close")
      BY <1>0, <1>4, <1>a, <2>2 DEF StreamBreaks
    <2>3. QED
      BY <1>4, <2>1, <2>2 DEF StreamBreaks
  <1>6. CASE WaitTimeout(w) \/ OnReadyInit(w) \/ HealthTimeout(w) \/ CleanupTimeout(w)
    BY <1>0, <1>6, <1>a DEF WaitTimeout, OnReadyInit, HealthTimeout, CleanupTimeout
  <1>7. CASE HandleStatus(w)
    <2> DEFINE st == Head(watchers[w].chan)
    <2>1. st \in Reports
      BY <1>0, <1>7 DEF HandleStatus, WatcherRecords
    <2>2. threads[w]["sup"].pc = "recv" /\ watchers[w].phase = "live"
      BY <1>7 DEF HandleStatus, SupervisionInv, ThreadsFollowPhase
    <2>3. ASSUME NEW pc \in {"update", "init", "onStopped"}, NEW path \in {"status", "handle"},
                 pc = "onStopped" => path = "handle", Set(w, "sup", At(pc, path, st))
          PROVE  SupervisionInv'
      <3>1. At(pc, path, st) \in ThreadRecords /\ At(pc, path, st).pc = pc
            /\ At(pc, path, st).path = path
        BY <2>1, <2>3 DEF At, ThreadRecords, PCs, Paths
      <3>2. threads' = [threads EXCEPT ![w]["sup"] = At(pc, path, st)]
        BY <2>3 DEF Set
      <3>3. QED
        BY <1>0, <1>1, <2>2, <2>3, <3>1, <3>2, ThreadStep, ZenonT(30)
    <2>4. CASE st = "STOPPING"
      <3> DEFINE sup == At("update", "status", st)
                 clean == IF watchers[w].didOnStopping THEN threads[w]["clean"]
                          ELSE At("timer", "force", "STOPPED")
      <3>1. /\ threads'[w]["sup"] = sup /\ threads'[w]["clean"] = clean
            /\ \A t \in Threads : t \notin {"sup", "clean"} => threads'[w][t] = threads[w][t]
            /\ \A v \in Watchers : v # w => threads'[v] = threads[v]
        BY <1>0, <1>7, <2>4 DEF HandleStatus
      <3>2. /\ sup.pc = "update" /\ sup.path = "status"
            /\ \/ clean = threads[w]["clean"]
               \/ clean.pc = "timer" /\ clean.path = "force" /\ clean.st = "STOPPED"
        BY DEF At
      <3>3. ~watchers[w].isClosed
        BY <1>7 DEF HandleStatus
      <3>4. threads[w]["clean"].pc # "finish" /\ threads[w]["sup"].pc # "finish"
        BY <1>0, <2>2, <3>3 DEF SupervisionInv, CloserHoldsWatcher
      <3>5. QED
        BY <1>1, <2>2, <3>1, <3>2, <3>4, ThreadsStep
    <2>5. CASE st # "STOPPING"
      BY <1>7, <2>1, <2>3, <2>5 DEF HandleStatus, Reports
    <2>6. QED
      BY <2>4, <2>5
  <1>8. QED
    BY <1>2, <1>3, <1>4, <1>6, <1>7 DEF Supervise

\* A goroutine goes on inside doUpdateStatus, onStopped or doClose.
LEMMA GotoStep ==
  ASSUME SupervisionInv, TypeOK, calls' = calls, registered' = registered,
         \A v \in Watchers : /\ watchers'[v].phase = watchers[v].phase
                             /\ watchers'[v].isClosed = watchers[v].isClosed,
         NEW w \in Watchers, NEW t \in Threads, NEW pc \in PCs, Goto(w, t, pc),
         threads[w][t].pc \notin {"off", "finish"}, pc # "wait",
         pc \in {"stop", "finish"} => threads[w][t].path = "closing",
         pc \in {"onStopped", "delK8s"} => threads[w][t].path # "status"
  PROVE  SupervisionInv'
  <1> DEFINE th == [threads[w][t] EXCEPT !.pc = pc]
  <1>1. threads[w][t] \in ThreadRecords
    BY DEF TypeOK
  <1>2. /\ th \in ThreadRecords /\ th.pc = pc /\ th.path = threads[w][t].path
        /\ th.st = threads[w][t].st
    BY <1>1, ThreadPc
  <1>3. threads' = [threads EXCEPT ![w][t] = th]
    BY DEF Goto
  <1>4. /\ watchers[w].phase \in {"live", "gone"}
        /\ t = "sup" => watchers[w].phase = "live"
        /\ t # "sup" => th.st = "STOPPED"
    <2>1. AllOff[t].pc = "off"
      BY DEF AllOff, Off, At
    <2>2. watchers[w].phase \in {"free", "new", "live", "gone"}
      BY DEF TypeOK, WatcherRecords
    <2>3. QED
      BY <1>2, <2>1, <2>2 DEF SupervisionInv, ThreadsFollowPhase
  <1>5. QED
    BY <1>2, <1>3, <1>4, ThreadStep

\* The watcher is removed by the goroutine that closes it, or by one that finds it
\* open and with nothing left to stop: no call of stopWorkspace is under way.
LEMMA RemoveStep ==
  ASSUME SupervisionInv, TypeOK, calls' = calls,
         NEW w \in Watchers, NEW t \in Threads, RemoveWatcher(w, t),
         calls[w].op = "idle", threads[w][t].pc # "off",
         ~watchers[w].isClosed \/ threads[w][t].pc = "finish"
  PROVE  SupervisionInv'
  <1> DEFINE rest == [u \in Threads |-> IF Ended(w, t, u) THEN Off ELSE threads[w][u]]
  <1>0. /\ watchers \in [Watchers -> WatcherRecords]
        /\ threads \in [Watchers -> [Threads -> ThreadRecords]]
        /\ registered \in Watchers \cup {None}
        /\ None \notin Watchers
        /\ "sup" \in Threads /\ "health" \in Threads
        /\ Off.pc = "off" /\ Off.st = "STOPPED" /\ Off.path = "status"
        /\ FreeWatcher.phase = "free" /\ FreeWatcher.isClosed = FALSE
    BY ConstAssumption DEF TypeOK, Threads, Off, At, FreeWatcher
  <1>1. watchers[w].phase = "live" /\ registered = w
    <2>1. AllOff[t].pc = "off"
      BY DEF AllOff, Off, At
    <2>2. watchers[w].phase \in {"free", "new", "live", "gone"}
      BY <1>0 DEF WatcherRecords
    <2>3. watchers[w].phase = "live"
      BY <2>1, <2>2 DEF SupervisionInv, ThreadsFollowPhase, CloserHoldsWatcher
    <2>4. QED
      BY <2>3 DEF SupervisionInv, OneWatcher
  <1>2. /\ registered' = None
        /\ threads'[w] = rest
        /\ \A v \in Watchers : v # w => threads'[v] = threads[v] /\ watchers'[v] = watchers[v]
    BY <1>0, <1>1 DEF RemoveWatcher, Deregistered
  <1>3. \/ watchers'[w] = FreeWatcher /\ rest = AllOff
        \/ watchers'[w].phase = "gone" /\ watchers'[w].isClosed
    BY <1>0 DEF RemoveWatcher, WatcherRecords
  <1>4. \A u \in Threads : \/ rest[u] = Off
                           \/ rest[u] = threads[w][u] /\ u # t /\ u # "sup"
    BY DEF Ended
  <1> HIDE DEF rest
  <1>5. \A u \in Threads : ~(rest[u].path = "closing" /\ rest[u].pc # "off")
    BY <1>0, <1>4 DEF SupervisionInv, CloserHoldsWatcher, CloseOnce
  <1>a. \A v \in Watchers : v # w => watchers[v].phase \notin {"new", "live"}
    BY <1>1 DEF SupervisionInv, OneWatcher
  <1>6. OneWatcher' /\ CloseOnce'
    <2>1. OneWatcher'
      BY <1>0, <1>2, <1>3, <1>a DEF OneWatcher
    <2>2. CloseOnce'
      BY <1>2, <1>5 DEF SupervisionInv, CloseOnce
    <2>3. QED
      BY <2>1, <2>2
  <1>7. RegisteredLives'
    <2>1. \A h \in Handlers : calls[h].op # "doOnAdd"
      BY <1>1, <1>a DEF SupervisionInv, RegisteredLives
    <2>2. QED
      BY <1>0, <1>2, <1>3, <1>a, <2>1 DEF RegisteredLives
  <1>8. ThreadsFollowPhase'
    <2>1. rest["sup"] = Off
      BY <1>0, <1>4
    <2>2. \A u \in Threads \ {"sup"} : rest[u].st = "STOPPED"
      BY <1>0, <1>4 DEF SupervisionInv, ThreadsFollowPhase
    <2>3. QED
      BY <1>0, <1>2, <1>3, <2>1, <2>2 DEF SupervisionInv, ThreadsFollowPhase
  <1>9. CloserHoldsWatcher'
    <2>1. \A u \in Threads :
            /\ rest[u].pc \in {"stop", "finish"} => rest[u].path = "closing"
            /\ rest[u].pc \in {"onStopped", "delK8s"} => rest[u].path # "status"
      BY <1>0, <1>4 DEF SupervisionInv, CloserHoldsWatcher
    <2>2. QED
      BY <1>2, <1>5, <2>1 DEF SupervisionInv, CloserHoldsWatcher
  <1>10. QED
    BY <1>6, <1>7, <1>8, <1>9 DEF SupervisionInv

\* A restart leaves nothing to supervise.
LEMMA RestartStep ==
  ASSUME Restarted
  PROVE  SupervisionInv'
  <1>1. Unsupervised'
    BY DEF Restarted, Unsupervised, Callers, NoCall, FreeWatcher, AllOff, Off, At
  <1>2. Unsupervised' => SupervisionInv'
    BY UnsupervisedInv, PTL
  <1>3. QED
    BY <1>1, <1>2

\* doUpdateStatus, onStopped, doClose and doStopWorkspace.
LEMMA ThreadSupervision ==
  ASSUME SupervisionInv, TypeOK, NEW w \in Watchers, NEW t \in Threads, ThreadSteps(w, t)
  PROVE  SupervisionInv'
  <1>0. /\ watchers \in [Watchers -> WatcherRecords]
        /\ watchers[w] \in WatcherRecords
        /\ threads \in [Watchers -> [Threads -> ThreadRecords]]
        /\ threads[w][t] \in ThreadRecords
        /\ calls \in [Callers -> CallRecords]
        /\ w \in Callers /\ Handlers \subseteq Callers
        /\ threads[w][t].path \in Paths
        /\ \A h \in Handlers : h # w
    <2>1. /\ watchers \in [Watchers -> WatcherRecords]
          /\ threads \in [Watchers -> [Threads -> ThreadRecords]]
          /\ calls \in [Callers -> CallRecords]
      BY DEF TypeOK
    <2>2. threads[w][t] \in ThreadRecords /\ threads[w][t].path \in Paths
      BY <2>1 DEF ThreadRecords
    <2>3. w \in Callers /\ Handlers \subseteq Callers /\ \A h \in Handlers : h # w
      BY ConstAssumption DEF Callers
    <2>4. QED
      BY <2>1, <2>2, <2>3
  <1>1. CASE DoUpdateStatus(w, t)
    <2>1. AfterUpdate(threads[w][t].path) \in {"recv", "close", "onStopped"}
          /\ (AfterUpdate(threads[w][t].path) = "onStopped" => threads[w][t].path # "status")
      BY DEF AfterUpdate
    <2>2. QED
      BY <1>1, <2>1, GotoStep DEF DoUpdateStatus, others, PCs
  <1>2. CASE OnStopped(w, t)
    <2>1. \A v \in Watchers : /\ watchers'[v].phase = watchers[v].phase
                              /\ watchers'[v].isClosed = watchers[v].isClosed
      BY <1>0, <1>2 DEF OnStopped, WatcherRecords
    <2>2. threads[w][t].path \in {"handle", "force", "closing"}
      BY <1>0, <1>2 DEF OnStopped, SupervisionInv, CloserHoldsWatcher, Paths
    <2>3. PICK pc \in {"update", "close", "finish", "delK8s"} :
            /\ Goto(w, t, pc)
            /\ pc = "finish" => threads[w][t].path = "closing"
      BY <1>2, <2>2 DEF OnStopped, AfterOnStopped, FailOnStopped
    <2>4. QED
      BY <1>2, <2>1, <2>2, <2>3, GotoStep DEF OnStopped, others, PCs
  <1>3. CASE OnStoppedPanics(w, t)
    BY <1>3, RestartStep DEF OnStoppedPanics
  <1>4. CASE OnStoppedK8s(w, t)
    <2>1. threads[w][t].path \in {"handle", "force", "closing"}
      BY <1>0, <1>4 DEF OnStoppedK8s, SupervisionInv, CloserHoldsWatcher, Paths
    <2>2. PICK pc \in {"update", "close", "finish"} :
            /\ Goto(w, t, pc)
            /\ pc = "finish" => threads[w][t].path = "closing"
      BY <1>4, <2>1 DEF OnStoppedK8s, AfterOnStopped, FailOnStopped
    <2>3. QED
      BY <1>4, <2>1, <2>2, GotoStep DEF OnStoppedK8s, others, PCs
  <1>5. CASE DoClose(w, t)
    <2>a. threads[w][t].pc = "close" /\ calls' = calls
      BY <1>5 DEF DoClose, others
    <2>b. /\ Off.pc = "off" /\ Off.path = "status" /\ Off.st = "STOPPED"
          /\ FreeWatcher.phase = "free" /\ FreeWatcher.isClosed = FALSE
          /\ "sup" \in Threads /\ "health" \in Threads /\ AllOff[t].pc = "off"
      BY DEF Off, At, FreeWatcher, Threads, AllOff
    <2>c. watchers[w].phase \in {"live", "gone"} /\ (t = "sup" => watchers[w].phase = "live")
      <3>1. watchers[w].phase \in {"free", "new", "live", "gone"}
        BY <1>0 DEF WatcherRecords
      <3>2. QED
        BY <2>a, <2>b, <3>1 DEF SupervisionInv, ThreadsFollowPhase
    <2>1. CASE AlreadyClosed(w) /\ Exit(w, t) /\ UNCHANGED registered
      <3>1. /\ \A v \in Watchers : v # w => threads'[v] = threads[v]
            /\ threads'[w][t] = Off
            /\ \A u \in Threads : u # t => threads'[w][u] = threads[w][u]
        BY <1>0, <2>1 DEF Exit
      <3>2. CASE watchers' = watchers
        <4>1. threads'[w]["sup"].pc = "wait" => threads'[w]["health"] = Off
          BY <2>b, <3>1 DEF SupervisionInv, ThreadsFollowPhase
        <4>2. ASSUME NEW u \in Threads
              PROVE  \/ threads'[w][u] = threads[w][u]
                     \/ u = t /\ threads'[w][u] = Off
          BY <3>1, <4>2
        <4>3. QED
          BY <2>1, <2>a, <2>b, <2>c, <3>1, <3>2, <4>1, <4>2, ThreadsStep
      <3>3. CASE /\ watchers[w].phase = "gone" /\ threads'[w] = AllOff
                 /\ watchers' = [watchers EXCEPT ![w] = FreeWatcher]
        <4>1. /\ watchers'[w] = FreeWatcher
              /\ \A v \in Watchers : v # w => watchers'[v] = watchers[v]
          BY <1>0, <3>3
        <4>2. \A u \in Threads : threads'[w][u] = Off
          BY <3>3 DEF AllOff
        <4>3. registered # w
          BY <3>3, ConstAssumption DEF SupervisionInv, RegisteredLives
        <4>4. OneWatcher' /\ CloseOnce'
          BY <2>1, <2>b, <3>1, <4>1, <4>2 DEF SupervisionInv, OneWatcher, CloseOnce
        <4>5. RegisteredLives'
          BY <2>1, <2>a, <2>b, <3>3, <4>1, <4>3 DEF SupervisionInv, RegisteredLives, TypeOK
        <4>6. ThreadsFollowPhase'
          BY <2>b, <3>1, <3>3, <4>1, <4>2 DEF SupervisionInv, ThreadsFollowPhase
        <4>7. CloserHoldsWatcher'
          <5>1. calls[w].op = "idle"
            BY <3>3 DEF SupervisionInv, CloserHoldsWatcher
          <5>2. QED
            BY <2>a, <2>b, <3>1, <4>1, <4>2, <5>1 DEF SupervisionInv, CloserHoldsWatcher
        <4>8. QED
          BY <4>4, <4>5, <4>6, <4>7 DEF SupervisionInv
      <3>4. QED
        BY <1>0, <2>1, <3>2, <3>3 DEF Exit
    <2>2. CASE ~AlreadyClosed(w) /\ RemoveWatcher(w, t)
      <3>1. calls[w].op = "idle"
        BY <2>2 DEF AlreadyClosed, SupervisionInv, CloserHoldsWatcher
      <3>2. QED
        BY <2>2, <2>a, <3>1, RemoveStep DEF AlreadyClosed
    <2>3. CASE /\ ~AlreadyClosed(w) /\ CloseDecision(w) # "finish"
               /\ Set(w, t, At(CloseDecision(w), "closing", "STOPPED"))
               /\ watchers' = [watchers EXCEPT ![w].isClosed = TRUE]
               /\ UNCHANGED registered
      <3> DEFINE th == At(CloseDecision(w), "closing", "STOPPED")
      <3>1. /\ th.pc \in {"update", "stop"} /\ th.path = "closing" /\ th.st = "STOPPED"
        BY <2>3 DEF At, CloseDecision
      <3>2. /\ threads'[w][t] = th
            /\ \A u \in Threads : u # t => threads'[w][u] = threads[w][u]
            /\ \A v \in Watchers : v # w => threads'[v] = threads[v]
        BY <1>0, <2>3 DEF Set
      <3>3. /\ watchers'[w].phase = watchers[w].phase /\ watchers'[w].isClosed = TRUE
            /\ \A v \in Watchers : v # w => watchers'[v] = watchers[v]
        BY <1>0, <2>3 DEF WatcherRecords
      <3>4. watchers[w].phase = "live"
        BY <2>3, <2>c DEF AlreadyClosed, SupervisionInv, ThreadsFollowPhase
      <3>5. \A u \in Threads : ~(threads[w][u].path = "closing" /\ threads[w][u].pc # "off")
        BY <2>3 DEF AlreadyClosed, SupervisionInv, CloserHoldsWatcher
      <3>6. OneWatcher' /\ CloseOnce'
        BY <2>3, <3>2, <3>3, <3>5 DEF SupervisionInv, OneWatcher, CloseOnce
      <3>7. RegisteredLives'
        BY <2>3, <2>a, <3>3, <3>4 DEF SupervisionInv, RegisteredLives, TypeOK
      <3>8. ThreadsFollowPhase'
        <4>1. threads[w]["sup"].pc = "wait" => t # "health"
          BY <2>a, <2>b DEF SupervisionInv, ThreadsFollowPhase
        <4>2. QED
          BY <2>b, <3>1, <3>2, <3>3, <3>4, <4>1 DEF SupervisionInv, ThreadsFollowPhase
      <3>9. CloserHoldsWatcher'
        <4>1. calls[w].op = "idle"
          BY <3>5 DEF SupervisionInv, CloserHoldsWatcher
        <4>2. QED
          BY <2>a, <3>1, <3>2, <3>3, <3>4, <4>1 DEF SupervisionInv, CloserHoldsWatcher
      <3>10. QED
        BY <3>6, <3>7, <3>8, <3>9 DEF SupervisionInv
    <2>4. QED
      BY <1>5, <2>1, <2>2, <2>3 DEF DoClose
  <1>6. CASE DoStopWorkspace(w, t)
    <2>1. threads[w][t].pc = "stop" /\ threads[w][t].path = "closing" /\ Goto(w, t, "finish")
          /\ registered' = registered /\ watchers' = watchers
      BY <1>6 DEF DoStopWorkspace, SupervisionInv, CloserHoldsWatcher
    <2>2. CASE calls' = calls
      BY <2>1, <2>2, GotoStep DEF PCs
    <2>3. CASE calls' = [calls EXCEPT ![w] = [NoCall EXCEPT !.op = "shutdown",
                           !.kind = "close", !.run = ws.run, !.sess = ws.session]]
      <3>1. \A c \in Callers : c # w => calls'[c] = calls[c]
        BY <1>0, <2>3
      <3>2. /\ threads'[w][t].pc = "finish" /\ threads'[w][t].path = "closing"
            /\ threads'[w][t].st = threads[w][t].st
            /\ \A u \in Threads : u # t => threads'[w][u] = threads[w][u]
            /\ \A v \in Watchers : v # w => threads'[v] = threads[v]
        <4>1. /\ threads'[w][t] = [threads[w][t] EXCEPT !.pc = "finish"]
              /\ \A u \in Threads : u # t => threads'[w][u] = threads[w][u]
              /\ \A v \in Watchers : v # w => threads'[v] = threads[v]
          BY <1>0, <2>1 DEF Goto
        <4>2. QED
          BY <1>0, <2>1, <4>1, ThreadPc DEF PCs
      <3>3. watchers[w].phase = "live" /\ watchers[w].isClosed
        BY <2>1 DEF SupervisionInv, CloserHoldsWatcher
      <3>4. OneWatcher' /\ CloseOnce'
        BY <2>1, <3>2 DEF SupervisionInv, OneWatcher, CloseOnce
      <3>5. RegisteredLives'
        BY <1>0, <2>1, <3>1 DEF SupervisionInv, RegisteredLives
      <3>6. ThreadsFollowPhase'
        <4>1. "sup" \in Threads /\ "health" \in Threads /\ Off.pc = "off"
          BY DEF Threads, Off, At
        <4>2. QED
          BY <2>1, <3>2, <3>3, <4>1 DEF SupervisionInv, ThreadsFollowPhase
      <3>7. CloserHoldsWatcher'
        <4>1. \A v \in Watchers : v # w => calls'[v] = calls[v]
          BY <3>1 DEF Callers
        <4>2. ASSUME NEW v \in Watchers, calls'[v].op # "idle"
              PROVE  \E u \in Threads : threads'[v][u].pc = "finish"
          BY <3>2, <4>1, <4>2 DEF SupervisionInv, CloserHoldsWatcher
        <4>3. ASSUME NEW v \in Watchers, NEW u \in Threads
              PROVE  /\ threads'[v][u].path = "closing" /\ threads'[v][u].pc # "off"
                          => watchers'[v].isClosed /\ watchers'[v].phase = "live"
                     /\ threads'[v][u].pc \in {"stop", "finish"}
                          => threads'[v][u].path = "closing"
                     /\ threads'[v][u].pc \in {"onStopped", "delK8s"}
                          => threads'[v][u].path # "status"
          <5>1. CASE v = w /\ u = t
            BY <2>1, <3>2, <3>3, <5>1
          <5>2. CASE ~(v = w /\ u = t)
            BY <2>1, <3>2, <4>3, <5>2 DEF SupervisionInv, CloserHoldsWatcher
          <5>3. QED
            BY <5>1, <5>2
        <4>4. QED
          BY <4>2, <4>3 DEF CloserHoldsWatcher
      <3>8. QED
        BY <3>4, <3>5, <3>6, <3>7 DEF SupervisionInv
    <2>4. QED
      BY <1>6, <2>2, <2>3 DEF DoStopWorkspace
  <1>7. CASE FinishClose(w, t)
    BY <1>7, RemoveStep DEF FinishClose, others
  <1>8. QED
    BY <1>1, <1>2, <1>3, <1>4, <1>5, <1>6, <1>7 DEF ThreadSteps

\* The periodic pass: ResumeWorkspace registers a watcher only where there is none.
LEMMA PeriodicSupervision ==
  ASSUME SupervisionInv, TypeOK, Periodic
  PROVE  SupervisionInv'
  <1>0. /\ watchers \in [Watchers -> WatcherRecords]
        /\ threads \in [Watchers -> [Threads -> ThreadRecords]]
        /\ None \notin Watchers
        /\ calls' = calls
    BY ConstAssumption DEF TypeOK, Periodic, HandleWorkspaces, ResumeWorkspace,
       DoHandleStalledState, StalledCleanup
  <1>1. CASE UNCHANGED supervision
    BY <1>0, <1>1, QuietStep DEF supervision
  <1>2. ASSUME NEW w \in Watchers, MayRegister, watchers[w].phase = "free",
               watchers' = [watchers EXCEPT ![w] = NewWatcher(periodic, "live")],
               threads' = [threads EXCEPT ![w]["sup"] = At("wait", "status", "STOPPED")],
               registered' = w
        PROVE  SupervisionInv'
    <2>1. /\ watchers'[w].phase = "live" /\ watchers'[w].isClosed = FALSE
          /\ \A v \in Watchers : v # w => watchers'[v] = watchers[v] /\ threads'[v] = threads[v]
      BY <1>0, <1>2 DEF NewWatcher, FreeWatcher
    <2>2. threads[w] = AllOff
      BY <1>2 DEF SupervisionInv, ThreadsFollowPhase
    <2>3. /\ threads'[w]["sup"].pc = "wait" /\ threads'[w]["sup"].path = "status"
          /\ \A t \in Threads : t # "sup" => threads'[w][t] = Off
          /\ Off.pc = "off" /\ Off.st = "STOPPED" /\ Off.path = "status"
          /\ "sup" \in Threads /\ "health" \in Threads
      BY <1>0, <1>2, <2>2 DEF At, AllOff, Off, Threads
    <2>4. \A v \in Watchers : watchers[v].phase \notin {"new", "live"}
      BY <1>0, <1>2 DEF MayRegister, SupervisionInv, OneWatcher
    <2>5. OneWatcher' /\ CloseOnce'
      BY <1>2, <2>1, <2>3, <2>4 DEF SupervisionInv, OneWatcher, CloseOnce
    <2>6. RegisteredLives'
      BY <1>0, <1>2, <2>1, <2>4 DEF SupervisionInv, RegisteredLives
    <2>7. ThreadsFollowPhase'
      BY <2>1, <2>3 DEF SupervisionInv, ThreadsFollowPhase
    <2>8. CloserHoldsWatcher'
      <3>1. \A v \in Watchers : calls[v].op = "idle"
        BY <2>4 DEF SupervisionInv, CloserHoldsWatcher
      <3>2. QED
        BY <1>0, <2>1, <2>3, <2>4, <3>1 DEF SupervisionInv, CloserHoldsWatcher
    <2>9. QED
      BY <2>5, <2>6, <2>7, <2>8 DEF SupervisionInv
  <1>3. QED
    BY <1>1, <1>2 DEF Periodic, HandleWorkspaces, ResumeWorkspace, DoHandleStalledState,
       StalledCleanup

\* The pod's steps only touch the streams.
LEMMA PodSupervision ==
  ASSUME SupervisionInv, TypeOK, Pod
  PROVE  SupervisionInv'
  <1>1. calls' = calls /\ registered' = registered /\ threads' = threads
    BY DEF Pod, PodServe, PodRun, PodStopping, PodStopped, PodRestart, PodGone, Report, nocturne
  <1>2. \A w \in Watchers : /\ watchers'[w].phase = watchers[w].phase
                            /\ watchers'[w].isClosed = watchers[w].isClosed
    <2>1. \A w \in Watchers : watchers[w] \in WatcherRecords
      BY DEF TypeOK
    <2>2. CASE BreakLinks
      BY <2>1, <2>2 DEF BreakLinks, WatcherRecords
    <2>3. ASSUME NEW st, Report(st)
          PROVE  \A w \in Watchers : /\ watchers'[w].phase = watchers[w].phase
                                     /\ watchers'[w].isClosed = watchers[w].isClosed
      BY <2>1, <2>3 DEF Report, WatcherRecords
    <2>4. QED
      BY <2>2, <2>3 DEF Pod, PodServe, PodRun, PodStopping, PodStopped, PodRestart, PodGone
  <1>3. QED
    BY <1>1, <1>2, QuietStep

\* SupervisionInv is inductive.
LEMMA SupervisionNext ==
  ASSUME SupervisionInv, TypeOK, [Next]_vars
  PROVE  SupervisionInv'
  <1>1. CASE User \/ Age \/ UNCHANGED vars
    BY <1>1, QuietStep DEF User, StartWorkspace, StopWorkspace, DeleteWorkspace, OtherWrite,
       Age, vars, supervision
  <1>2. CASE NocturneCrash
    BY <1>2, RestartStep DEF NocturneCrash
  <1>3. QED
    BY <1>1, <1>2, HandlerSupervision, StopSupervision, SuperviseSupervision, ThreadSupervision,
       PeriodicSupervision, PodSupervision DEF Next

\* The inductive invariant of the supervision holds in every state.
THEOREM Supervised == Spec => []SupervisionInv
  <1>1. Init => SupervisionInv
    BY UnsupervisedInv DEF Init, Unsupervised
  <1>2. QED
    BY <1>1, SupervisionNext, TypeCorrect, PTL DEF Spec

\* At most one statusWatcher supervises the Workspace (setWatcher, removeWatcher).
THEOREM OneWatcherHolds == Spec => []OneWatcher
  BY Supervised, PTL DEF SupervisionInv

\* doClose runs once for a watcher, whichever goroutine closes it.
THEOREM CloseOnceHolds == Spec => []CloseOnce
  BY Supervised, PTL DEF SupervisionInv

\* A status is only handled and written for the registered watcher.
THEOREM OnlyRegisteredReportsHolds == Spec => []OnlyRegisteredReports
  <1>1. SupervisionInv => OnlyRegisteredReports
    BY DEF SupervisionInv, ThreadsFollowPhase, OneWatcher, OnlyRegisteredReports
  <1>2. QED
    BY <1>1, Supervised, PTL

-----------------------------------------------------------------------------
(* What is done for one run of the Workspace does not reach a later one:   *)
(* CopiesAreCurrent and SessionsOfRuns are invariants, and with them       *)
(* StaleCopyStopsNothing and PendingStartKeepsSession hold.                *)

-----------------------------------------------------------------------------
(* What a step does to the store. *)

\* A write that stays in the run: it may clear the Region and the Session, and does
\* not request a start.
KeepsRun(r) ==
  /\ r.run = ws.run
  /\ r.session \in {0, ws.session}
  /\ r.region => ws.region /\ r.session = ws.session
  /\ r.state = "INIT_REQUEST" => ws.state = "INIT_REQUEST"

\* Every write but StartWorkspace's.
LEMMA WritesKeepRun ==
  ASSUME NEW r \in WorkspaceRecords, KeepsRun(r)
  PROVE  /\ KeepsRun(Cleared(r))
         /\ KeepsRun(Stamped(r))
         /\ \A st \in States \ {"INIT_REQUEST"} : KeepsRun([r EXCEPT !.state = st])
  BY DEF KeepsRun, Cleared, Stamped, WorkspaceRecords

\* What a step does to the Workspace, its watch events and the copies of it.
StoreStep ==
  \/ /\ fresh' = fresh /\ events' = events
     /\ ws'.run = ws.run /\ ws'.session = ws.session
     /\ ws'.region = ws.region /\ ws'.state = ws.state
  \/ \E r \in WorkspaceRecords : Put(r) /\ KeepsRun(r)
  \/ StartWorkspace
  \/ DeleteWorkspace
  \/ \E h \in Handlers : Dispatch(h)
  \/ \E w \in Watchers, t \in Threads : DoStopWorkspace(w, t)
  \/ Restarted

LEMMA StoreSteps ==
  ASSUME TypeOK, [Next]_vars
  PROVE  StoreStep
  <1>0. ws \in WorkspaceRecords /\ KeepsRun(ws)
    BY DEF TypeOK, KeepsRun
  <1>a. /\ Cleared(ws) \in WorkspaceRecords /\ KeepsRun(Cleared(ws))
        /\ Stamped(Cleared(ws)) \in WorkspaceRecords /\ KeepsRun(Stamped(Cleared(ws)))
    BY <1>0, WritesType, WritesKeepRun
  <1>b. \A st \in States \ {"INIT_REQUEST"} :
          /\ [ws EXCEPT !.state = st] \in WorkspaceRecords
          /\ KeepsRun([ws EXCEPT !.state = st])
          /\ Stamped([ws EXCEPT !.state = st]) \in WorkspaceRecords
          /\ KeepsRun(Stamped([ws EXCEPT !.state = st]))
    BY <1>0, WritesType, WritesKeepRun
  <1>c. CASE UNCHANGED store
    BY <1>c DEF StoreStep, store
  <1>1. CASE User
    <2>1. CASE StopWorkspace
      BY <1>b, <2>1 DEF StopWorkspace, StoreStep, States, Stopping
    <2>2. CASE OtherWrite
      BY <1>0, <2>2 DEF OtherWrite, StoreStep
    <2>3. QED
      BY <1>1, <2>1, <2>2 DEF User, StoreStep
  <1>2. ASSUME NEW h \in Handlers, Dispatch(h) \/ StartSteps(h)
        PROVE  StoreStep
    <2>1. CASE ResolveFails(h)
      BY <1>a, <1>c, <2>1 DEF ResolveFails, StoreStep
    <2>2. CASE ~ResolveFails(h) /\ ~Dispatch(h)
      BY <1>2, <1>c, <2>2 DEF StartSteps, SetPVC, SetWatcher, FailSession, DoOnAdd, DoOnAddFails
    <2>3. QED
      BY <2>1, <2>2 DEF StoreStep
  <1>3. ASSUME NEW c \in Callers, StopSteps(c)
        PROVE  StoreStep
    <2>1. UNCHANGED store \/ Put(Cleared(ws))
      BY <1>3 DEF StopSteps, Shutdown, StopDelK8s, StopUpdate, StopPVC, store
    <2>2. QED
      BY <1>a, <1>c, <2>1 DEF StoreStep
  <1>4. ASSUME NEW w \in Watchers,
               Supervise(w) \/ StreamBreaks(w) \/ HealthTimeout(w) \/ CleanupTimeout(w)
        PROVE  StoreStep
    BY <1>4, <1>c DEF Supervise, WaitReady, WaitTimeout, ListenState, HandleStatus, OnReadyInit,
       StreamBreaks, HealthTimeout, CleanupTimeout
  <1>5. ASSUME NEW w \in Watchers, NEW t \in Threads, ThreadSteps(w, t)
        PROVE  StoreStep
    <2>1. CASE DoUpdateStatus(w, t)
      <3>1. threads[w][t].st \in States \ {"INIT_REQUEST"}
        BY <1>5 DEF TypeOK, ThreadRecords, Reports, States, PreRunning, Stopping
      <3>2. UNCHANGED store \/ Put(NewStatus(threads[w][t].st))
        BY <2>1 DEF DoUpdateStatus
      <3>3. QED
        BY <1>a, <1>b, <1>c, <3>1, <3>2 DEF NewStatus, StoreStep
    <2>2. CASE OnStoppedK8s(w, t)
      BY <1>0, <1>c, <2>2 DEF OnStoppedK8s, StoreStep
    <2>3. CASE OnStopped(w, t) \/ DoClose(w, t) \/ FinishClose(w, t)
      BY <1>c, <2>3 DEF OnStopped, DoClose, FinishClose
    <2>4. CASE DoStopWorkspace(w, t)
      BY <1>5, <2>4 DEF StoreStep
    <2>5. CASE OnStoppedPanics(w, t)
      BY <2>5 DEF OnStoppedPanics, StoreStep
    <2>6. QED
      BY <1>5, <2>1, <2>2, <2>3, <2>4, <2>5 DEF ThreadSteps
  <1>6. CASE Periodic
    <2>1. CASE DoHandleStalledState
      <3>1. periodic.verdict \in States \ {"INIT_REQUEST"}
        BY <2>1 DEF DoHandleStalledState, TypeOK, PassRecords, States, Stopping
      <3>2. UNCHANGED store \/ Put(Stamped([ws EXCEPT !.state = periodic.verdict]))
        BY <2>1 DEF DoHandleStalledState, DoSetState
      <3>3. QED
        BY <1>b, <1>c, <3>1, <3>2 DEF StoreStep
    <2>2. CASE HandleWorkspaces \/ ResumeWorkspace \/ StalledCleanup
      BY <1>c, <2>2 DEF HandleWorkspaces, ResumeWorkspace, StalledCleanup
    <2>3. QED
      BY <1>6, <2>1, <2>2 DEF Periodic
  <1>7. CASE Pod
    BY <1>7, <1>c DEF Pod, PodServe, PodRun, PodStopping, PodStopped, PodRestart, PodGone, Report
  <1>8. CASE Age
    BY <1>0, <1>8 DEF Age, StoreStep, WorkspaceRecords
  <1>9. CASE NocturneCrash
    BY <1>9 DEF NocturneCrash, StoreStep
  <1>10. CASE UNCHANGED vars
    BY <1>10, <1>c DEF vars, store
  <1>11. QED
    BY <1>1, <1>2, <1>3, <1>4, <1>5, <1>6, <1>7, <1>8, <1>9, <1>10 DEF Next

-----------------------------------------------------------------------------
(* Whoever holds the current version works on the current run. *)

\* A call starts in Dispatch or doStopWorkspace, and keeps its run.
LEMMA CallsKeepRun ==
  ASSUME TypeOK, [Next]_vars
  PROVE  \/ \E h \in Handlers : Dispatch(h)
         \/ \E w \in Watchers, t \in Threads : DoStopWorkspace(w, t)
         \/ Restarted
         \/ \A c \in Callers : calls'[c].op # "idle"
              => calls[c].op # "idle" /\ calls'[c].run = calls[c].run
  <1>0. /\ calls \in [Callers -> CallRecords] /\ Handlers \subseteq Callers
        /\ NoCall.op = "idle"
    BY DEF TypeOK, Callers, NoCall
  <1> DEFINE Keep == \A c \in Callers : calls'[c].op # "idle"
                       => calls[c].op # "idle" /\ calls'[c].run = calls[c].run
  <1>a. CASE calls' = calls
    BY <1>a
  <1>b. ASSUME NEW c \in Callers, calls[c].op # "idle",
               Return(c) \/ \E op \in {"setWatcher", "delK8s", "update", "pvc"} : GotoOp(c, op)
        PROVE  Keep
    BY <1>0, <1>b DEF Return, GotoOp, CallRecords
  <1>1. ASSUME NEW h \in Handlers, StartSteps(h)
        PROVE  Keep
    <2>1. CASE SetPVC(h) \/ FailSession(h) \/ DoOnAdd(h) \/ DoOnAddFails(h)
      BY <1>0, <1>1, <1>b, <2>1 DEF SetPVC, FailSession, DoOnAdd, DoOnAddFails
    <2>2. CASE SetWatcher(h)
      BY <1>0, <1>1, <1>b, <2>2 DEF SetWatcher, CallRecords
    <2>3. CASE ResolveFails(h)
      BY <1>0, <1>1, <1>b, <2>3 DEF ResolveFails, CallRecords
    <2>4. QED
      BY <1>1, <2>1, <2>2, <2>3 DEF StartSteps
  <1>2. ASSUME NEW c \in Callers, StopSteps(c)
        PROVE  Keep
    BY <1>2, <1>b DEF StopSteps, Shutdown, StopDelK8s, StopUpdate, StopPVC, ShutdownErr,
       AfterStop, AbortStop
  <1>3. ASSUME NEW w \in Watchers,
               Supervise(w) \/ StreamBreaks(w) \/ HealthTimeout(w) \/ CleanupTimeout(w)
        PROVE  Keep
    BY <1>3, <1>a DEF Supervise, WaitReady, WaitTimeout, ListenState, HandleStatus, OnReadyInit,
       StreamBreaks, HealthTimeout, CleanupTimeout, others
  <1>4. ASSUME NEW w \in Watchers, NEW t \in Threads, ThreadSteps(w, t),
               ~DoStopWorkspace(w, t), ~Restarted
        PROVE  Keep
    BY <1>4, <1>a DEF ThreadSteps, DoUpdateStatus, OnStopped, OnStoppedPanics, OnStoppedK8s,
       DoClose, FinishClose, others
  <1>5. CASE User \/ Periodic \/ Pod \/ Age \/ UNCHANGED vars
    BY <1>5, <1>a DEF User, StartWorkspace, StopWorkspace, DeleteWorkspace, OtherWrite,
       Periodic, HandleWorkspaces, ResumeWorkspace, DoHandleStalledState, StalledCleanup,
       Pod, PodServe, PodRun, PodStopping, PodStopped, PodRestart, PodGone, Report, nocturne,
       Age, vars
  <1>6. CASE NocturneCrash
    BY <1>6 DEF NocturneCrash
  <1>7. QED
    BY <1>1, <1>2, <1>3, <1>4, <1>5, <1>6 DEF Next

\* After a write only its own event holds the current version.
LEMMA PutCurrent ==
  ASSUME TypeOK, NEW evs, Notify(evs),
         \/ evs = <<>>
         \/ \E e \in EventRecords : evs = <<e>> /\ e.run = ws'.run
  PROVE  CopiesAreCurrent'
  <1>0. "queue" \notin Callers /\ "queue" \notin Handlers
    BY ConstAssumption DEF Callers
  <1>1. CASE evs = <<>>
    BY <1>1 DEF Notify, CopiesAreCurrent
  <1>2. ASSUME NEW e \in EventRecords, evs = <<e>>, e.run = ws'.run
        PROVE  CopiesAreCurrent'
    <2>1. events' = Append(events, e) /\ fresh' = {"queue"}
      BY <1>2 DEF Notify, TypeOK
    <2>2. events' # <<>> /\ events'[Len(events')] = e
      <3>1. events \in Seq(EventRecords)
        BY DEF TypeOK
      <3>2. Len(events) \in Nat /\ Len(events') = Len(events) + 1
        BY <2>1, <3>1
      <3>3. events'[Len(events) + 1] = e
        BY <2>1, <3>1
      <3>4. QED
        BY <3>2, <3>3
    <2>3. QED
      BY <1>0, <1>2, <2>1, <2>2 DEF CopiesAreCurrent
  <1>3. QED
    BY <1>1, <1>2

\* CopiesAreCurrent is preserved by every step.
LEMMA CurrentNext ==
  ASSUME CopiesAreCurrent, TypeOK, [Next]_vars
  PROVE  CopiesAreCurrent'
  <1>0. /\ ws \in WorkspaceRecords /\ events \in Seq(EventRecords)
        /\ "queue" \notin Callers /\ Handlers \subseteq Callers /\ Watchers \subseteq Callers
        /\ \A w \in Watchers : w \notin Handlers
        /\ calls \in [Callers -> CallRecords]
    BY ConstAssumption DEF TypeOK, Callers
  <1>1. ASSUME NEW r \in WorkspaceRecords, Put(r)
        PROVE  CopiesAreCurrent'
    <2>1. /\ \A kind \in {"start", "stop"} : /\ Event(kind, r) \in EventRecords
                                             /\ Event(kind, r).run = r.run
          /\ ws' = r /\ Notify(OnUpdate(ws, r))
      BY <1>1 DEF Put, Event, EventRecords, WorkspaceRecords
    <2>2. \/ OnUpdate(ws, r) = <<>>
          \/ \E e \in EventRecords : OnUpdate(ws, r) = <<e>> /\ e.run = ws'.run
      BY <2>1 DEF OnUpdate
    <2>3. QED
      BY <2>1, <2>2, PutCurrent
  <1>2. CASE StartWorkspace
    <2>1. ws.run + 1 \in Nat
      BY <1>0 DEF WorkspaceRecords
    <2>2. PICK r \in WorkspaceRecords : Put(r)
      BY <1>0, <1>2, <2>1, StartedType, WritesType DEF StartWorkspace
    <2>3. QED
      BY <1>1, <2>2
  <1>3. CASE DeleteWorkspace
    <2>1. \A kind \in {"delete", "purge"} : /\ Event(kind, ws) \in EventRecords
                                           /\ Event(kind, ws).run = ws.run
      BY <1>0 DEF Event, EventRecords, WorkspaceRecords
    <2>2. ws'.run = ws.run
      BY <1>0, <1>3 DEF DeleteWorkspace, Stamped, Cleared, WorkspaceRecords
    <2>3. PICK kind \in {"delete", "purge"} : Notify(<<Event(kind, ws)>>)
      BY <1>3 DEF DeleteWorkspace
    <2>4. QED
      BY <2>1, <2>2, <2>3, PutCurrent
  <1>4. ASSUME NEW h \in Handlers, Dispatch(h)
        PROVE  CopiesAreCurrent'
    <2>1. /\ h \notin fresh /\ events # <<>> /\ ws' = ws /\ events' = Tail(events)
          /\ \A c \in Callers : c # h => calls'[c] = calls[c]
          /\ calls'[h].run = Head(events).run
      BY <1>0, <1>4 DEF Dispatch, CopiesAreCurrent
    <2>2. CASE "queue" \in fresh /\ Len(events) = 1
      <3>1. fresh' = (fresh \ {"queue"}) \cup {h}
        BY <1>4, <2>2 DEF Dispatch
      <3>2. events' = <<>> /\ Head(events).run = ws.run
        BY <1>0, <2>1, <2>2 DEF CopiesAreCurrent
      <3>3. QED
        BY <1>0, <2>1, <3>1, <3>2 DEF CopiesAreCurrent
    <2>3. CASE ~("queue" \in fresh /\ Len(events) = 1)
      <3>1. fresh' = fresh
        BY <1>4, <2>3 DEF Dispatch
      <3>2. \A g \in Handlers : g \notin fresh
        BY <2>1 DEF CopiesAreCurrent
      <3>3. "queue" \in fresh => events' # <<>> /\ events'[Len(events')] = events[Len(events)]
        <4>1. Len(events) \in Nat /\ ("queue" \in fresh => Len(events) > 1)
          <5>1. Len(events) \in Nat /\ Len(events) # 0
            BY <1>0, <2>1
          <5>2. "queue" \in fresh => Len(events) # 1
            BY <2>3
          <5>3. QED
            BY <5>1, <5>2
        <4>2. /\ Len(events') = Len(events) - 1
              /\ \A i \in 1..(Len(events) - 1) : events'[i] = events[i + 1]
          BY <1>0, <2>1
        <4>3. QED
          BY <4>1, <4>2
      <3>4. QED
        BY <1>0, <2>1, <3>1, <3>2, <3>3 DEF CopiesAreCurrent
    <2>4. QED
      BY <2>2, <2>3
  <1>5. ASSUME NEW w \in Watchers, NEW t \in Threads, DoStopWorkspace(w, t)
        PROVE  CopiesAreCurrent'
    <2>1. CASE fresh' = fresh /\ calls' = calls
      BY <1>5, <2>1 DEF DoStopWorkspace, CopiesAreCurrent
    <2>2. CASE /\ fresh' = fresh \cup {w}
               /\ calls' = [calls EXCEPT ![w] = [NoCall EXCEPT
                    !.op = "shutdown", !.kind = "close", !.run = ws.run, !.sess = ws.session]]
      <3>1. calls'[w].run = ws.run /\ \A c \in Callers : c # w => calls'[c] = calls[c]
        BY <1>0, <2>2 DEF NoCall
      <3>2. ws' = ws /\ events' = events
        BY <1>5 DEF DoStopWorkspace
      <3>3. QED
        BY <1>0, <2>2, <3>1, <3>2 DEF CopiesAreCurrent
    <2>3. QED
      BY <1>5, <2>1, <2>2 DEF DoStopWorkspace
  <1>6. CASE Restarted
    BY <1>6 DEF Restarted, CopiesAreCurrent
  <1>7. ASSUME fresh' = fresh, events' = events, ws'.run = ws.run,
               \A c \in Callers : calls'[c].op # "idle"
                 => calls[c].op # "idle" /\ calls'[c].run = calls[c].run
        PROVE  CopiesAreCurrent'
    BY <1>7 DEF CopiesAreCurrent
  <1>8. QED
    BY <1>1, <1>2, <1>3, <1>4, <1>5, <1>6, <1>7, StoreSteps, CallsKeepRun DEF StoreStep

\* Whoever holds the current version of the Workspace works on the current run.
THEOREM CopiesCurrent == Spec => []CopiesAreCurrent
  <1>1. Init => CopiesAreCurrent
    BY DEF Init, CopiesAreCurrent
  <1>2. QED
    BY <1>1, CurrentNext, TypeCorrect, PTL DEF Spec

-----------------------------------------------------------------------------
(* A stale copy stops nothing. *)

\* A step that takes a call out of its Update, and changes the state, is that Update.
LEMMA OnlyStopUpdate ==
  ASSUME TypeOK, [Next]_vars, NEW c \in Callers,
         calls[c].op = "update", calls'[c].op # "update", ws'.state # ws.state
  PROVE  UpdateAccepted(c)
  <1>0. calls \in [Callers -> CallRecords] /\ Handlers \subseteq Callers
    BY DEF TypeOK, Callers
  <1>1. calls' # calls /\ ws' # ws
    OBVIOUS
  <1>2. ASSUME NEW h \in Handlers, Dispatch(h) \/ StartSteps(h)
        PROVE  FALSE
    <2>1. ResolveFails(h)
      BY <1>1, <1>2 DEF Dispatch, StartSteps, SetPVC, SetWatcher, FailSession, DoOnAdd,
         DoOnAddFails, store
    <2>2. calls[h].op = "setWatcher" /\ \A d \in Callers : d # h => calls'[d] = calls[d]
      BY <1>0, <2>1 DEF ResolveFails, Return
    <2>3. QED
      BY <2>2
  <1>3. ASSUME NEW d \in Callers, StopSteps(d)
        PROVE  UpdateAccepted(c)
    <2>1. StopUpdate(d) /\ UpdateAccepted(d)
      BY <1>1, <1>3 DEF StopSteps, Shutdown, StopDelK8s, StopUpdate, StopPVC, store
    <2>2. \A b \in Callers : b # d => calls'[b] = calls[b]
      BY <1>0, <2>1, SMTT(30) DEF StopUpdate, AfterStop, AbortStop, GotoOp, Return
    <2>3. QED
      BY <2>1, <2>2
  <1>4. ASSUME NEW w \in Watchers,
               \/ Supervise(w) \/ StreamBreaks(w) \/ HealthTimeout(w) \/ CleanupTimeout(w)
               \/ \E t \in Threads : ThreadSteps(w, t)
        PROVE  FALSE
    BY <1>1, <1>4 DEF Supervise, WaitReady, WaitTimeout, ListenState, HandleStatus, OnReadyInit,
       StreamBreaks, HealthTimeout, CleanupTimeout, others, ThreadSteps, DoUpdateStatus,
       OnStopped, OnStoppedPanics, OnStoppedK8s, DoClose, FinishClose, DoStopWorkspace, Restarted
  <1>5. CASE User \/ Periodic \/ Pod \/ Age \/ NocturneCrash \/ UNCHANGED vars
    BY <1>1, <1>5 DEF User, StartWorkspace, StopWorkspace, DeleteWorkspace, OtherWrite,
       Periodic, HandleWorkspaces, ResumeWorkspace, DoHandleStalledState, StalledCleanup,
       Pod, PodServe, PodRun, PodStopping, PodStopped, PodRestart, PodGone, Report, nocturne,
       Age, NocturneCrash, Restarted, vars
  <1>6. QED
    BY <1>2, <1>3, <1>4, <1>5 DEF Next

\* The version check of the store is enough: a stopWorkspace that holds an old copy
\* of the Workspace, however long its Shutdown call was retried, does not mark a
\* later run STOPPED.
THEOREM StaleCopies == Spec => StaleCopyStopsNothing
  <1> DEFINE Stops == \A c \in Callers :
                        calls[c].op = "update" /\ calls'[c].op # "update" /\ ws'.state # ws.state
                        => calls[c].run = ws.run
  <1>1. ASSUME CopiesAreCurrent, TypeOK, [Next]_vars
        PROVE  [Stops]_vars
    BY <1>1, OnlyStopUpdate DEF UpdateAccepted, CopiesAreCurrent
  <1>2. QED
    BY <1>1, CopiesCurrent, TypeCorrect, PTL DEF Spec, StaleCopyStopsNothing

-----------------------------------------------------------------------------
(* Each copy of the Workspace names the Session of its own run. *)

\* Only StartWorkspace requests a start, and it starts a new run.
LEMMA RunsGrow ==
  ASSUME TypeOK, StoreStep
  PROVE  \/ ws'.run = ws.run /\ (ws'.state = "INIT_REQUEST" => ws.state = "INIT_REQUEST")
         \/ ws'.run = ws.run + 1
  <1>0. ws \in WorkspaceRecords
    BY DEF TypeOK
  <1>1. CASE StartWorkspace
    <2>1. ws.run + 1 \in Nat
      BY <1>0 DEF WorkspaceRecords
    <2>2. QED
      BY <1>0, <1>1, <2>1 DEF StartWorkspace, Put, Stamped, WorkspaceRecords
  <1>2. CASE DeleteWorkspace
    BY <1>0, <1>2 DEF DeleteWorkspace, Stamped, Cleared, WorkspaceRecords
  <1>3. CASE ~StartWorkspace /\ ~DeleteWorkspace
    BY <1>3 DEF StoreStep, Put, KeepsRun, Dispatch, DoStopWorkspace, Restarted
  <1>4. QED
    BY <1>1, <1>2, <1>3

\* NotPending after the step.
NotPendingAfter(n) == n <= ws'.run /\ (n = ws'.run => ws'.state # "INIT_REQUEST")

\* A start that is not pending never becomes pending again.
LEMMA NotPendingKept ==
  ASSUME TypeOK, StoreStep
  PROVE  \A n \in Nat : NotPending(n) => NotPendingAfter(n)
  <1>1. ws.run \in Nat
    BY DEF TypeOK, WorkspaceRecords
  <1>2. QED
    BY <1>1, RunsGrow DEF NotPending, NotPendingAfter

LEMMA StoreSessionsNext ==
  ASSUME StoreSessions, TypeOK, StoreStep
  PROVE  StoreSessions'
  <1>0. ws \in WorkspaceRecords /\ events \in Seq(EventRecords)
    BY DEF TypeOK
  <1>a. ASSUME NEW evs, events' = events \o evs,
               \/ evs = <<>>
               \/ \E e \in EventRecords :
                    evs = <<e>> /\ (e.kind = "start" => e.sess = e.run /\ e.run # 0)
        PROVE  \A i \in 1..Len(events') : events'[i].kind = "start"
                 => events'[i].sess = events'[i].run /\ events'[i].run # 0
    <2>1. CASE evs = <<>>
      BY <1>0, <1>a, <2>1 DEF StoreSessions
    <2>2. ASSUME NEW e \in EventRecords, evs = <<e>>,
                 e.kind = "start" => e.sess = e.run /\ e.run # 0
          PROVE  \A i \in 1..Len(events') : events'[i].kind = "start"
                   => events'[i].sess = events'[i].run /\ events'[i].run # 0
      <3>1. events' = Append(events, e)
        BY <1>0, <1>a, <2>2
      <3>2. /\ Len(events') = Len(events) + 1 /\ events'[Len(events) + 1] = e
            /\ \A i \in 1..Len(events) : events'[i] = events[i]
            /\ Len(events) \in Nat
        BY <1>0, <3>1
      <3>3. QED
        BY <2>2, <3>2 DEF StoreSessions
    <2>3. QED
      BY <1>a, <2>1, <2>2
  <1>b. ASSUME NEW r \in WorkspaceRecords, Put(r),
               r.session \in {0, r.run}, r.region => r.session # 0
        PROVE  StoreSessions'
    <2>1. /\ \A kind \in {"start", "stop"} : Event(kind, r) \in EventRecords
          /\ Event("start", r).sess = r.session /\ Event("start", r).run = r.run
          /\ Event("stop", r).kind = "stop"
      BY DEF Event, EventRecords, WorkspaceRecords
    <2>2. \/ OnUpdate(ws, r) = <<>>
          \/ \E e \in EventRecords : OnUpdate(ws, r) = <<e>>
               /\ (e.kind = "start" => e.sess = e.run /\ e.run # 0)
      BY <1>b, <2>1 DEF OnUpdate
    <2>3. ws' = r /\ events' = events \o OnUpdate(ws, r)
      BY <1>b DEF Put, Notify
    <2>4. \A i \in 1..Len(events') : events'[i].kind = "start"
            => events'[i].sess = events'[i].run /\ events'[i].run # 0
      BY <1>a, <2>2, <2>3
    <2>5. QED
      BY <1>b, <2>3, <2>4 DEF StoreSessions
  <1>1. ASSUME NEW r \in WorkspaceRecords, Put(r), KeepsRun(r)
        PROVE  StoreSessions'
    BY <1>1, <1>b DEF KeepsRun, StoreSessions
  <1>2. CASE StartWorkspace
    <2>1. ws.run + 1 \in Nat /\ ws.run + 1 # 0
      BY <1>0 DEF WorkspaceRecords
    <2>2. PICK n \in Nat : /\ n # 0
                          /\ Put(Stamped([ws EXCEPT !.state = "INIT_REQUEST", !.run = n,
                                                    !.region = TRUE, !.session = n]))
      BY <1>2, <2>1 DEF StartWorkspace
    <2> DEFINE r == Stamped([ws EXCEPT !.state = "INIT_REQUEST", !.run = n,
                                       !.region = TRUE, !.session = n])
    <2>3. r \in WorkspaceRecords /\ r.session = n /\ r.run = n
      BY <1>0, StartedType, WritesType DEF Stamped, WorkspaceRecords
    <2>4. QED
      BY <1>b, <2>2, <2>3
  <1>3. CASE DeleteWorkspace
    <2>1. ws'.session = 0 /\ ws'.region = FALSE
      BY <1>0, <1>3 DEF DeleteWorkspace, Stamped, Cleared, WorkspaceRecords
    <2>2. \A kind \in {"delete", "purge"} : /\ Event(kind, ws) \in EventRecords
                                           /\ Event(kind, ws).kind # "start"
      BY <1>0 DEF Event, EventRecords, WorkspaceRecords
    <2>3. PICK kind \in {"delete", "purge"} : events' = events \o <<Event(kind, ws)>>
      BY <1>3 DEF DeleteWorkspace, Notify
    <2>4. QED
      BY <1>a, <2>1, <2>2, <2>3 DEF StoreSessions
  <1>4. ASSUME NEW h \in Handlers, Dispatch(h)
        PROVE  StoreSessions'
    <2>1. events # <<>> /\ events' = Tail(events) /\ ws' = ws
      BY <1>4 DEF Dispatch
    <2>2. /\ Len(events) \in Nat /\ Len(events') = Len(events) - 1
          /\ \A i \in 1..(Len(events) - 1) : events'[i] = events[i + 1]
      BY <1>0, <2>1
    <2>3. QED
      BY <2>1, <2>2 DEF StoreSessions
  <1>5. CASE ws' = ws /\ events' = events
    BY <1>5 DEF StoreSessions
  <1>6. CASE Restarted
    BY <1>6 DEF Restarted, StoreSessions
  <1>7. CASE /\ events' = events /\ ws'.run = ws.run /\ ws'.session = ws.session
             /\ ws'.region = ws.region
    BY <1>7 DEF StoreSessions
  <1>8. QED
    BY <1>1, <1>2, <1>3, <1>4, <1>5, <1>6, <1>7 DEF StoreStep, DoStopWorkspace

LEMMA CallSessionsNext ==
  ASSUME CallSessions, StoreSessions, TypeOK, TypeOK', [Next]_vars
  PROVE  CallSessions'
  <1>0. /\ calls \in [Callers -> CallRecords] /\ Handlers \subseteq Callers
        /\ \A h \in Handlers : calls[h].sess \in Nat
        /\ \A w \in Watchers : w \notin Handlers
        /\ events \in Seq(EventRecords)
        /\ ws \in WorkspaceRecords
        /\ NoCall.op = "idle"
    BY ConstAssumption DEF TypeOK, Callers, CallRecords, NoCall
  <1>a. StoreStep
    BY StoreSteps
  <1>b. ASSUME NEW h \in Handlers,
               calls'[h] = calls[h] \/ calls'[h].op \notin {"setPVC", "setWatcher", "failSession"}
        PROVE  /\ calls'[h].op \in {"setPVC", "setWatcher"}
                    => calls'[h].sess = calls'[h].run /\ calls'[h].run # 0
               /\ calls'[h].op = "failSession" => NotPendingAfter(calls'[h].sess)
    <2>1. CASE calls'[h].op \notin {"setPVC", "setWatcher", "failSession"}
      BY <2>1
    <2>2. CASE calls'[h] = calls[h]
      <3>1. calls[h].op = "failSession" => NotPendingAfter(calls[h].sess)
        BY <1>0, <1>a, <1>b, NotPendingKept DEF CallSessions
      <3>2. QED
        BY <1>b, <2>2, <3>1 DEF CallSessions
    <2>3. QED
      BY <1>b, <2>1, <2>2
  <1>c. ASSUME \A h \in Handlers :
                 /\ calls'[h].op \in {"setPVC", "setWatcher"}
                      => calls'[h].sess = calls'[h].run /\ calls'[h].run # 0
                 /\ calls'[h].op = "failSession" => NotPendingAfter(calls'[h].sess)
        PROVE  CallSessions'
    BY <1>c DEF CallSessions, NotPending, NotPendingAfter
  <1>1. ASSUME NEW h \in Handlers, Dispatch(h)
        PROVE  CallSessions'
    <2> DEFINE e == Head(events)
    <2>1. /\ calls'[h].op = FirstOp(e.kind) /\ calls'[h].run = e.run /\ calls'[h].sess = e.sess
          /\ \A g \in Handlers : g # h => calls'[g] = calls[g]
      BY <1>0, <1>1 DEF Dispatch
    <2>2. e.kind = "start" => e.sess = e.run /\ e.run # 0
      <3>1. events # <<>>
        BY <1>1 DEF Dispatch
      <3>2. 1 \in 1..Len(events) /\ e = events[1]
        BY <1>0, <3>1
      <3>3. QED
        BY <3>2 DEF StoreSessions
    <2>3. /\ calls'[h].op # "failSession"
          /\ calls'[h].op \in {"setPVC", "setWatcher"}
               => calls'[h].sess = calls'[h].run /\ calls'[h].run # 0
      BY <2>1, <2>2 DEF FirstOp
    <2>4. QED
      BY <1>b, <1>c, <2>1, <2>3 DEF CallSessions
  <1>2. ASSUME NEW h \in Handlers, StartSteps(h)
        PROVE  CallSessions'
    <2>1. CASE SetPVC(h)
      <3>1. /\ \A g \in Handlers : g # h => calls'[g] = calls[g]
            /\ \/ calls'[h].op = "idle"
               \/ /\ calls'[h].op = "setWatcher"
                  /\ calls'[h].run = calls[h].run /\ calls'[h].sess = calls[h].sess
        BY <1>0, <1>2, <2>1 DEF SetPVC, GotoOp, Return, CallRecords
      <3>2. calls[h].op = "setPVC"
        BY <2>1 DEF SetPVC
      <3>3. QED
        BY <1>2, <1>b, <1>c, <3>1, <3>2 DEF CallSessions
    <2>2. CASE ResolveFails(h) /\ Put(Stamped(Cleared(ws)))
               /\ calls' = [calls EXCEPT ![h].op = "failSession", ![h].sess = ws.session]
      <3>1. /\ \A g \in Handlers : g # h => calls'[g] = calls[g]
            /\ calls'[h].op = "failSession" /\ calls'[h].sess = ws.session
        BY <1>0, <1>2, <2>2 DEF CallRecords
      <3>2. ws'.state = "STOPPED" /\ ws'.run = ws.run
        BY <1>0, <2>2 DEF Put, Stamped, Cleared, WorkspaceRecords
      <3>3. ws.session <= ws.run
        BY <1>0 DEF StoreSessions, WorkspaceRecords
      <3>4. NotPendingAfter(calls'[h].sess)
        BY <1>0, <3>1, <3>2, <3>3 DEF NotPendingAfter, WorkspaceRecords
      <3>5. QED
        BY <1>2, <1>b, <1>c, <3>1, <3>4 DEF CallSessions
    <2>3. CASE ResolveFails(h) /\ Return(h)
      BY <1>0, <1>2, <1>b, <1>c, <2>3 DEF Return, CallSessions
    <2>4. CASE SetWatcher(h)
      <3>1. /\ \A g \in Handlers : g # h => calls'[g] = calls[g]
            /\ calls'[h].op \in {"idle", "doOnAdd"}
        BY <1>0, <1>2, <2>4 DEF SetWatcher, Return, CallRecords
      <3>2. QED
        BY <1>2, <1>b, <1>c, <3>1 DEF CallSessions
    <2>5. CASE FailSession(h) \/ DoOnAdd(h) \/ DoOnAddFails(h)
      <3>1. /\ \A g \in Handlers : g # h => calls'[g] = calls[g]
            /\ calls'[h].op = "idle"
        BY <1>0, <1>2, <2>5 DEF FailSession, DoOnAdd, DoOnAddFails, Return
      <3>2. QED
        BY <1>2, <1>b, <1>c, <3>1 DEF CallSessions
    <2>6. QED
      BY <1>2, <2>1, <2>2, <2>3, <2>4, <2>5 DEF StartSteps, ResolveFails
  <1>3. ASSUME NEW c \in Callers, StopSteps(c)
        PROVE  CallSessions'
    <2>1. /\ \A d \in Callers : d # c => calls'[d] = calls[d]
          /\ calls'[c].op \in {"delK8s", "update", "pvc", "idle"}
      BY <1>0, <1>3 DEF StopSteps, Shutdown, StopDelK8s, StopUpdate, StopPVC, AfterStop,
         AbortStop, ShutdownErr, GotoOp, Return, CallRecords
    <2>2. QED
      BY <1>0, <1>b, <1>c, <2>1 DEF CallSessions
  <1>4. ASSUME NEW w \in Watchers, NEW t \in Threads, DoStopWorkspace(w, t)
        PROVE  CallSessions'
    <2>1. \A h \in Handlers : calls'[h] = calls[h]
      BY <1>0, <1>4 DEF DoStopWorkspace
    <2>2. QED
      BY <1>b, <1>c, <2>1 DEF CallSessions
  <1>5. CASE Restarted
    <2>1. \A h \in Handlers : calls'[h].op = "idle"
      BY <1>0, <1>5 DEF Restarted, NoCall
    <2>2. QED
      BY <1>b, <1>c, <2>1 DEF CallSessions
  <1>6. CASE calls' = calls
    BY <1>6, <1>b, <1>c DEF CallSessions
  <1>7. QED
    <2>1. ASSUME NEW w \in Watchers,
                 \/ Supervise(w) \/ StreamBreaks(w) \/ HealthTimeout(w) \/ CleanupTimeout(w)
                 \/ \E t \in Threads : ThreadSteps(w, t)
          PROVE  CallSessions'
      BY <1>4, <1>5, <1>6, <2>1 DEF Supervise, WaitReady, WaitTimeout, ListenState, HandleStatus,
         OnReadyInit, StreamBreaks, HealthTimeout, CleanupTimeout, others, ThreadSteps,
         DoUpdateStatus, OnStopped, OnStoppedPanics, OnStoppedK8s, DoClose, FinishClose
    <2>2. CASE User \/ Periodic \/ Pod \/ Age \/ NocturneCrash \/ UNCHANGED vars
      BY <1>5, <1>6, <2>2 DEF User, StartWorkspace, StopWorkspace, DeleteWorkspace, OtherWrite,
         Periodic, HandleWorkspaces, ResumeWorkspace, DoHandleStalledState, StalledCleanup,
         Pod, PodServe, PodRun, PodStopping, PodStopped, PodRestart, PodGone, Report, nocturne,
         Age, NocturneCrash, vars
    <2>3. QED
      BY <1>1, <1>2, <1>3, <2>1, <2>2 DEF Next

LEMMA PassSessionNext ==
  ASSUME PassSession, StoreSessions, TypeOK, [Next]_vars
  PROVE  PassSession'
  <1>0. periodic \in PassRecords /\ ws \in WorkspaceRecords /\ ws.run \in Nat
    BY DEF TypeOK, WorkspaceRecords
  <1>a. StoreStep
    BY StoreSteps
  <1>b. ws.run <= ws'.run
    BY <1>0, <1>a, RunsGrow
  <1>c. CASE periodic'.op = "idle"
    BY <1>c DEF PassSession
  <1>d. CASE periodic' = periodic
    <2>1. periodic.op = "cleanup" => NotPendingAfter(periodic.sess)
      BY <1>0, <1>a, NotPendingKept DEF PassSession, PassRecords
    <2>2. ws'.run \in Nat
      BY <1>0, <1>a, RunsGrow
    <2>3. periodic.op # "idle" => periodic.run <= ws'.run
      BY <1>0, <1>b, <2>2 DEF PassSession, PassRecords
    <2>4. QED
      BY <1>d, <2>1, <2>3 DEF PassSession, NotPending, NotPendingAfter
  <1>e. NoPass.op = "idle"
    BY DEF NoPass
  <1>1. CASE HandleWorkspaces
    <2>1. /\ periodic'.op = "resume" /\ periodic'.run = ws.run /\ periodic'.sess = ws.session
          /\ ws' = ws /\ ws.region
      BY <1>1 DEF HandleWorkspaces, store
    <2>2. QED
      BY <1>0, <2>1 DEF PassSession, StoreSessions
  <1>2. CASE ResumeWorkspace
    <2>1. \/ periodic'.op = "idle"
          \/ /\ periodic'.op = "stall" /\ periodic'.run = periodic.run
             /\ periodic'.sess = periodic.sess
      BY <1>0, <1>2, <1>e DEF ResumeWorkspace, AfterResume, PassRecords
    <2>2. ws' = ws /\ periodic.op = "resume"
      BY <1>2 DEF ResumeWorkspace, store
    <2>3. QED
      BY <1>c, <2>1, <2>2 DEF PassSession
  <1>3. CASE DoHandleStalledState
    <2>1. CASE ws.exists /\ periodic.verdict = "STOPPED" /\ DoSetState("STOPPED")
               /\ periodic' = [periodic EXCEPT !.op = "cleanup"]
      <3>1. periodic'.run = periodic.run /\ periodic'.sess = periodic.sess
        BY <1>0, <2>1 DEF PassRecords
      <3>2. ws'.run = ws.run /\ ws'.state = "STOPPED"
        BY <1>0, <2>1 DEF DoSetState, Put, Stamped, store, WorkspaceRecords
      <3>3. periodic.op = "stall"
        BY <1>3 DEF DoHandleStalledState
      <3>4. QED
        BY <3>1, <3>2, <3>3 DEF PassSession, NotPending
    <2>2. CASE periodic' = NoPass
      BY <1>c, <1>e, <2>2
    <2>3. QED
      BY <1>3, <2>1, <2>2 DEF DoHandleStalledState
  <1>4. CASE StalledCleanup \/ Restarted
    BY <1>4, <1>c, <1>e DEF StalledCleanup, Restarted
  <1>5. CASE Periodic
    BY <1>1, <1>2, <1>3, <1>4, <1>5 DEF Periodic
  <1>6. ASSUME NEW h \in Handlers, Dispatch(h) \/ StartSteps(h)
        PROVE  PassSession'
    BY <1>6, <1>d DEF Dispatch, StartSteps, SetPVC, SetWatcher, ResolveFails, FailSession,
       DoOnAdd, DoOnAddFails
  <1>7. ASSUME NEW c \in Callers, StopSteps(c)
        PROVE  PassSession'
    BY <1>7, <1>d, SMTT(30) DEF StopSteps, Shutdown, StopDelK8s, StopUpdate, StopPVC
  <1>8. ASSUME NEW w \in Watchers,
               \/ Supervise(w) \/ StreamBreaks(w) \/ HealthTimeout(w) \/ CleanupTimeout(w)
               \/ \E t \in Threads : ThreadSteps(w, t)
        PROVE  PassSession'
    BY <1>4, <1>8, <1>d DEF Supervise, WaitReady, WaitTimeout, ListenState, HandleStatus,
       OnReadyInit, StreamBreaks, HealthTimeout, CleanupTimeout, others, ThreadSteps,
       DoUpdateStatus, OnStopped, OnStoppedPanics, OnStoppedK8s, DoClose, FinishClose,
       DoStopWorkspace
  <1>9. CASE User \/ Pod \/ Age \/ NocturneCrash \/ UNCHANGED vars
    BY <1>4, <1>9, <1>d DEF User, StartWorkspace, StopWorkspace, DeleteWorkspace, OtherWrite,
       Pod, PodServe, PodRun, PodStopping, PodStopped, PodRestart, PodGone, Report, nocturne,
       Age, NocturneCrash, vars
  <1>10. QED
    BY <1>5, <1>6, <1>7, <1>8, <1>9 DEF Next

\* A step that makes no new watcher: those in use keep their run and their Session.
WatchersKeepRun ==
  \A w \in Watchers : watchers'[w].phase # "free"
    => /\ watchers[w].phase # "free"
       /\ watchers'[w].run = watchers[w].run /\ watchers'[w].sess = watchers[w].sess

LEMMA RemovalKeepsRun ==
  ASSUME TypeOK, NEW w \in Watchers, NEW t \in Threads, RemoveWatcher(w, t),
         watchers[w].phase # "free"
  PROVE  WatchersKeepRun
  <1>0. watchers \in [Watchers -> WatcherRecords]
    BY DEF TypeOK
  <1>1. /\ \A v \in Watchers : v # w => watchers'[v] = watchers[v]
        /\ \/ watchers'[w] = FreeWatcher
           \/ watchers'[w] = [watchers[w] EXCEPT !.phase = "gone", !.isClosed = TRUE,
                                                 !.subscribed = FALSE, !.chan = <<>>]
    BY <1>0 DEF RemoveWatcher
  <1>2. \A r \in WatcherRecords :
          /\ [r EXCEPT !.phase = "gone", !.isClosed = TRUE,
                       !.subscribed = FALSE, !.chan = <<>>].run = r.run
          /\ [r EXCEPT !.phase = "gone", !.isClosed = TRUE,
                       !.subscribed = FALSE, !.chan = <<>>].sess = r.sess
    BY DEF WatcherRecords
  <1>3. \/ watchers'[w].phase = "free"
        \/ watchers'[w].run = watchers[w].run /\ watchers'[w].sess = watchers[w].sess
    <2>1. FreeWatcher.phase = "free"
      BY DEF FreeWatcher
    <2>2. watchers[w] \in WatcherRecords
      BY <1>0
    <2>3. QED
      BY <1>1, <1>2, <2>1, <2>2
  <1>4. QED
    BY <1>1, <1>3 DEF WatchersKeepRun

LEMMA WatcherSteps ==
  ASSUME TypeOK, SupervisionInv, [Next]_vars
  PROVE  \/ WatchersKeepRun
         \/ \E h \in Handlers : SetWatcher(h)
         \/ ResumeWorkspace
  <1>0. watchers \in [Watchers -> WatcherRecords] /\ calls \in [Callers -> CallRecords]
    BY DEF TypeOK
  <1>a. ASSUME watchers' = watchers PROVE WatchersKeepRun
    BY <1>a DEF WatchersKeepRun
  <1>b. FreeWatcher.phase = "free" /\ (\A w \in Watchers : watchers[w] \in WatcherRecords)
    BY <1>0 DEF FreeWatcher
  <1>c. ASSUME Restarted PROVE WatchersKeepRun
    BY <1>b, <1>c DEF Restarted, WatchersKeepRun
  <1>d. ASSUME NEW w \in Watchers, NEW t \in Threads, threads[w][t].pc # "off"
        PROVE  watchers[w].phase # "free"
    BY <1>d DEF SupervisionInv, ThreadsFollowPhase, AllOff, Off, At
  <1>1. ASSUME NEW h \in Handlers, Dispatch(h) \/ StartSteps(h), ~SetWatcher(h)
        PROVE  WatchersKeepRun
    <2>1. CASE DoOnAdd(h)
      <3>1. PICK w \in Watchers : w = calls[h].w /\ watchers[w].phase = "new"
        BY <2>1 DEF DoOnAdd, SupervisionInv, RegisteredLives
      <3>2. /\ \A v \in Watchers : v # w => watchers'[v] = watchers[v]
            /\ watchers'[w].run = watchers[w].run /\ watchers'[w].sess = watchers[w].sess
        BY <1>0, <2>1, <3>1 DEF DoOnAdd, WatcherRecords
      <3>3. QED
        BY <3>1, <3>2 DEF WatchersKeepRun
    <2>2. CASE DoOnAddFails(h)
      <3>1. \A v \in Watchers : watchers'[v] = watchers[v] \/ watchers'[v] = FreeWatcher
        BY <1>0, <2>2 DEF DoOnAddFails
      <3>2. QED
        BY <1>b, <3>1 DEF WatchersKeepRun
    <2>3. QED
      BY <1>1, <1>a, <2>1, <2>2 DEF Dispatch, StartSteps, SetPVC, ResolveFails, FailSession,
         supervision
  <1>2. ASSUME NEW c \in Callers, StopSteps(c)
        PROVE  WatchersKeepRun
    BY <1>2, <1>a DEF StopSteps, Shutdown, StopDelK8s, StopUpdate, StopPVC, supervision
  <1>3. ASSUME NEW w \in Watchers,
               Supervise(w) \/ StreamBreaks(w) \/ HealthTimeout(w) \/ CleanupTimeout(w)
        PROVE  WatchersKeepRun
    <2>1. /\ \A v \in Watchers : v # w => watchers'[v] = watchers[v]
          /\ watchers'[w].phase = watchers[w].phase
          /\ watchers'[w].run = watchers[w].run /\ watchers'[w].sess = watchers[w].sess
      BY <1>0, <1>3 DEF Supervise, WaitReady, WaitTimeout, ListenState, HandleStatus,
         OnReadyInit, StreamBreaks, HealthTimeout, CleanupTimeout, WatcherRecords
    <2>2. QED
      BY <2>1 DEF WatchersKeepRun
  <1>4. ASSUME NEW w \in Watchers, NEW t \in Threads, ThreadSteps(w, t)
        PROVE  WatchersKeepRun
    <2>1. CASE OnStopped(w, t)
      <3>1. /\ \A v \in Watchers : v # w => watchers'[v] = watchers[v]
            /\ watchers'[w].phase = watchers[w].phase
            /\ watchers'[w].run = watchers[w].run /\ watchers'[w].sess = watchers[w].sess
        BY <1>0, <2>1 DEF OnStopped, WatcherRecords
      <3>2. QED
        BY <3>1 DEF WatchersKeepRun
    <2>2. CASE DoClose(w, t)
      <3>1. watchers[w].phase # "free"
        BY <1>d, <2>2 DEF DoClose
      <3>2. CASE Exit(w, t)
        <4>1. \A v \in Watchers : watchers'[v] = watchers[v] \/ watchers'[v] = FreeWatcher
          BY <1>0, <3>2 DEF Exit
        <4>2. QED
          BY <1>b, <4>1 DEF WatchersKeepRun
      <3>3. CASE RemoveWatcher(w, t)
        BY <1>4, <3>1, <3>3, RemovalKeepsRun
      <3>4. CASE watchers' = [watchers EXCEPT ![w].isClosed = TRUE]
        <4>1. /\ \A v \in Watchers : v # w => watchers'[v] = watchers[v]
              /\ watchers'[w].phase = watchers[w].phase
              /\ watchers'[w].run = watchers[w].run /\ watchers'[w].sess = watchers[w].sess
          BY <1>0, <3>4 DEF WatcherRecords
        <4>2. QED
          BY <4>1 DEF WatchersKeepRun
      <3>5. QED
        BY <2>2, <3>2, <3>3, <3>4 DEF DoClose
    <2>3. CASE FinishClose(w, t)
      <3>1. watchers[w].phase # "free"
        BY <1>d, <2>3 DEF FinishClose
      <3>2. QED
        BY <1>4, <2>3, <3>1, RemovalKeepsRun DEF FinishClose
    <2>4. QED
      BY <1>4, <1>a, <1>c, <2>1, <2>2, <2>3 DEF ThreadSteps, DoUpdateStatus, OnStoppedPanics,
         OnStoppedK8s, DoStopWorkspace
  <1>5. CASE Pod
    <2>1. ASSUME NEW st, Report(st)
          PROVE  WatchersKeepRun
      <3>1. \A w \in Watchers : /\ watchers'[w].phase = watchers[w].phase
                               /\ watchers'[w].run = watchers[w].run
                               /\ watchers'[w].sess = watchers[w].sess
        BY <1>b, <2>1 DEF Report, WatcherRecords
      <3>2. QED
        BY <3>1 DEF WatchersKeepRun
    <2>2. CASE BreakLinks
      <3>1. \A w \in Watchers : /\ watchers'[w].phase = watchers[w].phase
                               /\ watchers'[w].run = watchers[w].run
                               /\ watchers'[w].sess = watchers[w].sess
        BY <1>b, <2>2 DEF BreakLinks, WatcherRecords
      <3>2. QED
        BY <3>1 DEF WatchersKeepRun
    <2>3. QED
      BY <1>5, <2>1, <2>2 DEF Pod, PodServe, PodRun, PodStopping, PodStopped, PodRestart, PodGone
  <1>6. CASE User \/ (Periodic /\ ~ResumeWorkspace) \/ Age \/ NocturneCrash \/ UNCHANGED vars
    BY <1>6, <1>a, <1>c DEF User, StartWorkspace, StopWorkspace, DeleteWorkspace, OtherWrite,
       Periodic, HandleWorkspaces, DoHandleStalledState, StalledCleanup, supervision,
       Age, NocturneCrash, vars
  <1>7. QED
    BY <1>1, <1>2, <1>3, <1>4, <1>5, <1>6 DEF Next

LEMMA WatcherSessionsNext ==
  ASSUME WatcherSessions, CallSessions, PassSession, SupervisionInv, TypeOK, [Next]_vars
  PROVE  WatcherSessions'
  <1>0. watchers \in [Watchers -> WatcherRecords] /\ calls \in [Callers -> CallRecords]
    BY DEF TypeOK
  <1>1. CASE WatchersKeepRun
    BY <1>1 DEF WatchersKeepRun, WatcherSessions
  <1>2. ASSUME NEW h \in Handlers, SetWatcher(h)
        PROVE  WatcherSessions'
    <2>0. /\ NewWatcher(calls[h], "new").run = calls[h].run
          /\ NewWatcher(calls[h], "new").sess = calls[h].sess
      BY DEF NewWatcher, FreeWatcher
    <2>1. \A v \in Watchers :
            watchers'[v] = watchers[v] \/ watchers'[v] = NewWatcher(calls[h], "new")
      BY <1>0, <1>2 DEF SetWatcher, supervision
    <2>2. calls[h].sess = calls[h].run /\ calls[h].run # 0
      BY <1>2 DEF SetWatcher, CallSessions
    <2>3. QED
      BY <2>0, <2>1, <2>2 DEF WatcherSessions
  <1>3. CASE ResumeWorkspace
    <2>0. /\ NewWatcher(periodic, "live").run = periodic.run
          /\ NewWatcher(periodic, "live").sess = periodic.sess
      BY DEF NewWatcher, FreeWatcher
    <2>1. \A v \in Watchers :
            watchers'[v] = watchers[v] \/ watchers'[v] = NewWatcher(periodic, "live")
      BY <1>0, <1>3 DEF ResumeWorkspace, supervision
    <2>2. periodic.sess = periodic.run /\ periodic.run # 0
      BY <1>3 DEF ResumeWorkspace, PassSession
    <2>3. QED
      BY <2>0, <2>1, <2>2 DEF WatcherSessions
  <1>4. QED
    BY <1>1, <1>2, <1>3, WatcherSteps

\* Who creates and who deletes the Sessions.
LEMMA SessionSteps ==
  ASSUME TypeOK, [Next]_vars
  PROVE  \/ sessions' = sessions
         \/ StartWorkspace /\ sessions' = sessions \cup {ws.run + 1}
         \/ \E h \in Handlers :
              /\ calls[h].op = "failSession" /\ sessions' = sessions \ {calls[h].sess}
         \/ \E w \in Watchers, t \in Threads :
              /\ threads[w][t].pc = "onStopped" /\ sessions' = sessions \ {GetSessionRef(w)}
         \/ periodic.op = "cleanup" /\ sessions' = sessions \ {periodic.sess}
  <1>1. ASSUME NEW h \in Handlers, Dispatch(h) \/ StartSteps(h)
        PROVE  \/ sessions' = sessions
               \/ calls[h].op = "failSession" /\ sessions' = sessions \ {calls[h].sess}
    BY <1>1 DEF Dispatch, StartSteps, SetPVC, SetWatcher, ResolveFails, FailSession,
       DoOnAdd, DoOnAddFails
  <1>2. ASSUME NEW c \in Callers, StopSteps(c)
        PROVE  sessions' = sessions
    BY <1>2 DEF StopSteps, Shutdown, StopDelK8s, StopUpdate, StopPVC
  <1>3. ASSUME NEW w \in Watchers,
               Supervise(w) \/ StreamBreaks(w) \/ HealthTimeout(w) \/ CleanupTimeout(w)
        PROVE  sessions' = sessions
    BY <1>3 DEF Supervise, WaitReady, WaitTimeout, ListenState, HandleStatus, OnReadyInit,
       StreamBreaks, HealthTimeout, CleanupTimeout
  <1>4. ASSUME NEW w \in Watchers, NEW t \in Threads, ThreadSteps(w, t)
        PROVE  \/ sessions' = sessions
               \/ threads[w][t].pc = "onStopped" /\ sessions' = sessions \ {GetSessionRef(w)}
    BY <1>4 DEF ThreadSteps, DoUpdateStatus, OnStopped, OnStoppedPanics, Restarted,
       OnStoppedK8s, DoClose, FinishClose, DoStopWorkspace
  <1>5. CASE Periodic
    BY <1>5 DEF Periodic, HandleWorkspaces, ResumeWorkspace, DoHandleStalledState,
       StalledCleanup, ListedSession
  <1>6. CASE User \/ Pod \/ Age \/ NocturneCrash \/ UNCHANGED vars
    BY <1>6 DEF User, StartWorkspace, StopWorkspace, DeleteWorkspace, OtherWrite,
       Pod, PodServe, PodRun, PodStopping, PodStopped, PodRestart, PodGone, Report,
       Age, NocturneCrash, Restarted, vars
  <1>7. QED
    BY <1>1, <1>2, <1>3, <1>4, <1>5, <1>6 DEF Next

LEMMA SessionsNext ==
  ASSUME SessionsOfRuns, SupervisionInv, TypeOK, TypeOK', [Next]_vars
  PROVE  SessionsOfRuns'
  <1>1. 0 \notin sessions'
    <2>0. ws.run \in Nat
      BY DEF TypeOK, WorkspaceRecords
    <2>1. ws.run + 1 # 0
      BY <2>0
    <2>2. QED
      BY <2>1, SessionSteps DEF SessionsOfRuns
  <1>2. StoreSessions' /\ CallSessions' /\ PassSession' /\ WatcherSessions'
    BY StoreSteps, StoreSessionsNext, CallSessionsNext, PassSessionNext, WatcherSessionsNext
       DEF SessionsOfRuns
  <1>3. QED
    BY <1>1, <1>2 DEF SessionsOfRuns

\* Every copy of the Workspace that an event, a handler, a watcher or a pass holds
\* names the Session that StartWorkspace created for the copy's own run, and a copy
\* whose Session is about to be deleted is not of a pending start.
THEOREM SessionsOwned == Spec => []SessionsOfRuns
  <1>1. Init => SessionsOfRuns
    BY DEF Init, SessionsOfRuns, StoreSessions, CallSessions, PassSession, WatcherSessions,
       NoCall, NoPass, FreeWatcher, Callers
  <1>2. QED
    BY <1>1, SessionsNext, TypeCorrect, Supervised, PTL DEF Spec

-----------------------------------------------------------------------------
(* A pending start keeps its Session. *)

LEMMA RemovalStep ==
  ASSUME SessionsOfRuns, SupervisionInv, TypeOK, [Next]_vars,
         NEW r \in sessions \ sessions',
         ws.exists, ws.state = "INIT_REQUEST", r = ws.session
  PROVE  \E w \in Watchers : watchers[w].run = r
  <1>1. r = ws.run
    BY DEF SessionsOfRuns, StoreSessions
  <1>2. ~NotPending(r)
    BY <1>1 DEF NotPending
  <1>3. ASSUME NEW h \in Handlers, calls[h].op = "failSession",
               sessions' = sessions \ {calls[h].sess}
        PROVE  FALSE
    BY <1>2, <1>3 DEF SessionsOfRuns, CallSessions
  <1>4. ASSUME periodic.op = "cleanup", sessions' = sessions \ {periodic.sess}
        PROVE  FALSE
    BY <1>2, <1>4 DEF SessionsOfRuns, PassSession
  <1>5. ASSUME NEW w \in Watchers, NEW t \in Threads, threads[w][t].pc = "onStopped",
               sessions' = sessions \ {GetSessionRef(w)}
        PROVE  watchers[w].run = r
    <2>1. watchers[w].phase # "free"
      BY <1>5 DEF SupervisionInv, ThreadsFollowPhase, AllOff, Off, At
    <2>2. watchers[w].sess = watchers[w].run /\ watchers[w].run # 0
      BY <2>1 DEF SessionsOfRuns, WatcherSessions
    <2>3. GetSessionRef(w) = watchers[w].run
      BY <2>2 DEF GetSessionRef
    <2>4. QED
      BY <1>5, <2>3
  <1>6. QED
    BY <1>3, <1>4, <1>5, SessionSteps

\* While a start is pending, only a watcher of that same run deletes its Session:
\* not a goroutine that an earlier run left behind, not a start that failed, and not
\* a pass that listed an earlier run.
THEOREM PendingStarts == Spec => PendingStartKeepsSession
  <1> DEFINE Removes == \A r \in sessions \ sessions' :
                          ws.exists /\ ws.state = "INIT_REQUEST" /\ r = ws.session
                          => \E w \in Watchers : watchers[w].run = r
  <1>1. ASSUME SessionsOfRuns, SupervisionInv, TypeOK, [Next]_vars
        PROVE  [Removes]_vars
    BY <1>1, RemovalStep
  <1>2. QED
    BY <1>1, SessionsOwned, Supervised, TypeCorrect, PTL DEF Spec, PendingStartKeepsSession
=============================================================================
