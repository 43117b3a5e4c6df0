---------------------------- MODULE ProgramProofs ---------------------------
(***************************************************************************)
(* What holds of the programs of a Workspace, its tasks and its terminals. *)
(*                                                                         *)
(* The tasks: no task is run twice, RUNNING is said only when the start    *)
(* tasks are settled, and the PRE_STOP tasks of a Workspace that was       *)
(* RUNNING are done when the agent has ended.  What makes them true is     *)
(* that one Prepare passes startedPrepare, that runningWG is up until that *)
(* one is over, and that at splits the start tasks into those that are     *)
(* settled and those that have not begun.                                  *)
(* The terminals: for any number of clients and any sizes of the buffers,  *)
(* a client reads the output in its order, and none of them ends the       *)
(* terminal.                                                               *)
(***************************************************************************)
EXTENDS WorkspaceTasks, Terminals, TLAPS

(* The types of the variables that are records. *)
Srvs == [kind : {"plain", "autoStop", "build"}, state : {"STARTING_RUNTIME", "PREPARING", "RUNNING", "STOPPING"},
         started : BOOLEAN, failed : BOOLEAN, wg : 0..2, done : BOOLEAN]
Pcs == {"none", "test", "set", "setup", "make", "join", "append", "run", "failing", "leave", "signal", "over"}
Mgrs == [made : BOOLEAN, appended : BOOLEAN, cancel : {"none", "live", "off"}]
TaskRecords == [pc : {"new", "started", "waiting", "over"}, proc : {"none", "alive", "ended"},
                ok : BOOLEAN, listed : BOOLEAN, runs : Nat]
Mains == {"select", "cancel", "stopping", "prestop", "snapshot", "close", "grpc", "exited",
          "killed"}
Stops == [at : 1..Len(Stop) + 1, off : BOOLEAN, todo : SUBSET Tasks]

LEMMA Types ==
  TypeOK <=> /\ srv \in Srvs /\ prep \in [Prepares -> Pcs] /\ mgr \in Mgrs
             /\ at \in 1..Len(Start) + 1 /\ task \in [Tasks -> TaskRecords]
             /\ waiter \in {"none", "wait", "sleep", "over"} /\ main \in Mains /\ stop \in Stops
             /\ failures \subseteq Aborting /\ term \in BOOLEAN /\ faults \in 0..MaxFaults
BY DEF TypeOK, Srvs, Pcs, Mgrs, TaskRecords, Mains, Stops

LEMMA TypesNext ==
  TypeOK' <=> /\ srv' \in Srvs /\ prep' \in [Prepares -> Pcs] /\ mgr' \in Mgrs
              /\ at' \in 1..Len(Start) + 1 /\ task' \in [Tasks -> TaskRecords]
              /\ waiter' \in {"none", "wait", "sleep", "over"} /\ main' \in Mains /\ stop' \in Stops
              /\ failures' \subseteq Aborting /\ term' \in BOOLEAN /\ faults' \in 0..MaxFaults
BY DEF TypeOK, Srvs, Pcs, Mgrs, TaskRecords, Mains, Stops

\* The entries of Start and of Stop are tasks, each its own.
LEMMA Entries ==
  /\ Len(Start) \in Nat /\ Len(Stop) \in Nat
  /\ \A i \in 1..Len(Start) : Start[i] \in Tasks /\ Start[i] \in Range(Start)
  /\ \A i \in 1..Len(Stop) : Stop[i] \in Tasks /\ Stop[i] \in Range(Stop)
  /\ \A t \in Range(Start) : t \in Tasks /\ \E i \in 1..Len(Start) : t = Start[i]
  /\ \A t \in Range(Stop) : t \in Tasks /\ t \notin Range(Start) /\ \E i \in 1..Len(Stop) : t = Stop[i]
  /\ \A i, j \in 1..Len(Start) : Start[i] = Start[j] => i = j
<1>1. /\ Start \in Seq(Range(Start)) /\ Stop \in Seq(Range(Stop))
      /\ IsInjective(Start) /\ Range(Start) \cap Range(Stop) = {}
  BY TasksAssumption
<1>2. /\ Len(Start) \in Nat /\ DOMAIN Start = 1..Len(Start)
      /\ Len(Stop) \in Nat /\ DOMAIN Stop = 1..Len(Stop)
  BY <1>1
<1>3. QED
  BY <1>1, <1>2 DEF Range, IsInjective, Tasks

-----------------------------------------------------------------------------
(* What a step does to the tasks. *)

\* The records of a step of task.run.
LEMMA RunFields ==
  ASSUME NEW r \in TaskRecords
  PROVE  /\ LET q == [r EXCEPT !.pc = "started", !.proc = "alive", !.runs = @ + 1] IN
            q \in TaskRecords /\ q.pc = "started" /\ q.runs = r.runs + 1
         /\ LET q == [r EXCEPT !.pc = "over", !.ok = FALSE] IN
            q \in TaskRecords /\ q.pc = "over" /\ q.runs = r.runs /\ ~q.ok
         /\ LET q == [r EXCEPT !.pc = "waiting", !.listed = TRUE] IN
            q \in TaskRecords /\ q.pc = "waiting" /\ q.runs = r.runs
         /\ LET q == [r EXCEPT !.pc = "over", !.listed = FALSE] IN
            q \in TaskRecords /\ q.pc = "over" /\ q.runs = r.runs /\ q.ok = r.ok
<1>1. LET q == [r EXCEPT !.pc = "started", !.proc = "alive", !.runs = @ + 1] IN
      q \in TaskRecords /\ q.pc = "started" /\ q.runs = r.runs + 1
  <2> DEFINE n == r.runs + 1
  <2>1. n \in Nat
    BY DEF TaskRecords
  <2> HIDE DEF n
  <2>2. LET q == [r EXCEPT !.pc = "started", !.proc = "alive", !.runs = n] IN
        q \in TaskRecords /\ q.pc = "started" /\ q.runs = n
    BY <2>1 DEF TaskRecords
  <2>3. QED
    BY <2>2 DEF n
<1>2. LET q == [r EXCEPT !.pc = "over", !.ok = FALSE] IN
      q \in TaskRecords /\ q.pc = "over" /\ q.runs = r.runs /\ ~q.ok
  BY DEF TaskRecords
<1>3. LET q == [r EXCEPT !.pc = "waiting", !.listed = TRUE] IN
      q \in TaskRecords /\ q.pc = "waiting" /\ q.runs = r.runs
  BY DEF TaskRecords
<1>4. LET q == [r EXCEPT !.pc = "over", !.listed = FALSE] IN
      q \in TaskRecords /\ q.pc = "over" /\ q.runs = r.runs /\ q.ok = r.ok
  BY DEF TaskRecords
<1>5. QED
  BY <1>1, <1>2, <1>3, <1>4

\* Those of the end of a process and of close.
LEMMA EndFields ==
  ASSUME NEW r \in TaskRecords, NEW ok \in BOOLEAN
  PROVE  /\ LET q == [r EXCEPT !.proc = "ended", !.ok = ok] IN
            q \in TaskRecords /\ q.pc = r.pc /\ q.runs = r.runs
         /\ LET q == [r EXCEPT !.listed = FALSE, !.proc = "ended", !.ok = ok] IN
            q \in TaskRecords /\ q.pc = r.pc /\ q.runs = r.runs
BY DEF TaskRecords

\* The task of the step has a new record, the others keep theirs.
LEMMA TaskReplaced ==
  ASSUME TypeOK, RunsCounted, TasksOnce, NEW t \in Tasks, NEW r \in TaskRecords,
         task' = [task EXCEPT ![t] = r],
         r.runs <= 1, r.pc = "new" => r.runs = 0,
         r.pc \in {"started", "waiting"} => r.runs = 1
  PROVE  /\ task' \in [Tasks -> TaskRecords] /\ task'[t] = r
         /\ \A u \in Tasks : u # t => task'[u] = task[u]
         /\ RunsCounted' /\ TasksOnce'
<1>1. task \in [Tasks -> TaskRecords]
  BY Types
<1>2. /\ task' \in [Tasks -> TaskRecords] /\ task'[t] = r
      /\ \A u \in Tasks : u # t => task'[u] = task[u]
  BY <1>1
<1>3. \A u \in Tasks : /\ task[u].pc = "new" => task[u].runs = 0
                       /\ task[u].pc \in {"started", "waiting"} => task[u].runs = 1
                       /\ task[u].runs <= 1
  BY DEF RunsCounted, TasksOnce
<1>4. \A u \in Tasks : /\ task'[u].pc = "new" => task'[u].runs = 0
                       /\ task'[u].pc \in {"started", "waiting"} => task'[u].runs = 1
                       /\ task'[u].runs <= 1
  BY <1>2, <1>3
<1>5. QED
  BY <1>2, <1>4 DEF RunsCounted, TasksOnce

\* The steps of task.run for t.
Moves(t) ==
  \/ task[t].pc = "new" /\ (Begins(t) \/ BeginFails(t))
  \/ (Adds(t) \/ Waits(t)) /\ UNCHANGED faults

\* No other task is touched, t is run once, and is over with what it leaves in
\* failures.
LEMMA TaskMoves ==
  ASSUME TypeOK, RunsCounted, TasksOnce, NEW t \in Tasks, Moves(t)
  PROVE  /\ task' \in [Tasks -> TaskRecords] /\ failures' \subseteq Aborting /\ faults' \in 0..MaxFaults
         /\ RunsCounted' /\ TasksOnce'
         /\ \A u \in Tasks : u # t => task'[u] = task[u]
         /\ failures \subseteq failures' /\ failures' \subseteq failures \cup {t}
         /\ faults' >= faults
         /\ task[t].pc # "new" => task'[t].pc \in {"waiting", "over"} /\ task'[t].runs = 1
         /\ task'[t].pc # "new"
         /\ task'[t].pc = "waiting" => task'[t].runs = 1
         /\ task'[t].pc = "over" =>
              /\ task[t].pc \in {"new", "waiting"}
              /\ task[t].pc = "new" => ~task'[t].ok /\ (CtxOff(t) \/ faults' > 0)
              /\ failures' = IF task'[t].ok THEN failures ELSE Publish(t)
         /\ task'[t].pc # "over" => failures' = failures
         /\ task'[t].runs >= task[t].runs
<1>1. /\ task \in [Tasks -> TaskRecords] /\ task[t] \in TaskRecords /\ failures \subseteq Aborting
      /\ faults \in 0..MaxFaults /\ MaxFaults \in Nat /\ task[t].ok \in BOOLEAN /\ task[t].runs \in Nat
  BY Types, TasksAssumption DEF TaskRecords
<1>2. /\ task[t].pc = "new" => task[t].runs = 0
      /\ task[t].pc \in {"started", "waiting"} => task[t].runs = 1
      /\ task[t].runs <= 1
  BY DEF RunsCounted, TasksOnce
<1>3. Publish(t) \subseteq Aborting /\ failures \subseteq Publish(t) /\ Publish(t) \subseteq failures \cup {t}
  BY <1>1 DEF Publish
<1>4. CASE task[t].pc = "new" /\ Begins(t)
  <2> DEFINE r == [task[t] EXCEPT !.pc = "started", !.proc = "alive", !.runs = @ + 1]
  <2>1. r \in TaskRecords /\ r.pc = "started" /\ r.runs = 1
    <3>1. task[t] \in TaskRecords /\ task[t].runs = 0
      BY <1>1, <1>2, <1>4
    <3>2. r \in TaskRecords /\ r.pc = "started" /\ r.runs = task[t].runs + 1
      BY <3>1, RunFields
    <3>3. QED
      BY <3>1, <3>2
  <2>2. task' = [task EXCEPT ![t] = r] /\ UNCHANGED <<failures, faults>>
    BY <1>4 DEF Begins
  <2> HIDE DEF r
  <2>3. /\ task' \in [Tasks -> TaskRecords] /\ task'[t] = r
        /\ \A u \in Tasks : u # t => task'[u] = task[u]
        /\ RunsCounted' /\ TasksOnce'
    <3>1. r.runs <= 1 /\ (r.pc = "new" => r.runs = 0) /\ (r.pc \in {"started", "waiting"} => r.runs = 1)
      BY <2>1
    <3>2. QED
      BY <2>1, <2>2, <3>1, TaskReplaced
  <2>4. QED
    BY <1>1, <1>2, <1>4, <2>1, <2>2, <2>3
<1>5. CASE task[t].pc = "new" /\ BeginFails(t)
  <2> DEFINE r == [task[t] EXCEPT !.pc = "over", !.ok = FALSE]
  <2>1. r \in TaskRecords /\ r.pc = "over" /\ r.runs = 0 /\ ~r.ok
    BY <1>1, <1>2, <1>5, RunFields
  <2>2. /\ task' = [task EXCEPT ![t] = r] /\ failures' = Publish(t)
        /\ IF CtxOff(t) THEN faults' = faults ELSE faults < MaxFaults /\ faults' = faults + 1
    BY <1>5 DEF BeginFails, Fault
  <2>3. faults' \in 0..MaxFaults /\ faults' >= faults /\ (CtxOff(t) \/ faults' > 0)
    BY <1>1, <2>2
  <2> HIDE DEF r
  <2>4. /\ task' \in [Tasks -> TaskRecords] /\ task'[t] = r
        /\ \A u \in Tasks : u # t => task'[u] = task[u]
        /\ RunsCounted' /\ TasksOnce'
    <3>1. r.runs <= 1 /\ (r.pc = "new" => r.runs = 0) /\ (r.pc \in {"started", "waiting"} => r.runs = 1)
      BY <2>1
    <3>2. QED
      BY <2>1, <2>2, <3>1, TaskReplaced
  <2>5. QED
    BY <1>1, <1>2, <1>3, <1>5, <2>1, <2>2, <2>3, <2>4
<1>6. CASE Adds(t) /\ UNCHANGED faults
  <2> DEFINE r == [task[t] EXCEPT !.pc = "waiting", !.listed = TRUE]
  <2>1. r \in TaskRecords /\ r.pc = "waiting" /\ r.runs = task[t].runs
    BY <1>1, RunFields
  <2>2. task' = [task EXCEPT ![t] = r] /\ UNCHANGED failures /\ task[t].pc = "started"
    BY <1>6 DEF Adds
  <2> HIDE DEF r
  <2>3. /\ task' \in [Tasks -> TaskRecords] /\ task'[t] = r
        /\ \A u \in Tasks : u # t => task'[u] = task[u]
        /\ RunsCounted' /\ TasksOnce'
    BY <1>2, <2>1, <2>2, TaskReplaced
  <2>4. QED
    BY <1>1, <1>2, <1>6, <2>1, <2>2, <2>3
<1>7. CASE Waits(t) /\ UNCHANGED faults
  <2> DEFINE r == [task[t] EXCEPT !.pc = "over", !.listed = FALSE]
  <2>1. r \in TaskRecords /\ r.pc = "over" /\ r.runs = task[t].runs /\ r.ok = task[t].ok
    BY <1>1, RunFields
  <2>2. /\ task' = [task EXCEPT ![t] = r] /\ task[t].pc = "waiting"
        /\ failures' = IF task[t].ok THEN failures ELSE Publish(t)
    BY <1>7 DEF Waits
  <2> HIDE DEF r
  <2>3. /\ task' \in [Tasks -> TaskRecords] /\ task'[t] = r
        /\ \A u \in Tasks : u # t => task'[u] = task[u]
        /\ RunsCounted' /\ TasksOnce'
    BY <1>2, <2>1, <2>2, TaskReplaced
  <2>4. QED
    BY <1>1, <1>2, <1>3, <1>7, <2>1, <2>2, <2>3
<1>8. QED
  BY <1>4, <1>5, <1>6, <1>7 DEF Moves

\* The end of a process and its close leave the goroutine where it is.
LEMMA TaskEnded ==
  ASSUME TypeOK, RunsCounted, TasksOnce, NEW t \in Tasks,
         (\E ok \in BOOLEAN : TaskEnds(t, ok)) \/ CloseTask(t)
  PROVE  /\ task' \in [Tasks -> TaskRecords] /\ RunsCounted' /\ TasksOnce'
         /\ \A u \in Tasks : task'[u].pc = task[u].pc /\ task'[u].runs = task[u].runs
<1>1. /\ task \in [Tasks -> TaskRecords] /\ task[t] \in TaskRecords
      /\ task[t].pc = "new" => task[t].runs = 0
      /\ task[t].pc \in {"started", "waiting"} => task[t].runs = 1
      /\ task[t].runs <= 1
  BY Types DEF RunsCounted, TasksOnce
<1>2. ASSUME NEW r \in TaskRecords, r.pc = task[t].pc, r.runs = task[t].runs, task' = [task EXCEPT ![t] = r]
      PROVE  /\ task' \in [Tasks -> TaskRecords] /\ RunsCounted' /\ TasksOnce'
             /\ \A u \in Tasks : task'[u].pc = task[u].pc /\ task'[u].runs = task[u].runs
  <2>1. /\ task' \in [Tasks -> TaskRecords] /\ task'[t] = r
        /\ \A u \in Tasks : u # t => task'[u] = task[u]
        /\ RunsCounted' /\ TasksOnce'
    BY <1>1, <1>2, TaskReplaced
  <2>2. QED
    BY <1>2, <2>1
<1>3. ASSUME NEW ok \in BOOLEAN, TaskEnds(t, ok)
      PROVE  \E r \in TaskRecords : r.pc = task[t].pc /\ r.runs = task[t].runs /\ task' = [task EXCEPT ![t] = r]
  <2> DEFINE r == [task[t] EXCEPT !.proc = "ended", !.ok = ok]
  <2>1. r \in TaskRecords /\ r.pc = task[t].pc /\ r.runs = task[t].runs
    BY <1>1, EndFields
  <2>2. task' = [task EXCEPT ![t] = r]
    BY <1>3 DEF TaskEnds
  <2> HIDE DEF r
  <2>3. QED
    BY <2>1, <2>2
<1>4. ASSUME CloseTask(t)
      PROVE  \E r \in TaskRecords : r.pc = task[t].pc /\ r.runs = task[t].runs /\ task' = [task EXCEPT ![t] = r]
  <2> DEFINE ok == task[t].ok /\ task[t].proc = "ended"
             r == [task[t] EXCEPT !.listed = FALSE, !.proc = "ended", !.ok = ok]
  <2>1. r \in TaskRecords /\ r.pc = task[t].pc /\ r.runs = task[t].runs
    <3>1. ok \in BOOLEAN
      BY <1>1 DEF TaskRecords
    <3> HIDE DEF ok
    <3>2. QED
      BY <1>1, <3>1, EndFields
  <2>2. task' = [task EXCEPT ![t] = r]
    BY <1>4 DEF CloseTask
  <2> HIDE DEF r
  <2>3. QED
    BY <2>1, <2>2
<1>5. QED
  BY <1>2, <1>3, <1>4

-----------------------------------------------------------------------------
(* One Prepare passes startedPrepare, and runningWG counts it. *)

\* The tasks, and what is known of them, are left alone.
LEMMA TasksStay ==
  ASSUME UNCHANGED task
  PROVE  (RunsCounted => RunsCounted') /\ (TasksOnce => TasksOnce')
BY DEF RunsCounted, TasksOnce

\* Nobody else is in the preparation with p.
LEMMA Alone ==
  ASSUME TypeOK, OnePrepare, NEW p \in Prepares
  PROVE  /\ prep[p] \in Inside =>
              /\ srv.started
              /\ \A q \in Prepares \ {p} : prep[q] \notin Inside /\ prep[q] # "set"
              /\ srv.wg = IF prep[p] \in Holding THEN 1 ELSE 0
         /\ prep[p] = "set" =>
              /\ ~srv.started /\ srv.wg = 0 /\ waiter = "none"
              /\ \A q \in Prepares \ {p} : prep[q] \notin Inside /\ prep[q] \notin {"test", "set"}
         /\ prep[p] = "test" => \A q \in Prepares \ {p} : prep[q] \notin {"test", "set"}
BY Types DEF OnePrepare, Inside, Holding

\* OnePrepare in terms of the one that moves.
LEMMA OnePrepareMoves ==
  ASSUME TypeOK, OnePrepare, NEW p \in Prepares, NEW x \in Pcs, prep' = [prep EXCEPT ![p] = x],
         waiter' # "none" => srv'.started,
         srv.started => srv'.started,
         x \in Inside => srv'.started /\ \A q \in Prepares \ {p} : prep[q] \notin Inside,
         x = "set" => ~srv'.started,
         x \in {"test", "set"} => \A q \in Prepares \ {p} : prep[q] \notin {"test", "set"},
         srv'.started # srv.started => \A q \in Prepares \ {p} : prep[q] # "set",
         x \in {"setup", "make", "join"} => waiter' = "none",
         x \in Holding => waiter' # "none",
         waiter' # waiter => \A q \in Prepares \ {p} : prep[q] \notin {"setup", "make", "join"} \cup Holding,
         srv'.wg = IF x \in Holding \/ \E q \in Prepares \ {p} : prep[q] \in Holding THEN 1 ELSE 0
  PROVE  OnePrepare'
<1>1. /\ prep' \in [Prepares -> Pcs] /\ prep'[p] = x
      /\ \A q \in Prepares \ {p} : prep'[q] = prep[q]
  BY Types
<1>2. \A q \in Prepares : prep[q] \in Holding => prep[q] \in Inside
  BY DEF Inside
<1>3. \A q, r \in Prepares : prep'[q] \in {"test", "set"} /\ prep'[r] \in {"test", "set"} => q = r
  BY <1>1 DEF OnePrepare
<1>4. \A q, r \in Prepares : prep'[q] \in Inside /\ prep'[r] \in Inside => q = r
  BY <1>1 DEF OnePrepare
<1>5. ASSUME NEW q \in Prepares
      PROVE  /\ prep'[q] \in Inside => srv'.started
             /\ prep'[q] = "set" => ~srv'.started
             /\ prep'[q] \in {"setup", "make", "join"} => waiter' = "none"
             /\ prep'[q] \in Holding => waiter' # "none"
  BY <1>1 DEF OnePrepare
<1>6. srv'.wg = IF \E q \in Prepares : prep'[q] \in Holding THEN 1 ELSE 0
  BY <1>1
<1>7. QED
  BY <1>3, <1>4, <1>5, <1>6 DEF OnePrepare, Inside, Holding

-----------------------------------------------------------------------------
(* The steps of Prepare. *)

LEMMA PrepareStarts ==
  ASSUME TaskIInv, NEW p \in Prepares, Prepare(p) \/ TestStarted(p) \/ SetStarted(p)
  PROVE  TaskIInv'
<1>1. TypeOK /\ OnePrepare /\ Managed /\ StartOrder /\ RunsCounted /\ TasksOnce /\ srv \in Srvs /\ prep \in [Prepares -> Pcs]
  BY Types DEF TaskIInv
<1>2. UNCHANGED <<mgr, at, task, waiter, main, stop, failures, term, faults>>
  BY DEF Prepare, TestStarted, SetStarted
<1>3. PICK x \in {"test", "set", "over", "setup"} :
        /\ prep' = [prep EXCEPT ![p] = x]
        /\ x = "test" => /\ \A q \in Prepares : prep[q] \notin {"test", "set"}
                         /\ prep[p] = "none" /\ UNCHANGED srv
        /\ x = "set" => prep[p] = "test" /\ ~srv.started /\ UNCHANGED srv
        /\ x = "over" => prep[p] = "test" /\ srv.started /\ UNCHANGED srv
        /\ x = "setup" => prep[p] = "set" /\ srv' = [srv EXCEPT !.started = TRUE]
  BY DEF Prepare, TestStarted, SetStarted, First
<1>4. /\ srv' \in Srvs /\ srv'.wg = srv.wg /\ srv'.failed = srv.failed /\ srv'.state = srv.state
      /\ IF x = "setup" THEN srv'.started ELSE srv'.started = srv.started
  <2>1. CASE x = "setup"
    <3>1. srv' = [srv EXCEPT !.started = TRUE]
      BY <1>3, <2>1
    <3>2. QED
      BY <1>1, <2>1, <3>1 DEF Srvs
  <2>2. CASE x # "setup"
    BY <1>1, <1>3, <2>2
  <2>3. QED
    BY <2>1, <2>2
<1>5. x \in Pcs /\ prep' \in [Prepares -> Pcs]
  BY <1>1, <1>3 DEF Pcs
<1>6. TypeOK'
  BY <1>1, <1>2, <1>4, <1>5, Types, TypesNext
<1>7. OnePrepare'
  BY <1>1, <1>2, <1>3, <1>4, <1>5, Alone, OnePrepareMoves DEF Inside, Holding, OnePrepare
<1>8. \A q \in Prepares : /\ prep'[q] = "join" <=> prep[q] = "join"
                          /\ prep'[q] = "append" <=> prep[q] = "append"
                          /\ prep'[q] = "run" <=> prep[q] = "run"
                          /\ prep'[q] = "failing" <=> prep[q] = "failing"
  BY <1>1, <1>3
<1>9. Managed' /\ StartOrder'
  BY <1>1, <1>2, <1>4, <1>8 DEF Managed, StartOrder, Fresh, Settled
<1>10. QED
  BY <1>1, <1>2, <1>6, <1>7, <1>9, TasksStay DEF TaskIInv

LEMMA PrepareSetup ==
  ASSUME TaskIInv, NEW p \in Prepares, Setup(p) \/ NewTaskManager(p) \/ SignalDone(p)
  PROVE  TaskIInv'
<1>1. TypeOK /\ OnePrepare /\ Managed /\ StartOrder /\ RunsCounted /\ TasksOnce
      /\ srv \in Srvs /\ prep \in [Prepares -> Pcs] /\ mgr \in Mgrs
  BY Types DEF TaskIInv
<1>2. UNCHANGED <<at, task, waiter, main, stop, failures, term>>
  BY DEF Setup, NewTaskManager, SignalDone
<1>3. PICK x \in {"make", "signal", "join", "over"} :
        /\ prep' = [prep EXCEPT ![p] = x]
        /\ x = "make" => prep[p] = "setup" /\ srv' = [srv EXCEPT !.state = "PREPARING"] /\ UNCHANGED <<mgr, faults>>
        /\ x = "signal" => prep[p] = "setup" /\ UNCHANGED <<srv, mgr>> /\ Fault
        /\ x = "join" => prep[p] = "make" /\ mgr' = [mgr EXCEPT !.made = TRUE] /\ UNCHANGED <<srv, faults>>
        /\ x = "over" => prep[p] = "signal" /\ srv' = [srv EXCEPT !.done = TRUE] /\ UNCHANGED <<mgr, faults>>
  BY DEF Setup, NewTaskManager, SignalDone
<1>4. /\ srv' \in Srvs /\ srv'.wg = srv.wg /\ srv'.failed = srv.failed /\ srv'.started = srv.started
      /\ srv'.state = "RUNNING" => srv.state = "RUNNING"
  <2>1. CASE x = "make"
    <3>1. srv' = [srv EXCEPT !.state = "PREPARING"]
      BY <1>3, <2>1
    <3>2. QED
      BY <1>1, <3>1 DEF Srvs
  <2>2. CASE x = "over"
    <3>1. srv' = [srv EXCEPT !.done = TRUE]
      BY <1>3, <2>2
    <3>2. QED
      BY <1>1, <3>1 DEF Srvs
  <2>3. CASE x \notin {"make", "over"}
    BY <1>1, <1>3, <2>3
  <2>4. QED
    BY <2>1, <2>2, <2>3
<1>5. x \in Pcs /\ prep' \in [Prepares -> Pcs] /\ prep[p] \in Inside /\ prep'[p] = x
      /\ \A q \in Prepares \ {p} : prep'[q] = prep[q]
  BY <1>1, <1>3 DEF Pcs, Inside
<1>6. mgr' \in Mgrs /\ mgr'.made = (mgr.made \/ x = "join") /\ mgr'.appended = mgr.appended
  BY <1>1, <1>3 DEF Mgrs
<1>7. faults' \in 0..MaxFaults
  BY <1>1, <1>3, Types, TasksAssumption DEF Fault
<1>8. TypeOK'
  BY <1>1, <1>2, <1>4, <1>5, <1>6, <1>7, Types, TypesNext
<1>9. OnePrepare'
  BY <1>1, <1>2, <1>3, <1>4, <1>5, Alone, OnePrepareMoves DEF Inside, Holding, OnePrepare
<1>10. \A q \in Prepares : /\ prep'[q] = "join" => prep[q] = "join" \/ x = "join"
                           /\ prep'[q] = "append" <=> prep[q] = "append"
                           /\ prep'[q] = "run" <=> prep[q] = "run"
                           /\ prep'[q] = "failing" <=> prep[q] = "failing"
  BY <1>1, <1>3, <1>5
<1>11. Managed'
  BY <1>1, <1>2, <1>4, <1>6, <1>10 DEF Managed
<1>12. StartOrder'
  BY <1>1, <1>2, <1>4, <1>10 DEF StartOrder, Fresh, Settled
<1>13. QED
  BY <1>1, <1>2, <1>8, <1>9, <1>11, <1>12, TasksStay DEF TaskIInv

\* The only one in the preparation, whatever it does, with runningWG.
LEMMA Single ==
  ASSUME TypeOK, OnePrepare, NEW p \in Prepares, NEW x \in Pcs, prep' = [prep EXCEPT ![p] = x],
         prep[p] \in Inside, x \in Inside \cup {"over"},
         srv'.started = srv.started,
         x \notin {"setup", "make", "join"},
         srv'.wg = IF x \in Holding THEN 1 ELSE 0,
         x \in Holding => waiter' # "none"
  PROVE  OnePrepare' /\ prep' \in [Prepares -> Pcs] /\ prep'[p] = x
         /\ \A q \in Prepares \ {p} : prep'[q] = prep[q] /\ prep[q] \notin Inside
<1>1. srv.started /\ \A q \in Prepares \ {p} : prep[q] \notin Inside /\ prep[q] # "set"
  BY Alone
<1>2. /\ x \notin {"test", "set", "setup", "make", "join"}
      /\ \A q \in Prepares \ {p} : prep[q] \notin {"setup", "make", "join"} \cup Holding
  BY <1>1 DEF Inside, Holding
<1>3. OnePrepare'
  BY <1>1, <1>2, OnePrepareMoves
<1>4. QED
  BY <1>1, <1>3, Types

LEMMA PrepareJoins ==
  ASSUME TaskIInv, NEW p \in Prepares, Join(p)
  PROVE  TaskIInv'
<1>1. /\ TypeOK /\ OnePrepare /\ Managed /\ StartOrder /\ RunsCounted /\ TasksOnce
      /\ srv \in Srvs /\ prep[p] = "join" /\ srv.wg = 0 /\ waiter = "none" /\ mgr.made
  BY Types, Alone DEF TaskIInv, Join, Inside, Holding, OnePrepare, Managed
<1>2. /\ UNCHANGED <<mgr, at, task, main, stop, failures, term, faults>>
      /\ srv' = [srv EXCEPT !.wg = 1] /\ waiter' = "wait" /\ prep' = [prep EXCEPT ![p] = "append"]
  BY <1>1 DEF Join
<1>3. srv' \in Srvs /\ srv'.wg = 1 /\ srv'.started = srv.started /\ srv'.state = srv.state
  BY <1>1, <1>2 DEF Srvs
<1>4. /\ OnePrepare' /\ prep' \in [Prepares -> Pcs] /\ prep'[p] = "append"
      /\ \A q \in Prepares \ {p} : prep'[q] = prep[q] /\ prep[q] \notin Inside
  <2>1. "append" \in Pcs /\ "append" \in Inside /\ "append" \in Holding /\ prep[p] \in Inside
    BY <1>1 DEF Pcs, Inside, Holding
  <2>2. QED
    BY <1>1, <1>2, <1>3, <2>1, Single
<1>5. TypeOK'
  BY <1>1, <1>2, <1>3, <1>4, Types, TypesNext
<1>6. \A q \in Prepares : prep'[q] \notin {"join", "run"}
  BY <1>4 DEF Inside, Holding
<1>7. Managed' /\ StartOrder'
  BY <1>1, <1>2, <1>3, <1>4, <1>6 DEF Managed, StartOrder, Fresh
<1>8. QED
  BY <1>1, <1>2, <1>4, <1>5, <1>7, TasksStay DEF TaskIInv

LEMMA PrepareAppends ==
  ASSUME TaskIInv, NEW p \in Prepares, AppendTasks(p)
  PROVE  TaskIInv'
<1>1. /\ TypeOK /\ OnePrepare /\ Managed /\ StartOrder /\ RunsCounted /\ TasksOnce
      /\ mgr \in Mgrs /\ prep[p] = "append" /\ srv.wg = 1 /\ waiter # "none" /\ mgr.made
      /\ prep[p] \in Inside
  BY Types, Alone DEF TaskIInv, AppendTasks, Inside, Holding, OnePrepare, Managed
<1>2. /\ UNCHANGED <<srv, task, waiter, main, stop, failures, term, faults>>
      /\ mgr' = [mgr EXCEPT !.appended = TRUE, !.cancel = "live"] /\ at' = 1
      /\ prep' = [prep EXCEPT ![p] = "run"]
  BY DEF AppendTasks
<1>3. mgr' \in Mgrs /\ mgr'.made /\ mgr'.appended
  BY <1>1, <1>2 DEF Mgrs
<1>4. /\ OnePrepare' /\ prep' \in [Prepares -> Pcs] /\ prep'[p] = "run"
      /\ \A q \in Prepares \ {p} : prep'[q] = prep[q] /\ prep[q] \notin Inside
  <2>1. "run" \in Pcs /\ "run" \in Inside /\ "run" \in Holding
    BY DEF Pcs, Inside, Holding
  <2>2. QED
    BY <1>1, <1>2, <2>1, Single
<1>5. TypeOK'
  BY <1>1, <1>2, <1>3, <1>4, Types, TypesNext, Entries
<1>6. \A i \in 1..Len(Start) : Fresh(Start[i])'
  BY <1>1, <1>2 DEF StartOrder, Fresh
<1>7. \A q \in Prepares : prep'[q] \notin {"join", "append"}
  BY <1>4 DEF Inside, Holding
<1>8. Managed' /\ StartOrder'
  BY <1>1, <1>2, <1>3, <1>4, <1>6, <1>7, Entries DEF Managed, StartOrder, Fresh
<1>9. QED
  BY <1>1, <1>2, <1>4, <1>5, <1>8, TasksStay DEF TaskIInv

\* The end of run, of a preparation that failed and of one that did not.
LEMMA PrepareEnds ==
  ASSUME TaskIInv, NEW p \in Prepares, RunEnds(p) \/ RunFails(p) \/ Leave(p)
  PROVE  TaskIInv'
<1>1. /\ TypeOK /\ OnePrepare /\ Managed /\ StartOrder /\ RunsCounted /\ TasksOnce
      /\ srv \in Srvs /\ mgr \in Mgrs /\ srv.wg = 1 /\ waiter # "none" /\ prep[p] \in Inside
      /\ prep[p] \in {"run", "failing", "leave"}
  BY Types, Alone DEF TaskIInv, RunEnds, RunFails, Leave, Inside, Holding, OnePrepare
<1>2. UNCHANGED <<at, task, waiter, main, stop, failures, term, faults>>
  BY DEF RunEnds, RunFails, Leave
<1>3. mgr' \in Mgrs /\ mgr'.made = mgr.made /\ mgr'.appended = mgr.appended
  BY <1>1 DEF RunEnds, RunFails, Leave, Mgrs
<1>4. PICK x \in {"leave", "signal", "over"} :
        /\ prep' = [prep EXCEPT ![p] = x]
        /\ x = "leave" => prep[p] = "run" /\ at > Len(Start) /\ UNCHANGED srv
        /\ x = "signal" => prep[p] = "failing" /\ srv' = [srv EXCEPT !.failed = TRUE, !.wg = 0]
        /\ x = "over" => prep[p] = "leave" /\ srv' = [srv EXCEPT !.wg = 0]
  BY <1>1 DEF RunEnds, RunFails, Leave, FlagSet
<1>5. /\ srv' \in Srvs /\ srv'.wg = (IF x = "leave" THEN 1 ELSE 0)
      /\ IF x = "signal" THEN srv'.failed ELSE srv'.failed = srv.failed
      /\ srv'.started = srv.started /\ srv'.state = srv.state
  <2>1. CASE x = "leave"
    BY <1>1, <1>4, <2>1
  <2>2. CASE x = "signal"
    <3>1. srv' = [srv EXCEPT !.failed = TRUE, !.wg = 0]
      BY <1>4, <2>2
    <3> DEFINE r == [srv EXCEPT !.wg = 0]
    <3>2. r \in Srvs /\ r.wg = 0 /\ r.started = srv.started /\ r.state = srv.state
      BY <1>1 DEF Srvs
    <3>3. srv' = [r EXCEPT !.failed = TRUE]
      BY <1>1, <3>1 DEF Srvs
    <3> HIDE DEF r
    <3>4. srv' \in Srvs /\ srv'.wg = r.wg /\ srv'.started = r.started /\ srv'.state = r.state
      BY <3>2, <3>3 DEF Srvs
    <3>5. srv'.failed = TRUE
      BY <3>2, <3>3 DEF Srvs
    <3>6. QED
      BY <2>2, <3>2, <3>4, <3>5
  <2>3. CASE x = "over"
    <3>1. srv' = [srv EXCEPT !.wg = 0]
      BY <1>4, <2>3
    <3>2. QED
      BY <1>1, <2>3, <3>1 DEF Srvs
  <2>4. QED
    BY <2>1, <2>2, <2>3
<1>6. /\ OnePrepare' /\ prep' \in [Prepares -> Pcs] /\ prep'[p] = x
      /\ \A q \in Prepares \ {p} : prep'[q] = prep[q] /\ prep[q] \notin Inside
  <2>1. /\ x \in Pcs /\ x \in Inside \cup {"over"} /\ x \notin {"setup", "make", "join"}
        /\ x \in Holding <=> x = "leave"
    BY DEF Pcs, Inside, Holding
  <2>2. QED
    BY <1>1, <1>2, <1>4, <1>5, <2>1, Single
<1>7. TypeOK'
  BY <1>1, <1>2, <1>3, <1>5, <1>6, Types, TypesNext
<1>8. \A q \in Prepares : prep'[q] \notin {"join", "append", "run", "failing"}
  BY <1>6 DEF Inside, Holding
<1>9. Managed'
  <2>1. \A q \in Prepares : prep[q] # "append"
    BY <1>1, <1>6 DEF Inside, Holding
  <2>2. QED
    BY <1>1, <1>2, <1>3, <1>5, <1>8, <2>1 DEF Managed
<1>10. waiter = "wait" /\ ~srv'.failed => \A i \in 1..Len(Start) : Settled(Start[i])
  <2>1. CASE x = "leave"
    <3>1. prep[p] = "run" /\ at > Len(Start) /\ at \in Nat /\ Len(Start) \in Nat
      BY <1>1, <1>4, <2>1, Types, Entries
    <3>2. \A i \in 1..Len(Start) : i < at
      BY <3>1
    <3>3. QED
      BY <1>1, <3>1, <3>2 DEF StartOrder
  <2>2. CASE x = "over"
    <3>1. \A q \in Prepares : prep[q] \notin {"append", "run", "failing"}
      BY <1>4, <1>6, <2>2 DEF Inside, Holding
    <3>2. QED
      BY <1>1, <1>5, <2>2, <3>1 DEF StartOrder
  <2>3. QED
    BY <1>5, <2>1, <2>2
<1>11. StartOrder'
  BY <1>1, <1>2, <1>8, <1>10 DEF StartOrder, Settled
<1>12. QED
  BY <1>1, <1>2, <1>6, <1>7, <1>9, <1>11, TasksStay DEF TaskIInv

\* A start task that is passed without a failure is settled; one that is not
\* passed is still the current one.
LEMMA CurrentMoves ==
  ASSUME TypeOK, RunsCounted, TasksOnce, NEW t \in Tasks, Moves(t),
         task[t].pc # "over", t \notin failures, t \in Background => task[t].pc # "waiting"
  PROVE  /\ Passed(t) /\ ~Failed(t) /\ ~FailedAtStart(t) => Settled(t)'
         /\ ~Passed(t) => /\ task'[t].pc # "over" /\ t \notin failures'
                          /\ t \in Background => task'[t].pc # "waiting"
<1>1. /\ task[t].pc # "new" => task'[t].pc \in {"waiting", "over"} /\ task'[t].runs = 1
      /\ task'[t].pc = "over" =>
           /\ task[t].pc \in {"new", "waiting"}
           /\ task[t].pc = "new" => ~task'[t].ok
           /\ failures' = IF task'[t].ok THEN failures ELSE Publish(t)
      /\ task'[t].pc # "over" => failures' = failures
  BY TaskMoves
<1>2. ASSUME ~Passed(t)
      PROVE  /\ task'[t].pc # "over" /\ t \notin failures'
             /\ t \in Background => task'[t].pc # "waiting"
  BY <1>1, <1>2 DEF Passed
<1>3. ASSUME Passed(t), ~Failed(t), ~FailedAtStart(t)
      PROVE  Settled(t)'
  <2>1. t \in Background \/ task'[t].pc = "over"
    BY <1>3 DEF Passed
  <2>2. t \notin failures'
    <3>1. CASE task'[t].pc # "over"
      BY <1>1, <3>1
    <3>2. CASE task'[t].pc = "over" /\ t \notin Aborting
      BY <1>1, <3>2 DEF Publish
    <3>3. CASE task'[t].pc = "over" /\ t \in Aborting
      <4>1. task[t].pc = "waiting"
        BY <1>1, <1>3, <3>3 DEF FailedAtStart
      <4>2. task'[t].ok
        BY <1>3, <3>3, <4>1 DEF Failed
      <4>3. QED
        BY <1>1, <3>3, <4>2
    <3>4. QED
      BY <3>1, <3>2, <3>3
  <2>3. QED
    BY <2>1, <2>2 DEF Settled
<1>4. QED
  BY <1>2, <1>3

LEMMA PrepareRuns ==
  ASSUME TaskIInv, NEW p \in Prepares, RunTask(p)
  PROVE  TaskIInv'
<1>1. /\ TypeOK /\ OnePrepare /\ Managed /\ StartOrder /\ RunsCounted /\ TasksOnce
      /\ prep[p] = "run" /\ srv.wg = 1 /\ waiter # "none" /\ prep[p] \in Inside
      /\ prep \in [Prepares -> Pcs] /\ prep = [prep EXCEPT ![p] = "run"]
  BY Types, Alone DEF TaskIInv, RunTask, Inside, Holding, OnePrepare
<1>2. /\ UNCHANGED <<srv, mgr, waiter, main, stop, term>>
      /\ at \in 1..Len(Start) /\ at \in Nat /\ Len(Start) \in Nat
  BY <1>1, Types, Entries DEF RunTask
<1> PICK t \in Tasks : t = Start[at]
  BY <1>2, Entries
<1>3. \A i \in 1..Len(Start) :
        /\ Start[i] \in Tasks
        /\ i # at => Start[i] # t
        /\ i < at => Settled(Start[i])
        /\ i > at => Fresh(Start[i])
  BY <1>1, <1>2, Entries DEF StartOrder
<1>4. /\ task[t].pc # "over" /\ t \notin failures
      /\ t \in Background => task[t].pc # "waiting"
  BY <1>1, <1>2 DEF StartOrder
\* Where the preparation goes.
<1>5. ASSUME NEW x \in {"run", "failing"}, prep' = [prep EXCEPT ![p] = x]
      PROVE  /\ OnePrepare' /\ Managed' /\ prep' \in [Prepares -> Pcs] /\ prep'[p] = x
             /\ \A q \in Prepares \ {p} : prep'[q] \notin {"join", "append", "run", "failing"}
  <2>1. x \in Pcs /\ x \in Inside /\ x \in Holding /\ x \notin {"setup", "make", "join"}
    BY DEF Pcs, Inside, Holding
  <2>2. /\ OnePrepare' /\ prep' \in [Prepares -> Pcs] /\ prep'[p] = x
        /\ \A q \in Prepares \ {p} : prep'[q] = prep[q] /\ prep[q] \notin Inside
    BY <1>1, <1>2, <1>5, <2>1, Single
  <2>3. \A q \in Prepares \ {p} : prep'[q] \notin {"join", "append", "run", "failing"}
    BY <2>2 DEF Inside, Holding
  <2>4. Managed'
    <3>1. \A q \in Prepares : prep[q] # "append"
      BY <1>1, <2>2 DEF Inside, Holding
    <3>2. QED
      BY <1>1, <1>2, <2>2, <2>3, <3>1 DEF Managed
  <2>5. QED
    BY <2>2, <2>3, <2>4
<1>6. CASE IsBuild /\ t \in Background
  <2>1. at' = at + 1 /\ UNCHANGED <<task, prep, failures, faults>>
    BY <1>6 DEF RunTask
  <2>2. Settled(t)
    BY <1>4, <1>6 DEF Settled
  <2>3. \A i \in 1..Len(Start) : /\ i < at' => Settled(Start[i])
                                 /\ i >= at' => Fresh(Start[i])
    BY <1>2, <1>3, <2>1, <2>2
  <2>4. \A i \in 1..Len(Start) : /\ i < at' => Settled(Start[i])'
                                 /\ i >= at' => Fresh(Start[i])'
    BY <2>1, <2>3 DEF Settled, Fresh
  <2>5. /\ OnePrepare' /\ Managed' /\ prep'[p] = "run"
        /\ \A q \in Prepares \ {p} : prep'[q] \notin {"join", "append", "run", "failing"}
    BY <1>1, <1>5, <2>1
  <2>6. StartOrder'
    <3>1. \A i \in 1..Len(Start) :
            /\ i < at' => Settled(Start[i])'
            /\ i = at' => /\ task'[Start[i]].pc # "over" /\ Start[i] \notin failures'
                          /\ Start[i] \in Background => task'[Start[i]].pc # "waiting"
            /\ i > at' => Fresh(Start[i])'
      BY <1>2, <2>1, <2>4 DEF Fresh
    <3>2. QED
      BY <1>1, <1>2, <2>5, <3>1 DEF StartOrder
  <2>7. TypeOK'
    BY <1>1, <1>2, <2>1, Types, TypesNext
  <2>8. QED
    BY <1>1, <2>1, <2>5, <2>6, <2>7, TasksStay DEF TaskIInv
<1>7. CASE ~(IsBuild /\ t \in Background)
  <2>1. /\ Moves(t)
        /\ at' = IF Passed(t) /\ ~Failed(t) /\ ~FailedAtStart(t) THEN at + 1 ELSE at
        /\ prep' = [prep EXCEPT ![p] = IF Passed(t) /\ (Failed(t) \/ FailedAtStart(t)) THEN "failing" ELSE "run"]
    BY <1>1, <1>4, <1>7 DEF RunTask, Moves
  <2>2. /\ task' \in [Tasks -> TaskRecords] /\ failures' \subseteq Aborting /\ faults' \in 0..MaxFaults
        /\ RunsCounted' /\ TasksOnce'
        /\ \A u \in Tasks : u # t => task'[u] = task[u]
        /\ failures \subseteq failures' /\ failures' \subseteq failures \cup {t}
    BY <1>1, <1>2, <2>1, TaskMoves
  <2>3. /\ Passed(t) /\ ~Failed(t) /\ ~FailedAtStart(t) => Settled(t)'
        /\ ~Passed(t) => /\ task'[t].pc # "over" /\ t \notin failures'
                         /\ t \in Background => task'[t].pc # "waiting"
    BY <1>1, <1>2, <1>4, <2>1, CurrentMoves
  <2>4. \A i \in 1..Len(Start) : /\ i < at => Settled(Start[i])'
                                 /\ i > at => Fresh(Start[i])'
    BY <1>2, <1>3, <2>2 DEF Settled, Fresh
  <2>5. at' \in 1..Len(Start) + 1
    BY <1>2, <2>1
  <2>6. CASE Passed(t) /\ (Failed(t) \/ FailedAtStart(t))
    <3>1. prep' = [prep EXCEPT ![p] = "failing"]
      BY <2>1, <2>6
    <3>2. /\ OnePrepare' /\ Managed' /\ prep'[p] = "failing" /\ prep' \in [Prepares -> Pcs]
          /\ \A q \in Prepares \ {p} : prep'[q] \notin {"join", "append", "run", "failing"}
      BY <1>5, <3>1
    <3>3. StartOrder'
      BY <1>1, <1>2, <3>2 DEF StartOrder
    <3>4. QED
      BY <1>1, <1>2, <2>2, <2>5, <3>2, <3>3, Types, TypesNext DEF TaskIInv
  <2>7. CASE ~(Passed(t) /\ (Failed(t) \/ FailedAtStart(t)))
    <3>1. prep' = [prep EXCEPT ![p] = "run"]
      BY <2>1, <2>7
    <3>2. /\ OnePrepare' /\ Managed' /\ prep'[p] = "run" /\ prep' \in [Prepares -> Pcs]
          /\ \A q \in Prepares \ {p} : prep'[q] \notin {"join", "append", "run", "failing"}
      BY <1>5, <3>1
    <3>3. \A i \in 1..Len(Start) :
            /\ i < at' => Settled(Start[i])'
            /\ i = at' => /\ task'[Start[i]].pc # "over" /\ Start[i] \notin failures'
                          /\ Start[i] \in Background => task'[Start[i]].pc # "waiting"
            /\ i > at' => Fresh(Start[i])'
      <4>1. CASE Passed(t)
        <5>1. at' = at + 1 /\ Settled(t)'
          BY <2>1, <2>3, <2>7, <4>1
        <5>2. QED
          BY <1>2, <2>4, <5>1 DEF Fresh
      <4>2. CASE ~Passed(t)
        <5>1. at' = at
          BY <2>1, <4>2
        <5>2. QED
          BY <1>2, <2>3, <2>4, <4>2, <5>1
      <4>3. QED
        BY <4>1, <4>2
    <3>4. StartOrder'
      BY <1>1, <1>2, <3>2, <3>3 DEF StartOrder
    <3>5. QED
      BY <1>1, <1>2, <2>2, <2>5, <3>2, <3>4, Types, TypesNext DEF TaskIInv
  <2>8. QED
    BY <2>6, <2>7
<1>8. QED
  BY <1>6, <1>7

-----------------------------------------------------------------------------
(* The other goroutines. *)

\* A step that leaves Prepare where it is, and the start tasks as they are.
LEMMA Quiet ==
  ASSUME TaskIInv, TypeOK', RunsCounted', TasksOnce',
         UNCHANGED <<prep, waiter, at>>,
         srv'.started = srv.started, srv'.wg = srv.wg, srv'.failed = srv.failed,
         srv'.state = "RUNNING" => srv.state = "RUNNING",
         mgr'.made = mgr.made, mgr'.appended = mgr.appended,
         \A t \in Range(Start) :
           /\ task'[t].pc = task[t].pc \/ (t \in Background /\ task[t].pc = "waiting" /\ task'[t].pc = "over")
           /\ task'[t].runs = task[t].runs
           /\ t \in failures' => t \in failures \/ (t \in Background /\ task[t].pc = "waiting")
  PROVE  TaskIInv'
<1>1. OnePrepare /\ Managed /\ StartOrder /\ RunsCounted
  BY DEF TaskIInv
<1>2. OnePrepare'
  BY <1>1 DEF OnePrepare
<1>3. Managed'
  BY <1>1 DEF Managed
<1>4. ASSUME NEW t \in Range(Start)
      PROVE  /\ Settled(t) => Settled(t)'
             /\ Fresh(t) => Fresh(t)'
  <2>1. task[t].pc = "waiting" => task[t].runs = 1
    BY <1>1, Entries DEF RunsCounted
  <2>2. QED
    BY <2>1 DEF Settled, Fresh
<1>5. ASSUME NEW t \in Range(Start), task[t].pc # "over" /\ t \notin failures,
             t \in Background => task[t].pc # "waiting"
      PROVE  /\ task'[t].pc # "over" /\ t \notin failures'
             /\ t \in Background => task'[t].pc # "waiting"
  BY <1>5
<1>6. /\ waiter = "none" \/ (\E p \in Prepares : prep[p] = "append") =>
           \A i \in 1..Len(Start) : Fresh(Start[i])'
      /\ waiter = "wait" /\ ~srv.failed /\ (\A p \in Prepares : prep[p] \notin {"append", "run", "failing"}) =>
           \A i \in 1..Len(Start) : Settled(Start[i])'
  BY <1>1, <1>4, Entries DEF StartOrder
<1>7. (\E p \in Prepares : prep[p] = "run") =>
       \A i \in 1..Len(Start) :
         /\ i < at => Settled(Start[i])'
         /\ i = at => /\ task'[Start[i]].pc # "over" /\ Start[i] \notin failures'
                      /\ Start[i] \in Background => task'[Start[i]].pc # "waiting"
         /\ i > at => Fresh(Start[i])'
  BY <1>1, <1>4, <1>5, Entries DEF StartOrder
<1>8. StartOrder'
  BY <1>6, <1>7 DEF StartOrder
<1>9. QED
  BY <1>2, <1>3, <1>8 DEF TaskIInv

LEMMA WaiterSteps ==
  ASSUME TaskIInv, Waiter
  PROVE  TaskIInv'
<1>1. /\ TypeOK /\ OnePrepare /\ Managed /\ StartOrder /\ RunsCounted /\ TasksOnce /\ srv \in Srvs
      /\ UNCHANGED <<prep, mgr, at, task, main, stop, failures, term, faults>>
  BY Types DEF TaskIInv, Waiter, SetRunning, StopWhenDone
<1>2. /\ waiter \in {"wait", "sleep"} /\ waiter' \in {"sleep", "over"}
      /\ waiter' = "sleep" => srv.wg = 0
  BY DEF Waiter, SetRunning, StopWhenDone
<1>3. /\ srv' \in Srvs /\ srv'.started = srv.started /\ srv'.wg = srv.wg
      /\ srv'.state = "RUNNING" => srv.state = "RUNNING" \/ srv.wg = 0
  <2>1. CASE SetRunning /\ srv.failed
    <3>1. srv' = [srv EXCEPT !.done = TRUE]
      BY <2>1 DEF SetRunning
    <3>2. QED
      BY <1>1, <3>1 DEF Srvs
  <2>2. CASE SetRunning /\ ~srv.failed
    <3>1. srv' = [srv EXCEPT !.state = "RUNNING"] /\ srv.wg = 0
      BY <2>2 DEF SetRunning
    <3>2. QED
      BY <1>1, <3>1 DEF Srvs
  <2>3. CASE StopWhenDone
    <3> DEFINE b == srv.done \/ OneShot
    <3>1. srv' = [srv EXCEPT !.done = b] /\ b \in BOOLEAN
      BY <2>3 DEF StopWhenDone
    <3> HIDE DEF b
    <3>2. QED
      BY <1>1, <3>1 DEF Srvs
  <2>4. QED
    BY <2>1, <2>2, <2>3 DEF Waiter
<1>4. TypeOK'
  BY <1>1, <1>2, <1>3, Types, TypesNext
<1>5. OnePrepare'
  BY <1>1, <1>2, <1>3 DEF OnePrepare
<1>6. Managed'
  <2>1. srv.wg = 0 => \A p \in Prepares : prep[p] # "append"
    BY <1>1 DEF OnePrepare, Holding
  <2>2. QED
    BY <1>1, <1>2, <1>3, <2>1 DEF Managed
<1>7. StartOrder'
  <2>1. \A p \in Prepares : prep[p] # "append" \/ waiter # "none"
    BY <1>2
  <2>2. QED
    BY <1>1, <1>2, <1>3, <2>1 DEF StartOrder, Fresh, Settled
<1>8. QED
  BY <1>1, <1>4, <1>5, <1>6, <1>7, TasksStay DEF TaskIInv

\* The steps of Run and Close, without those that run or close a task.
LEMMA MainSteps ==
  ASSUME TaskIInv, Select \/ CancelStart \/ SetStopping \/ PreStopEnds \/ Snapshot \/ CloseEnds \/ Exit
                     \/ StartTimesOut \/ PreStopTimesOut \/ Term \/ Kill
  PROVE  TaskIInv'
<1>1. /\ TypeOK /\ RunsCounted /\ TasksOnce
      /\ UNCHANGED <<prep, at, task, waiter, failures, faults>>
  BY DEF TaskIInv, Select, CancelStart, SetStopping, PreStopEnds, Snapshot, CloseEnds, Exit,
         StartTimesOut, PreStopTimesOut, Term, Kill
<1>2. srv \in Srvs /\ mgr \in Mgrs /\ stop \in Stops /\ Len(Stop) \in Nat
  BY <1>1, Types, Entries
<1>3. UNCHANGED srv \/ srv' = [srv EXCEPT !.state = "STOPPING"]
  BY DEF Select, CancelStart, SetStopping, PreStopEnds, Snapshot, CloseEnds, Exit,
         StartTimesOut, PreStopTimesOut, Term, Kill
<1>4. /\ srv' \in Srvs /\ srv'.started = srv.started /\ srv'.wg = srv.wg /\ srv'.failed = srv.failed
      /\ srv'.state = "RUNNING" => srv.state = "RUNNING"
  BY <1>2, <1>3 DEF Srvs
<1>5. \/ UNCHANGED mgr \/ mgr' = [mgr EXCEPT !.cancel = "off"]
  BY <1>2 DEF Mgrs, Select, CancelStart, SetStopping, PreStopEnds, Snapshot, CloseEnds, Exit,
              StartTimesOut, PreStopTimesOut, Term, Kill
<1>6. mgr' \in Mgrs /\ mgr'.made = mgr.made /\ mgr'.appended = mgr.appended
  BY <1>2, <1>5 DEF Mgrs
<1>7. stop' \in Stops
  <2>1. \/ UNCHANGED stop
        \/ stop' = [stop EXCEPT !.off = TRUE]
        \/ \E n \in 1..Len(Stop) + 1 : stop' = [stop EXCEPT !.at = n]
        \/ \E T \in SUBSET Tasks : stop' = [stop EXCEPT !.todo = T]
    <3>1. CASE SetStopping
      <4> DEFINE n == IF mgr.appended THEN 1 ELSE Len(Stop) + 1
      <4>1. stop' = [stop EXCEPT !.at = n] /\ n \in 1..Len(Stop) + 1
        BY <1>2, <3>1 DEF SetStopping
      <4> HIDE DEF n
      <4>2. QED
        BY <4>1
    <3>2. CASE Snapshot
      <4> DEFINE T == {t \in Tasks : task[t].listed}
      <4>1. stop' = [stop EXCEPT !.todo = T] /\ T \in SUBSET Tasks
        BY <3>2 DEF Snapshot
      <4> HIDE DEF T
      <4>2. QED
        BY <4>1
    <3>3. CASE ~SetStopping /\ ~Snapshot
      BY <3>3 DEF Select, CancelStart, PreStopEnds, CloseEnds, Exit, StartTimesOut, PreStopTimesOut, Term, Kill
    <3>4. QED
      BY <3>1, <3>2, <3>3
  <2>2. QED
    BY <1>2, <2>1 DEF Stops
<1>8. main' \in Mains /\ term' \in BOOLEAN
  BY <1>1, Types DEF Mains, Select, CancelStart, SetStopping, PreStopEnds, Snapshot, CloseEnds, Exit,
                     StartTimesOut, PreStopTimesOut, Term, Kill
<1>9. TypeOK'
  BY <1>1, <1>4, <1>6, <1>7, <1>8, Types, TypesNext
<1>10. QED
  BY <1>1, <1>4, <1>6, <1>9, TasksStay, Quiet

\* The steps of a task after the preparation: of a background task, of a PRE_STOP
\* task, of a process.
LEMMA TaskSteps ==
  ASSUME TaskIInv, NEW t \in Tasks,
         BackgroundWaits(t) \/ CtxKills(t) \/ (\E ok \in BOOLEAN : TaskEnds(t, ok)) \/ CloseTask(t)
  PROVE  TaskIInv'
<1>1. /\ TypeOK /\ RunsCounted /\ TasksOnce
      /\ UNCHANGED <<srv, prep, mgr, at, waiter, main, term>>
  BY DEF TaskIInv, BackgroundWaits, CtxKills, TaskEnds, CloseTask
<1>2. \A u \in Range(Start) : u \in Tasks
  BY Entries
<1>3. CASE BackgroundWaits(t)
  <2>1. /\ t \in Background /\ Moves(t) /\ task[t].pc = "waiting" /\ UNCHANGED <<stop, faults>>
        /\ task'[t].pc = "over"
    BY <1>1, <1>3, Types DEF BackgroundWaits, Moves, Waits, TaskRecords
  <2>2. /\ task' \in [Tasks -> TaskRecords] /\ failures' \subseteq Aborting
        /\ RunsCounted' /\ TasksOnce' /\ task'[t].runs = 1
        /\ \A u \in Tasks : u # t => task'[u] = task[u]
        /\ failures' \subseteq failures \cup {t}
    BY <1>1, <2>1, TaskMoves
  <2>3. task[t].runs = 1
    BY <1>1, <2>1 DEF RunsCounted
  <2>4. TypeOK'
    BY <1>1, <2>1, <2>2, Types, TypesNext
  <2>5. \A u \in Range(Start) :
          /\ task'[u].pc = task[u].pc \/ (u \in Background /\ task[u].pc = "waiting" /\ task'[u].pc = "over")
          /\ task'[u].runs = task[u].runs
          /\ u \in failures' => u \in failures \/ (u \in Background /\ task[u].pc = "waiting")
    BY <1>2, <2>1, <2>2, <2>3
  <2>6. QED
    BY <1>1, <2>2, <2>4, <2>5, Quiet
<1>4. CASE (\E ok \in BOOLEAN : TaskEnds(t, ok)) \/ CtxKills(t) \/ CloseTask(t)
  <2>1. (\E ok \in BOOLEAN : TaskEnds(t, ok)) \/ CloseTask(t)
    BY <1>4 DEF CtxKills
  <2>2. /\ task' \in [Tasks -> TaskRecords] /\ RunsCounted' /\ TasksOnce'
        /\ \A u \in Tasks : task'[u].pc = task[u].pc /\ task'[u].runs = task[u].runs
    BY <1>1, <2>1, TaskEnded
  <2>3. UNCHANGED <<failures, faults>>
    BY <2>1 DEF TaskEnds, CloseTask
  <2>4. stop' \in Stops
    <3>1. stop \in Stops /\ (UNCHANGED stop \/ stop' = [stop EXCEPT !.todo = @ \ {t}])
      BY <1>1, <2>1, Types DEF TaskEnds, CloseTask
    <3>2. QED
      BY <3>1 DEF Stops
  <2>5. TypeOK'
    BY <1>1, <2>2, <2>3, <2>4, Types, TypesNext
  <2>6. QED
    BY <1>1, <1>2, <2>2, <2>3, <2>5, Quiet
<1>5. QED
  BY <1>3, <1>4

\* The step of the PRE_STOP tasks: of the task that is the current one.
LEMMA PreStopMoves ==
  ASSUME TypeOK, PreStop
  PROVE  /\ main = "prestop" /\ stop.at \in 1..Len(Stop)
         /\ \E t \in Tasks : t = Stop[stop.at] /\ t \notin Range(Start) /\ Moves(t)
  <1>1. main = "prestop" /\ stop.at \in 1..Len(Stop)
    BY Types, Entries DEF PreStop, Stops
  <1>2. Stop[stop.at] \in Tasks /\ Stop[stop.at] \notin Range(Start) /\ Moves(Stop[stop.at])
    BY <1>1, Entries DEF PreStop, Moves
  <1>3. QED
    BY <1>1, <1>2

LEMMA PreStopSteps ==
  ASSUME TaskIInv, PreStop
  PROVE  TaskIInv'
<1>1. /\ TypeOK /\ RunsCounted /\ TasksOnce
      /\ UNCHANGED <<srv, prep, mgr, at, waiter, term>>
      /\ stop \in Stops /\ stop.at \in 1..Len(Stop) /\ Len(Stop) \in Nat
  BY PreStopMoves, Types, Entries DEF TaskIInv, PreStop
<1>2. PICK t \in Tasks : t \notin Range(Start) /\ Moves(t)
  BY <1>1, PreStopMoves
<1>3. /\ task' \in [Tasks -> TaskRecords] /\ failures' \subseteq Aborting /\ faults' \in 0..MaxFaults
      /\ RunsCounted' /\ TasksOnce'
      /\ \A u \in Tasks : u # t => task'[u] = task[u]
      /\ failures' \subseteq failures \cup {t}
  BY <1>1, <1>2, TaskMoves
<1>4. stop' \in Stops
  <2>1. UNCHANGED stop \/ stop' = [stop EXCEPT !.at = stop.at + 1]
    BY <1>1 DEF PreStop, Stops
  <2>2. QED
    BY <1>1, <2>1 DEF Stops
<1>5. main' \in Mains
  BY <1>1, Types DEF PreStop, Mains
<1>6. TypeOK'
  BY <1>1, <1>3, <1>4, <1>5, Types, TypesNext
<1>7. \A u \in Range(Start) : task'[u] = task[u] /\ (u \in failures' => u \in failures)
  BY <1>2, <1>3, Entries
<1>8. QED
  BY <1>1, <1>3, <1>6, <1>7, Quiet

-----------------------------------------------------------------------------
LEMMA InitHolds == Init => TaskIInv
  <1> SUFFICES ASSUME Init PROVE TaskIInv
    OBVIOUS
  <1>1. /\ srv \in [kind : {"plain", "autoStop", "build"}, state : {"STARTING_RUNTIME"},
                    started : {FALSE}, failed : {FALSE}, wg : {0}, done : {FALSE}]
        /\ prep = [p \in Prepares |-> "none"] /\ waiter = "none" /\ at = 1 /\ failures = {}
        /\ task = [t \in Tasks |-> [pc |-> "new", proc |-> "none", ok |-> TRUE, listed |-> FALSE, runs |-> 0]]
    BY DEF Init
  <1>2. TypeOK
    <2>1. srv \in Srvs /\ prep \in [Prepares -> Pcs] /\ task \in [Tasks -> TaskRecords]
      <3>1. srv \in Srvs
        <4>1. PICK k \in {"plain", "autoStop", "build"} :
                srv = [kind |-> k, state |-> "STARTING_RUNTIME",
                       started |-> FALSE, failed |-> FALSE, wg |-> 0, done |-> FALSE]
          BY <1>1
        <4>2. k \in {"plain", "autoStop", "build"} /\ 0 \in 0..2
          BY <4>1
        <4>3. QED
          BY <4>1, <4>2 DEF Srvs
      <3>2. prep \in [Prepares -> Pcs]
        BY <1>1 DEF Pcs
      <3>3. [pc |-> "new", proc |-> "none", ok |-> TRUE, listed |-> FALSE, runs |-> 0] \in TaskRecords
        BY DEF TaskRecords
      <3>4. QED
        BY <1>1, <3>1, <3>2, <3>3
    <2>2. mgr \in Mgrs /\ stop \in Stops /\ main \in Mains /\ at \in 1..Len(Start) + 1
      BY <1>1, Entries DEF Init, Mgrs, Stops, Mains
    <2>3. QED
      <3>1. term = FALSE /\ faults = 0
        BY DEF Init
      <3>2. faults \in 0..MaxFaults
        BY <3>1, TasksAssumption
      <3>3. term \in BOOLEAN
        BY <3>1
      <3>4. QED
        BY <1>1, <2>1, <2>2, <3>2, <3>3, Types
  <1>3. OnePrepare
    BY <1>1 DEF OnePrepare, Inside, Holding
  <1>4. Managed
    BY <1>1 DEF Managed
  <1>5. RunsCounted /\ TasksOnce
    BY <1>1 DEF RunsCounted, TasksOnce
  <1>6. StartOrder
    BY <1>1, Entries DEF StartOrder, Fresh
  <1>7. QED
    BY <1>2, <1>3, <1>4, <1>5, <1>6 DEF TaskIInv

LEMMA StepHolds == TaskIInv /\ [Next]_vars => TaskIInv'
  <1> SUFFICES ASSUME TaskIInv, [Next]_vars PROVE TaskIInv'
    OBVIOUS
  <1>1. CASE UNCHANGED vars
    BY <1>1 DEF vars, TaskIInv, TypeOK, TasksOnce, OnePrepare, Managed, RunsCounted, StartOrder, Fresh, Settled
  <1>2. ASSUME NEW p \in Prepares, Prepare(p) \/ PrepareStep(p)
        PROVE  TaskIInv'
    BY <1>2, PrepareStarts, PrepareSetup, PrepareJoins, PrepareAppends, PrepareEnds, PrepareRuns DEF PrepareStep
  <1>3. CASE Waiter
    BY <1>3, WaiterSteps
  <1>4. CASE Main
    BY <1>4, MainSteps, PreStopSteps, TaskSteps DEF Main
  <1>5. CASE \E t \in Tasks : BackgroundWaits(t) \/ CtxKills(t) \/ \E ok \in BOOLEAN : TaskEnds(t, ok)
    BY <1>5, TaskSteps
  <1>6. CASE StartTimesOut \/ PreStopTimesOut \/ Term \/ Kill
    BY <1>6, MainSteps
  <1>7. QED
    BY <1>1, <1>2, <1>3, <1>4, <1>5, <1>6 DEF Next

LEMMA Inductive == Spec => []TaskIInv
  BY InitHolds, StepHolds, PTL DEF Spec

\* The variables have their types and no task is run twice, whatever is repeated
\* or comes at the same time (startedPrepare, close).
THEOREM TasksHold == Spec => []TaskInv
<1>1. TaskIInv => TaskInv
  BY DEF TaskIInv, TaskInv
<1>2. QED
  BY <1>1, Inductive, PTL

\* RUNNING is said only when every start task is settled: all that is left of
\* the preparation is over when runningWG is down (startWaitAndSetRunning).
THEOREM RunningSettled == Spec => RunningIsReady
<1>1. TaskIInv /\ [Next]_vars =>
        [waiter = "wait" /\ waiter' = "sleep" => \A t \in Range(Start) : Settled(t)]_vars
  <2> SUFFICES ASSUME TaskIInv, [Next]_vars, waiter = "wait", waiter' = "sleep"
               PROVE  \A t \in Range(Start) : Settled(t)
    OBVIOUS
  <2>1. SetRunning
    <3>1. ~UNCHANGED waiter
      OBVIOUS
    <3>2. QED
      BY <3>1 DEF Next, vars, PrepareStep, Prepare, TestStarted, SetStarted, Setup, NewTaskManager, Join, AppendTasks,
             RunTask, RunEnds, RunFails, Leave, SignalDone, Waiter, StopWhenDone, Main, Select, CancelStart,
             SetStopping, PreStop, PreStopEnds, Snapshot, CloseTask, CloseEnds, Exit, BackgroundWaits, CtxKills,
             TaskEnds, StartTimesOut, PreStopTimesOut, Term, Kill
  <2>2. srv.wg = 0 /\ ~srv.failed
    BY <2>1 DEF SetRunning
  <2>3. \A p \in Prepares : prep[p] \notin {"append", "run", "failing"}
    BY <2>2 DEF TaskIInv, OnePrepare, Holding
  <2>4. QED
    BY <2>2, <2>3, Entries DEF TaskIInv, StartOrder
<1>2. QED
  BY <1>1, Inductive, PTL DEF Spec, RunningIsReady

-----------------------------------------------------------------------------
(* The PRE_STOP tasks of a Workspace that was RUNNING. *)

\* What is done stays done.
LEMMA StopDoneStays ==
  ASSUME TypeOK, NEW i \in 1..Len(Stop),
         \A t \in Tasks : task[t].runs = 1 => task'[t].runs = 1,
         stop.off => stop'.off, failures \subseteq failures', StopDone(i)
  PROVE  StopDone(i)'
BY Entries DEF StopDone

\* A step is one of a task, or leaves the tasks and failures alone.
LEMMA TaskCases ==
  ASSUME TaskIInv, Next
  PROVE  \/ \E t \in Tasks : Moves(t)
         \/ \E t \in Tasks : ((\E ok \in BOOLEAN : TaskEnds(t, ok)) \/ CloseTask(t)) /\ UNCHANGED <<failures, faults>>
         \/ UNCHANGED <<task, failures>> /\ (UNCHANGED faults \/ Fault)
<1>1. TypeOK
  BY DEF TaskIInv
<1>2. ASSUME NEW p \in Prepares, RunTask(p)
      PROVE  (\E t \in Tasks : Moves(t)) \/ UNCHANGED <<task, failures, faults>>
  <2>1. at \in 1..Len(Start) /\ prep[p] = "run"
    BY <1>1, <1>2, Types, Entries DEF RunTask
  <2>2. PICK t \in Tasks : t = Start[at]
    BY <2>1, Entries
  <2>3. task[t].pc # "over"
    BY <2>1, <2>2 DEF TaskIInv, StartOrder
  <2>4. QED
    BY <1>2, <2>2, <2>3 DEF RunTask, Moves
<1>3. ASSUME PreStop
      PROVE  \E t \in Tasks : Moves(t)
  BY <1>1, <1>3, PreStopMoves
<1>4. ASSUME NEW t \in Tasks, BackgroundWaits(t)
      PROVE  Moves(t)
  BY <1>4 DEF BackgroundWaits, Moves
<1>5. ASSUME NEW t \in Tasks, (\E ok \in BOOLEAN : TaskEnds(t, ok)) \/ CtxKills(t) \/ CloseTask(t)
      PROVE  ((\E ok \in BOOLEAN : TaskEnds(t, ok)) \/ CloseTask(t)) /\ UNCHANGED <<failures, faults>>
  BY <1>5 DEF CtxKills, TaskEnds, CloseTask
<1>6. ASSUME NEW p \in Prepares, Prepare(p) \/ (PrepareStep(p) /\ ~RunTask(p))
      PROVE  UNCHANGED <<task, failures>> /\ (UNCHANGED faults \/ Fault)
  BY <1>6 DEF PrepareStep, Prepare, TestStarted, SetStarted, Setup, NewTaskManager, Join, AppendTasks,
              RunEnds, RunFails, Leave, SignalDone
<1>7. ASSUME \/ Waiter \/ Select \/ CancelStart \/ SetStopping \/ PreStopEnds \/ Snapshot \/ CloseEnds \/ Exit
             \/ StartTimesOut \/ PreStopTimesOut \/ Term \/ Kill
      PROVE  UNCHANGED <<task, failures, faults>>
  BY <1>7 DEF Waiter, SetRunning, StopWhenDone, Select, CancelStart, SetStopping, PreStopEnds, Snapshot,
              CloseEnds, Exit, StartTimesOut, PreStopTimesOut, Term, Kill
<1>8. QED
  BY <1>2, <1>3, <1>4, <1>5, <1>6, <1>7 DEF Next, Main, PrepareStep

\* Nothing undoes what the tasks have done.
LEMMA TasksMonotone ==
  ASSUME TaskIInv, Next
  PROVE  /\ \A t \in Tasks : task[t].runs = 1 => task'[t].runs = 1
         /\ failures \subseteq failures'
         /\ faults' >= faults
<1>1. /\ TypeOK /\ RunsCounted /\ TasksOnce /\ faults \in Nat
      /\ \A t \in Tasks : task[t].runs \in Nat
  BY Types, TasksAssumption DEF TaskIInv, TaskRecords
<1>2. CASE \E t \in Tasks : Moves(t)
  <2>1. PICK t \in Tasks : Moves(t)
    BY <1>2
  <2>2. /\ task' \in [Tasks -> TaskRecords] /\ TasksOnce'
        /\ \A u \in Tasks : u # t => task'[u] = task[u]
        /\ failures \subseteq failures' /\ faults' >= faults
        /\ task'[t].runs >= task[t].runs
    BY <1>1, <2>1, TaskMoves
  <2>3. task'[t].runs \in Nat /\ task'[t].runs <= 1
    BY <2>2 DEF TasksOnce, TaskRecords
  <2>4. QED
    BY <1>1, <2>2, <2>3
<1>3. CASE \E t \in Tasks : ((\E ok \in BOOLEAN : TaskEnds(t, ok)) \/ CloseTask(t)) /\ UNCHANGED <<failures, faults>>
  BY <1>1, <1>3, TaskEnded
<1>4. CASE UNCHANGED <<task, failures>> /\ (UNCHANGED faults \/ Fault)
  BY <1>1, <1>4 DEF Fault
<1>5. QED
  BY <1>2, <1>3, <1>4, TaskCases

\* What the run is, and the task manager, stay.
LEMMA ManagerStays ==
  ASSUME TypeOK, Next
  PROVE  /\ srv'.kind = srv.kind
         /\ mgr.made => mgr'.made
         /\ mgr.appended => mgr'.appended
<1>1. srv \in Srvs /\ mgr \in Mgrs
  BY Types
<1>2. /\ srv'.kind = srv.kind
      /\ mgr.made => mgr'.made
      /\ mgr.appended => mgr'.appended
  <2>1. CASE \E p \in Prepares : Prepare(p) \/ PrepareStep(p)
    <3>1. PICK p \in Prepares : Prepare(p) \/ PrepareStep(p)
      BY <2>1
    <3>2. CASE NewTaskManager(p) \/ AppendTasks(p)
      BY <1>1, <3>2 DEF Srvs, Mgrs, NewTaskManager, AppendTasks
    <3>3. CASE SetStarted(p) \/ Setup(p) \/ Join(p) \/ Leave(p) \/ RunFails(p) \/ SignalDone(p)
      BY <1>1, <3>3 DEF Srvs, Mgrs, SetStarted, Setup, Join, Leave, RunFails, SignalDone
    <3>4. CASE Prepare(p) \/ TestStarted(p) \/ RunTask(p) \/ RunEnds(p)
      BY <1>1, <3>4 DEF Srvs, Mgrs, Prepare, TestStarted, RunTask, RunEnds
    <3> QED
      BY <3>1, <3>2, <3>3, <3>4 DEF PrepareStep
  <2>2. CASE Waiter
    BY <1>1, <2>2 DEF Srvs, Mgrs, Waiter, SetRunning, StopWhenDone
  <2>3. CASE Main
    BY <1>1, <2>3 DEF Srvs, Mgrs, Main, Select, CancelStart, SetStopping, PreStop, PreStopEnds,
                      Snapshot, CloseTask, CloseEnds, Exit
  <2>4. CASE \/ \E t \in Tasks : \/ BackgroundWaits(t) \/ CtxKills(t)
                                  \/ \E ok \in BOOLEAN : TaskEnds(t, ok)
             \/ StartTimesOut \/ PreStopTimesOut \/ Term \/ Kill
    BY <1>1, <2>4 DEF Srvs, Mgrs, BackgroundWaits, CtxKills, TaskEnds, StartTimesOut,
                      PreStopTimesOut, Term, Kill
  <2> QED
    BY <2>1, <2>2, <2>3, <2>4 DEF Next
<1>3. QED
  BY <1>2

\* Run and Close, and the tasks they run, in their order.
LEMMA MainMoves ==
  ASSUME TypeOK, Next
  PROVE  /\ stop.off => stop'.off
         /\ \/ PreStop
            \/ main = "select" /\ main' = IF mgr.made THEN "cancel" ELSE "grpc"
            \/ main = "cancel" /\ main' = "stopping"
            \/ SetStopping
            \/ main = "prestop" /\ stop.at > Len(Stop) /\ main' = "snapshot"
            \/ main \in {"snapshot", "close", "grpc"} /\ main' \in {"close", "grpc", "exited"}
            \/ main' = "killed"
            \/ UNCHANGED main /\ stop'.at = stop.at
<1>1. stop \in Stops
  BY Types
<1>2. QED
  BY <1>1 DEF Stops, Next, PrepareStep, Prepare, TestStarted, SetStarted, Setup, NewTaskManager, Join, AppendTasks,
              RunTask, RunEnds, RunFails, Leave, SignalDone, Waiter, SetRunning, StopWhenDone, Main, Select,
              CancelStart, SetStopping, PreStop, PreStopEnds, Snapshot, CloseTask, CloseEnds, Exit,
              BackgroundWaits, CtxKills, TaskEnds, StartTimesOut, PreStopTimesOut, Term, Kill

\* The current PRE_STOP task is done when it is passed, and all are when it ends
\* the loop.
LEMMA PreStopDone ==
  ASSUME TaskIInv, Next, StopOrder, PreStop, faults' = 0
  PROVE  /\ main' \in {"prestop", "snapshot"}
         /\ main' = "prestop" => \A i \in 1..stop'.at - 1 : StopDone(i)'
         /\ main' = "snapshot" => \A i \in 1..Len(Stop) : StopDone(i)'
<1>1. /\ TypeOK /\ RunsCounted /\ TasksOnce /\ main = "prestop" /\ stop \in Stops
      /\ Len(Stop) \in Nat /\ faults \in Nat
  BY PreStopMoves, Types, Entries, TasksAssumption DEF TaskIInv
<1>2. PICK n \in 1..Len(Stop), t \in Tasks :
        n = stop.at /\ t = Stop[n] /\ t \notin Range(Start) /\ Moves(t)
  BY <1>1, PreStopMoves
<1>3. /\ task[t].pc # "new" => task'[t].pc \in {"waiting", "over"} /\ task'[t].runs = 1
      /\ task'[t].pc = "over" =>
           /\ task[t].pc \in {"new", "waiting"}
           /\ task[t].pc = "new" => ~task'[t].ok /\ (CtxOff(t) \/ faults' > 0)
           /\ failures' = IF task'[t].ok THEN failures ELSE Publish(t)
      /\ task'[t].pc = "waiting" => task'[t].runs = 1
  BY <1>1, <1>2, TaskMoves
<1>4. /\ \A i \in 1..Len(Stop) : StopDone(i) => StopDone(i)'
      /\ stop.off => stop'.off
  <2>1. /\ \A u \in Tasks : task[u].runs = 1 => task'[u].runs = 1
        /\ failures \subseteq failures'
    BY TasksMonotone
  <2>2. stop.off => stop'.off
    BY <1>1, MainMoves
  <2>3. QED
    BY <1>1, <2>1, <2>2, StopDoneStays
<1>5. \A i \in 1..n - 1 : StopDone(i)'
  <2>1. faults = 0
    BY <1>1, TasksMonotone
  <2>2. \A i \in 1..n - 1 : i \in 1..Len(Stop) /\ StopDone(i)
    BY <1>1, <1>2, <2>1 DEF StopOrder
  <2>3. QED
    BY <1>4, <2>2
<1>6. ASSUME task[t].pc = "new", task'[t].pc = "over"
      PROVE  \A i \in 1..Len(Stop) : StopDone(i)'
  <2>1. CtxOff(t)
    BY <1>3, <1>6
  <2>2. stop.off
    BY <1>2, <2>1 DEF CtxOff, StopOff
  <2>3. QED
    BY <1>4, <2>2 DEF StopDone
<1>7. ASSUME Passed(t)
      PROVE  StopDone(n)'
  <2>1. CASE task[t].pc = "new" /\ task'[t].pc = "over"
    BY <1>2, <1>6, <2>1
  <2>2. CASE ~(task[t].pc = "new" /\ task'[t].pc = "over")
    <3>1. task'[t].runs = 1
      BY <1>3, <1>7, <2>2 DEF Passed
    <3>2. QED
      BY <1>2, <3>1 DEF StopDone
  <2>3. QED
    BY <2>1, <2>2
<1>8. ASSUME Passed(t), Failed(t) \/ FailedAtStart(t)
      PROVE  \A i \in 1..Len(Stop) : StopDone(i)'
  <2>1. CASE task[t].pc = "new" /\ task'[t].pc = "over"
    BY <1>6, <2>1
  <2>2. CASE ~(task[t].pc = "new" /\ task'[t].pc = "over")
    <3>1. t \in Aborting /\ t \notin Background /\ task'[t].pc = "over" /\ ~task'[t].ok
      BY <1>8, <2>2 DEF Passed, Failed, FailedAtStart
    <3>2. t \in failures' \ Background
      BY <1>3, <3>1 DEF Publish
    <3>3. ASSUME NEW i \in 1..Len(Stop)
          PROVE  StopDone(i)'
      <4>1. CASE i < n
        BY <1>1, <1>5, <4>1
      <4>2. CASE i = n
        BY <1>7, <1>8, <4>2
      <4>3. CASE i > n
        <5>1. n \in 1..i - 1 /\ Stop[n] \in failures' \ Background
          BY <1>1, <1>2, <3>2, <4>3
        <5>2. QED
          BY <5>1 DEF StopDone
      <4>4. QED
        BY <1>1, <4>1, <4>2, <4>3
    <3>4. QED
      BY <3>3
  <2>3. QED
    BY <2>1, <2>2
<1>9. /\ stop'.at = IF Passed(t) THEN n + 1 ELSE n
      /\ main' = IF Passed(t) /\ (Failed(t) \/ FailedAtStart(t)) THEN "snapshot" ELSE "prestop"
  BY <1>1, <1>2 DEF PreStop, Stops
<1>10. \A i \in 1..stop'.at - 1 : StopDone(i)'
  <2>1. CASE Passed(t)
    BY <1>1, <1>5, <1>7, <1>9, <2>1
  <2>2. CASE ~Passed(t)
    BY <1>5, <1>9, <2>2
  <2>3. QED
    BY <2>1, <2>2
<1>11. QED
  BY <1>8, <1>9, <1>10

LEMMA StopOrderStays ==
  ASSUME TaskIInv, StopOrder, [Next]_vars
  PROVE  StopOrder'
<1>1. CASE UNCHANGED vars
  BY <1>1 DEF vars, StopOrder, IsBuild, StopDone
<1>2. CASE Next
  <2>1. TypeOK /\ stop \in Stops /\ faults \in Nat /\ Len(Stop) \in Nat /\ main \in Mains
    BY Types, Entries, TasksAssumption DEF TaskIInv
  <2>2. (~IsBuild /\ mgr.made /\ mgr.appended)'
    BY <1>2, <2>1, ManagerStays DEF StopOrder, IsBuild
  <2>3. SUFFICES ASSUME faults' = 0
                 PROVE  /\ main' = "prestop" => \A i \in 1..stop'.at - 1 : StopDone(i)'
                        /\ main' \in {"snapshot", "close", "grpc", "exited"} =>
                             \A i \in 1..Len(Stop) : StopDone(i)'
    BY <2>2 DEF StopOrder
  <2>4. CASE PreStop
    BY <1>2, <2>3, <2>4, PreStopDone
  <2>5. CASE SetStopping
    <3>1. main' = "prestop" /\ stop'.at = 1
      BY <2>1, <2>5 DEF SetStopping, StopOrder, Stops
    <3>2. QED
      BY <3>1
  <2>6. CASE ~PreStop /\ ~SetStopping
    <3>1. /\ main = "prestop" => \A i \in 1..stop.at - 1 : StopDone(i)
          /\ main \in {"snapshot", "close", "grpc", "exited"} => \A i \in 1..Len(Stop) : StopDone(i)
          /\ mgr.made
      BY <1>2, <2>1, <2>3, TasksMonotone DEF StopOrder
    <3>2. \A i \in 1..Len(Stop) : StopDone(i) => StopDone(i)'
      BY <1>2, <2>1, TasksMonotone, MainMoves, StopDoneStays
    <3>3. stop.at \in 1..Len(Stop) + 1
      BY <2>1 DEF Stops
    <3>4. CASE main = "prestop" /\ stop.at > Len(Stop) /\ main' = "snapshot"
      <4>1. \A i \in 1..Len(Stop) : StopDone(i)
        BY <2>1, <3>1, <3>3, <3>4
      <4>2. QED
        BY <3>2, <3>4, <4>1
    <3>5. CASE main \in {"snapshot", "close", "grpc"} /\ main' \in {"close", "grpc", "exited"}
      BY <3>1, <3>2, <3>5
    <3>6. CASE UNCHANGED main /\ stop'.at = stop.at
      <4>1. \A i \in 1..stop.at - 1 : i \in 1..Len(Stop)
        BY <2>1, <3>3
      <4>2. QED
        BY <3>1, <3>2, <3>6, <4>1
    <3>7. CASE main' \in {"cancel", "stopping", "killed"}
      BY <3>7
    <3>8. QED
      BY <1>2, <2>1, <2>6, <3>1, <3>4, <3>5, <3>6, <3>7, MainMoves
  <2>7. QED
    BY <2>4, <2>5, <2>6
<1>3. QED
  BY <1>1, <1>2

\* The agent of a Workspace that was RUNNING does not end by itself before its
\* PRE_STOP tasks were run, whatever told it to end and whatever Prepare was
\* doing: its task manager is there with its tasks, and close goes through them
\* in order (taskManager.close).  A kill by podman stop (shutdown.go:130) is the
\* one end that does not wait for them.
THEOREM PreStopsRun == Spec => PreStopRuns
<1>1. TaskIInv /\ WasRunning => StopOrder
  BY DEF TaskIInv, Managed, WasRunning, StopOrder
<1>2. TaskIInv /\ StopOrder /\ [Next]_vars => StopOrder'
  BY StopOrderStays
<1>3. StopOrder => StopsDone
  BY DEF StopOrder, StopsDone
<1>4. QED
  BY <1>1, <1>2, <1>3, Inductive, PTL DEF Spec, PreStopRuns

-----------------------------------------------------------------------------
(* The terminals: sequences. *)

LEMMA TailItems ==
  ASSUME NEW S, NEW s \in Seq(S), s # <<>>
  PROVE  /\ Len(s) \in Nat \ {0} /\ Head(s) \in S /\ Head(s) = s[1]
         /\ Tail(s) \in Seq(S) /\ Len(Tail(s)) = Len(s) - 1
         /\ \A i \in 1..Len(Tail(s)) : Tail(s)[i] = s[i + 1]
  OBVIOUS

LEMMA AppendItems ==
  ASSUME NEW S, NEW s \in Seq(S), NEW x \in S
  PROVE  /\ Append(s, x) \in Seq(S) /\ Append(s, x) # <<>>
         /\ Len(s) \in Nat /\ Len(Append(s, x)) = Len(s) + 1
         /\ Append(s, x)[Len(s) + 1] = x
         /\ \A i \in 1..Len(s) : Append(s, x)[i] = s[i]
         /\ \A i \in 1..Len(Append(s, x)) : i # Len(s) + 1 => i \in 1..Len(s)
<1>1. /\ Append(s, x) \in Seq(S) /\ Append(s, x) # <<>>
      /\ Len(s) \in Nat /\ Len(Append(s, x)) = Len(s) + 1
      /\ Append(s, x)[Len(s) + 1] = x
      /\ \A i \in 1..Len(s) : Append(s, x)[i] = s[i]
  OBVIOUS
<1>2. \A n \in Nat : \A i \in 1..n + 1 : i # n + 1 => i \in 1..n
  OBVIOUS
<1> QED
  BY <1>1, <1>2

LEMMA AppendHead ==
  ASSUME NEW S, NEW s \in Seq(S), NEW x \in S, s # <<>>
  PROVE  Head(Append(s, x)) = Head(s) /\ Tail(Append(s, x)) = Append(Tail(s), x)
  OBVIOUS

LEMMA OneItem == \A x : <<x>> # <<>> /\ Head(<<x>>) = x /\ Tail(<<x>>) = <<>>
  OBVIOUS

LEMMA NoItems == \A S : <<>> \in Seq(S) /\ Len(<<>>) = 0
  OBVIOUS

LEMMA RisingEmpty == \A lo, hi : Rising(<<>>, lo, hi)
  BY NoItems DEF Rising

LEMMA RisingWiden ==
  ASSUME NEW lo \in Nat, NEW hi \in Nat, NEW top \in Nat, NEW s, Rising(s, lo, hi), hi <= top
  PROVE  Rising(s, lo, top)
<1>1. \A i \in 1..Len(s) : s[i] \in Nat
  BY DEF Rising
<1> QED
  BY <1>1 DEF Rising

LEMMA RisingAppend ==
  ASSUME NEW lo \in Nat, NEW hi \in Nat, NEW c \in Nat, NEW s, Rising(s, lo, hi), lo <= hi, hi < c
  PROVE  Rising(Append(s, c), lo, c)
<1> DEFINE t == Append(s, c)
<1>1. /\ t \in Seq(Nat) /\ Len(s) \in Nat /\ Len(t) = Len(s) + 1 /\ t[Len(s) + 1] = c
      /\ \A i \in 1..Len(s) : t[i] = s[i] /\ s[i] \in Nat
      /\ \A i \in 1..Len(t) : i # Len(s) + 1 => i \in 1..Len(s)
  BY AppendItems DEF Rising
<1> HIDE DEF t
<1>2. ASSUME NEW i \in 1..Len(s)
      PROVE  lo < s[i] /\ s[i] < c
  <2>1. s[i] \in Nat /\ lo < s[i] /\ s[i] <= hi
    BY <1>1 DEF Rising
  <2> QED
    BY <2>1
<1>3. ASSUME NEW i \in 1..Len(t)
      PROVE  lo < t[i] /\ t[i] <= c
  <2>1. CASE i = Len(s) + 1
    BY <2>1, <1>1
  <2>2. CASE i # Len(s) + 1
    <3>1. t[i] = s[i] /\ s[i] \in Nat /\ lo < s[i] /\ s[i] < c
      BY <2>2, <1>1, <1>2
    <3> QED
      BY <3>1
  <2> QED
    BY <2>1, <2>2
<1>4. ASSUME NEW i \in 1..Len(t), NEW j \in 1..Len(t), i < j
      PROVE  t[i] < t[j]
  <2>1. i \in 1..Len(s)
    BY <1>4, <1>1
  <2>2. CASE j = Len(s) + 1
    BY <2>1, <2>2, <1>1, <1>2
  <2>3. CASE j # Len(s) + 1
    BY <2>1, <2>3, <1>1, <1>4 DEF Rising
  <2> QED
    BY <2>2, <2>3
<1> QED
  BY <1>1, <1>3, <1>4 DEF Rising, t

LEMMA RisingTail ==
  ASSUME NEW lo \in Nat, NEW hi \in Nat, NEW s, Rising(s, lo, hi), s # <<>>
  PROVE  /\ Head(s) \in Nat /\ lo < Head(s) /\ Head(s) <= hi
         /\ Rising(Tail(s), Head(s), hi)
<1> DEFINE t == Tail(s)
<1>1. /\ s \in Seq(Nat) /\ Len(s) \in Nat \ {0} /\ Head(s) \in Nat /\ Head(s) = s[1]
      /\ t \in Seq(Nat) /\ Len(t) = Len(s) - 1
      /\ \A i \in 1..Len(t) : t[i] = s[i + 1]
  <2>1. s \in Seq(Nat)
    BY DEF Rising
  <2> QED
    BY <2>1, TailItems
<1> HIDE DEF t
<1>2. \A i \in 1..Len(t) : i + 1 \in 1..Len(s) /\ 1 < i + 1
  BY <1>1
<1>3. 1 \in 1..Len(s)
  BY <1>1
<1>4. lo < Head(s) /\ Head(s) <= hi
  BY <1>1, <1>3 DEF Rising
<1>5. \A i \in 1..Len(t) : Head(s) < t[i] /\ t[i] <= hi
  BY <1>1, <1>2, <1>3 DEF Rising
<1>6. \A i, j \in 1..Len(t) : i < j => t[i] < t[j]
  <2> SUFFICES ASSUME NEW i \in 1..Len(t), NEW j \in 1..Len(t), i < j
               PROVE  t[i] < t[j]
    OBVIOUS
  <2>1. i + 1 < j + 1
    BY <1>1
  <2> QED
    BY <2>1, <1>1, <1>2 DEF Rising
<1> QED
  BY <1>1, <1>4, <1>5, <1>6 DEF Rising, t

LEMMA SinglesTyped ==
  ASSUME NEW s, NEW lo \in Nat, NEW hi \in Nat, Singles(s, lo, hi), NEW i \in 1..Len(s), s[i] # <<Close>>
  PROVE  s[i] \in Seq(Nat) /\ s[i] = <<s[i][1]>> /\ s[i][1] \in Nat /\ lo < s[i][1] /\ s[i][1] <= hi
<1>1. s[i] \in Seq(Nat) /\ Len(s[i]) = 1
  BY DEF Singles
<1>2. s[i] = <<s[i][1]>> /\ s[i][1] \in Nat
  BY <1>1
<1> QED
  BY <1>1, <1>2 DEF Singles

LEMMA SinglesEmpty == \A lo, hi : Singles(<<>>, lo, hi)
  BY NoItems DEF Singles

LEMMA SinglesWiden ==
  ASSUME NEW s, NEW lo \in Nat, NEW hi \in Nat, NEW top \in Nat, Singles(s, lo, hi), hi <= top
  PROVE  Singles(s, lo, top)
<1>1. \A i \in 1..Len(s) : s[i] # <<Close>> => s[i][1] \in Nat
  BY SinglesTyped
<1> QED
  BY <1>1 DEF Singles

LEMMA SinglesClose ==
  ASSUME NEW s, NEW lo \in Nat, NEW hi \in Nat, Singles(s, lo, hi)
  PROVE  Singles(Append(s, <<Close>>), lo, hi)
<1> DEFINE t == Append(s, <<Close>>)
<1>1. /\ t \in Seq(Seq(Nat) \cup {<<Close>>}) /\ Len(s) \in Nat /\ Len(t) = Len(s) + 1
      /\ t[Len(s) + 1] = <<Close>>
      /\ \A i \in 1..Len(s) : t[i] = s[i]
      /\ \A i \in 1..Len(t) : i # Len(s) + 1 => i \in 1..Len(s)
  <2>1. s \in Seq(Seq(Nat) \cup {<<Close>>})
    BY DEF Singles
  <2> QED
    BY <2>1, AppendItems
<1> HIDE DEF t
<1>2. \A i \in 1..Len(t) : t[i] # <<Close>> => i \in 1..Len(s) /\ t[i] = s[i]
  BY <1>1
<1> QED
  BY <1>1, <1>2 DEF Singles, t

LEMMA SinglesAppend ==
  ASSUME NEW s, NEW lo \in Nat, NEW hi \in Nat, NEW c \in Nat, Singles(s, lo, hi), lo <= hi, hi < c
  PROVE  Singles(Append(s, <<c>>), lo, c)
<1> DEFINE t == Append(s, <<c>>)
<1>1. /\ t \in Seq(Seq(Nat) \cup {<<Close>>}) /\ Len(s) \in Nat /\ Len(t) = Len(s) + 1
      /\ t[Len(s) + 1] = <<c>>
      /\ \A i \in 1..Len(s) : t[i] = s[i]
      /\ \A i \in 1..Len(t) : i # Len(s) + 1 => i \in 1..Len(s)
  <2>1. s \in Seq(Seq(Nat) \cup {<<Close>>}) /\ <<c>> \in Seq(Nat)
    BY DEF Singles
  <2> QED
    BY <2>1, AppendItems
<1> HIDE DEF t
<1>2. \A i \in 1..Len(s) : s[i] # <<Close>> => s[i][1] \in Nat /\ lo < s[i][1] /\ s[i][1] < c /\ Len(s[i]) = 1
  <2>1. \A i \in 1..Len(s) : s[i] # <<Close>> => s[i][1] \in Nat /\ lo < s[i][1] /\ s[i][1] <= hi
    BY SinglesTyped
  <2> QED
    BY <2>1 DEF Singles
<1>3. t[Len(s) + 1][1] = c /\ Len(t[Len(s) + 1]) = 1
  BY <1>1
<1>4. ASSUME NEW i \in 1..Len(t), t[i] # <<Close>>
      PROVE  Len(t[i]) = 1 /\ lo < t[i][1] /\ t[i][1] <= c
  <2>1. CASE i = Len(s) + 1
    BY <2>1, <1>3
  <2>2. CASE i # Len(s) + 1
    <3>1. i \in 1..Len(s) /\ t[i] = s[i] /\ s[i] # <<Close>>
      BY <2>2, <1>1, <1>4
    <3>2. s[i][1] \in Nat /\ lo < s[i][1] /\ s[i][1] < c /\ Len(s[i]) = 1
      BY <3>1, <1>2
    <3> QED
      BY <3>1, <3>2
  <2> QED
    BY <2>1, <2>2
<1>5. ASSUME NEW i \in 1..Len(t), NEW j \in 1..Len(t), i < j, t[i] # <<Close>>, t[j] # <<Close>>
      PROVE  t[i][1] < t[j][1]
  <2>1. i \in 1..Len(s)
    BY <1>5, <1>1
  <2>2. CASE j = Len(s) + 1
    BY <2>1, <2>2, <1>1, <1>2, <1>3, <1>5
  <2>3. CASE j # Len(s) + 1
    BY <2>1, <2>3, <1>1, <1>5 DEF Singles
  <2> QED
    BY <2>2, <2>3
<1> QED
  BY <1>1, <1>4, <1>5 DEF Singles, t

LEMMA SinglesTail ==
  ASSUME NEW s, NEW lo \in Nat, NEW hi \in Nat, Singles(s, lo, hi), s # <<>>
  PROVE  \/ Head(s) = <<Close>> /\ Singles(Tail(s), lo, hi)
         \/ \E c \in Nat : /\ Head(s) = <<c>> /\ Head(s) # <<Close>> /\ lo < c /\ c <= hi
                           /\ Singles(Tail(s), c, hi)
<1> DEFINE t == Tail(s)
<1>1. /\ s \in Seq(Seq(Nat) \cup {<<Close>>}) /\ Len(s) \in Nat \ {0} /\ Head(s) = s[1]
      /\ t \in Seq(Seq(Nat) \cup {<<Close>>}) /\ Len(t) = Len(s) - 1
      /\ \A i \in 1..Len(t) : t[i] = s[i + 1]
  <2>1. s \in Seq(Seq(Nat) \cup {<<Close>>})
    BY DEF Singles
  <2> QED
    BY <2>1, TailItems
<1> HIDE DEF t
<1>2. \A i \in 1..Len(t) : i + 1 \in 1..Len(s) /\ 1 < i + 1
  BY <1>1
<1>3. 1 \in 1..Len(s)
  BY <1>1
<1>4. ASSUME NEW i \in 1..Len(t), t[i] # <<Close>>
      PROVE  /\ t[i][1] \in Nat /\ Len(t[i]) = 1 /\ lo < t[i][1] /\ t[i][1] <= hi
             /\ s[1] # <<Close>> => s[1][1] < t[i][1]
  <2>1. t[i] = s[i + 1] /\ i + 1 \in 1..Len(s) /\ 1 < i + 1
    BY <1>1, <1>2
  <2>2. t[i][1] \in Nat /\ lo < t[i][1] /\ t[i][1] <= hi
    BY <2>1, <1>4, SinglesTyped
  <2>3. Len(t[i]) = 1 /\ (s[1] # <<Close>> => s[1][1] < t[i][1])
    BY <2>1, <1>3, <1>4 DEF Singles
  <2> QED
    BY <2>2, <2>3
<1>5. ASSUME NEW i \in 1..Len(t), NEW j \in 1..Len(t), i < j, t[i] # <<Close>>, t[j] # <<Close>>
      PROVE  t[i][1] < t[j][1]
  <2>1. i + 1 < j + 1 /\ i + 1 \in 1..Len(s) /\ j + 1 \in 1..Len(s)
    BY <1>5, <1>1, <1>2
  <2>2. s[i + 1] = t[i] /\ s[j + 1] = t[j]
    BY <1>1
  <2> QED
    BY <2>1, <2>2, <1>5 DEF Singles
<1>6. CASE s[1] = <<Close>>
  <2>1. Singles(t, lo, hi)
    BY <1>1, <1>4, <1>5 DEF Singles
  <2> QED
    BY <2>1, <1>1, <1>6 DEF t
<1>7. CASE s[1] # <<Close>>
  <2>1. s[1] = <<s[1][1]>> /\ s[1][1] \in Nat /\ lo < s[1][1] /\ s[1][1] <= hi
    BY <1>3, <1>7, SinglesTyped
  <2>2. Singles(t, s[1][1], hi)
    BY <1>1, <1>4, <1>5, <1>7 DEF Singles
  <2> QED
    BY <2>1, <2>2, <1>1, <1>7 DEF t
<1> QED
  BY <1>6, <1>7

\* What a client reads after what it has read.
LEMMA ReadNext ==
  ASSUME NEW s, NEW b \in Nat, NEW c \in Nat, b < c, Rising(s, 0, b + 1) \/ OnceTwice(s, b)
  PROVE  Rising(Append(s, c), 0, c + 1) \/ OnceTwice(Append(s, c), c)
<1> DEFINE t == Append(s, c)
<1>1. /\ t \in Seq(Nat) /\ Len(s) \in Nat /\ Len(t) = Len(s) + 1 /\ t[Len(s) + 1] = c
      /\ \A i \in 1..Len(s) : t[i] = s[i] /\ s[i] \in Nat
      /\ \A i \in 1..Len(t) : i # Len(s) + 1 => i \in 1..Len(s)
  <2>1. s \in Seq(Nat)
    BY DEF Rising, OnceTwice
  <2> QED
    BY <2>1, AppendItems
<1> HIDE DEF t
<1>2. CASE OnceTwice(s, b)
  <2>1. PICK n \in 1..Len(s) : \A i, j \in 1..Len(s) :
          i < j => s[i] < s[j] \/ (s[i] = s[j] /\ i = n /\ j = n + 1)
    BY <1>2 DEF OnceTwice
  <2>2. \A i \in 1..Len(s) : s[i] < c
    <3> SUFFICES ASSUME NEW i \in 1..Len(s)
                 PROVE  s[i] < c
      OBVIOUS
    <3>1. s[i] \in Nat /\ s[i] <= b
      BY <1>1, <1>2 DEF OnceTwice
    <3> QED
      BY <3>1
  <2>3. n \in 1..Len(t)
    BY <1>1
  <2>4. ASSUME NEW i \in 1..Len(t)
        PROVE  t[i] <= c
    <3>1. CASE i = Len(s) + 1
      BY <3>1, <1>1
    <3>2. CASE i # Len(s) + 1
      <4>1. t[i] = s[i] /\ s[i] \in Nat /\ s[i] < c
        BY <3>2, <1>1, <2>2
      <4> QED
        BY <4>1
    <3> QED
      BY <3>1, <3>2
  <2>5. ASSUME NEW i \in 1..Len(t), NEW j \in 1..Len(t), i < j
        PROVE  t[i] < t[j] \/ (t[i] = t[j] /\ i = n /\ j = n + 1)
    <3>1. i \in 1..Len(s)
      BY <2>5, <1>1
    <3>2. CASE j = Len(s) + 1
      BY <3>1, <3>2, <1>1, <2>2
    <3>3. CASE j # Len(s) + 1
      BY <3>1, <3>3, <1>1, <2>1, <2>5
    <3> QED
      BY <3>2, <3>3
  <2> QED
    BY <1>1, <2>3, <2>4, <2>5 DEF OnceTwice, t
<1>3. CASE Rising(s, 0, b + 1) /\ b + 1 < c
  <2>1. Rising(t, 0, c)
    BY <1>3, RisingAppend DEF t
  <2> QED
    BY <2>1, RisingWiden DEF t
<1>4. CASE Rising(s, 0, b + 1) /\ c = b + 1
  <2>0. \A i \in 1..Len(s) : s[i] <= c
    BY <1>4 DEF Rising
  <2>1. CASE Len(s) = 0
    <3>1. t \in Seq(Nat) /\ Len(t) = 1 /\ t[1] = c /\ 0 < c
      BY <2>1, <1>1
    <3> QED
      BY <3>1 DEF Rising, t
  <2>2. CASE Len(s) # 0
    <3>1. Len(s) \in 1..Len(t) /\ Len(s) \in 1..Len(s)
      BY <2>2, <1>1
    <3>2. \A i \in 1..Len(t) : t[i] <= c
      BY <1>1, <2>0
    <3>3. ASSUME NEW i \in 1..Len(t), NEW j \in 1..Len(t), i < j
          PROVE  t[i] < t[j] \/ (t[i] = t[j] /\ i = Len(s) /\ j = Len(s) + 1)
      <4>1. i \in 1..Len(s)
        BY <3>3, <1>1
      <4>2. CASE j = Len(s) + 1 /\ i = Len(s)
        BY <4>1, <4>2, <1>1, <2>0
      <4>3. CASE j = Len(s) + 1 /\ i # Len(s)
        <5>1. i < Len(s)
          BY <4>1, <4>3, <1>1
        <5>2. s[i] < s[Len(s)] /\ s[Len(s)] <= c
          BY <5>1, <4>1, <3>1, <2>0, <1>4 DEF Rising
        <5> QED
          BY <5>2, <4>1, <4>3, <1>1, <3>1
      <4>4. CASE j # Len(s) + 1
        BY <4>1, <4>4, <1>1, <1>4, <3>3 DEF Rising
      <4> QED
        BY <4>2, <4>3, <4>4
    <3> QED
      BY <1>1, <3>1, <3>2, <3>3 DEF OnceTwice, t
  <2> QED
    BY <2>1, <2>2
<1> QED
  BY <1>2, <1>3, <1>4

\* One number at most is twice in what a client has read.
LEMMA ReadInOrder ==
  ASSUME NEW s, NEW b \in Nat, Rising(s, 0, b + 1) \/ OnceTwice(s, b)
  PROVE  /\ \A i, j \in 1..Len(s) : i < j => s[i] <= s[j]
         /\ \A i, j \in 1..Len(s) - 1 : s[i] = s[i + 1] /\ s[j] = s[j + 1] => i = j
<1>1. s \in Seq(Nat) /\ Len(s) \in Nat /\ \A i \in 1..Len(s) : s[i] \in Nat
  BY DEF Rising, OnceTwice
<1>2. \A i \in 1..Len(s) - 1 : i \in 1..Len(s) /\ i + 1 \in 1..Len(s) /\ i < i + 1
  BY <1>1
<1>3. CASE Rising(s, 0, b + 1)
  <2>1. \A i, j \in 1..Len(s) : i < j => s[i] < s[j]
    BY <1>3 DEF Rising
  <2>2. \A i \in 1..Len(s) - 1 : s[i] < s[i + 1] /\ s[i] \in Nat
    BY <1>1, <1>2, <2>1
  <2>3. \A i \in 1..Len(s) - 1 : s[i] # s[i + 1]
    BY <2>2, <1>1, <1>2
  <2> QED
    BY <1>1, <2>1, <2>3
<1>4. CASE OnceTwice(s, b)
  <2>1. PICK n \in 1..Len(s) : \A i, j \in 1..Len(s) :
          i < j => s[i] < s[j] \/ (s[i] = s[j] /\ i = n /\ j = n + 1)
    BY <1>4 DEF OnceTwice
  <2>2. \A i \in 1..Len(s) - 1 : s[i] = s[i + 1] => i = n
    BY <1>1, <1>2, <2>1
  <2>3. ASSUME NEW i \in 1..Len(s), NEW j \in 1..Len(s), i < j
        PROVE  s[i] <= s[j]
    <3>1. s[i] < s[j] \/ s[i] = s[j]
      BY <2>1, <2>3
    <3> QED
      BY <3>1, <1>1
  <2> QED
    BY <2>2, <2>3
<1> QED
  BY <1>3, <1>4

-----------------------------------------------------------------------------
(* The terminals: one listener. *)

HandlerRecords ==
  [pc : {"off", "init", "subscribe", "loop", "drain", "ended"},
   subscribed : BOOLEAN, msgCh : Seq(Messages), wire : Seq(Messages)]
ClientRecords == [st : {"off", "open", "closed", "eof", "detached"}, got : Seq(Chunks)]

LEMMA WiderSeq ==
  ASSUME NEW S, NEW T, S \subseteq T, NEW s \in Seq(S)
  PROVE  s \in Seq(T)
  OBVIOUS

LEMMA ChunkNumbers == Chunks \subseteq Nat /\ \A c \in Chunks : c > 0
  BY TerminalAssumption DEF Chunks

LEMMA ChunkSeqs == \A s \in Seq(Chunks) : s \in Seq(Nat)
  BY ChunkNumbers, WiderSeq

LEMMA MessageSeqs == \A s \in Seq(Messages) : s \in Seq(Seq(Nat) \cup {<<Close>>})
<1>1. Messages \subseteq Seq(Nat) \cup {<<Close>>}
  BY ChunkSeqs DEF Messages
<1> QED
  BY <1>1, WiderSeq

LEMMA StreamLater ==
  ASSUME NEW h, NEW c, NEW p \in Nat, NEW q \in Nat, p <= q, ListenerInOrder(h, c, p)
  PROVE  ListenerInOrder(h, c, q)
<1>1. ASSUME StreamInOrder(h, c, p)
      PROVE  StreamInOrder(h, c, q)
  <2>1. PICK b \in 0..p, n \in 0..p :
          /\ b <= n /\ Singles(h.msgCh, n, p)
          /\ \/ /\ Rising(c.got, 0, b + 1) \/ OnceTwice(c.got, b)
                /\ Singles(h.wire, b, n)
             \/ /\ c.got = <<>> /\ h.wire # <<>>
                /\ Rising(Head(h.wire), 0, b + 1)
                /\ Singles(Tail(h.wire), b, n)
    BY <1>1 DEF StreamInOrder
  <2>2. b \in 0..q /\ n \in 0..q /\ n \in Nat
    OBVIOUS
  <2>3. Singles(h.msgCh, n, q)
    BY <2>1, <2>2, SinglesWiden
  <2> QED
    BY <2>1, <2>2, <2>3 DEF StreamInOrder
<1> QED
  BY <1>1 DEF ListenerInOrder

\* ListenSend.
LEMMA StreamSends ==
  ASSUME NEW h \in HandlerRecords, NEW c \in ClientRecords, NEW g, NEW p \in Nat, ListenerInOrder(h, c, p),
         h.pc \in {"loop", "drain"}, c.st = "open", h.msgCh # <<>>, g.pc = h.pc, g.subscribed = h.subscribed,
         g.wire = Append(h.wire, Head(h.msgCh)), g.msgCh = Tail(h.msgCh)
  PROVE  ListenerInOrder(g, c, p)
<1>1. PICK b \in 0..p, n \in 0..p :
        /\ b <= n /\ Singles(h.msgCh, n, p)
        /\ \/ /\ Rising(c.got, 0, b + 1) \/ OnceTwice(c.got, b)
              /\ Singles(h.wire, b, n)
           \/ /\ c.got = <<>> /\ h.wire # <<>>
              /\ Rising(Head(h.wire), 0, b + 1)
              /\ Singles(Tail(h.wire), b, n)
  BY DEF ListenerInOrder, StreamInOrder
<1>2. b \in Nat /\ n \in Nat
  OBVIOUS
<1>3. /\ h.wire \in Seq(Seq(Nat) \cup {<<Close>>}) /\ h.msgCh \in Seq(Seq(Nat) \cup {<<Close>>})
      /\ Head(h.msgCh) \in Seq(Nat) \cup {<<Close>>}
  BY MessageSeqs, TailItems DEF HandlerRecords
<1>4. PICK x \in 0..p :
        /\ n <= x /\ Singles(g.msgCh, x, p)
        /\ \A s : Singles(s, b, n) => Singles(Append(s, Head(h.msgCh)), b, x)
  <2>1. CASE Head(h.msgCh) = <<Close>> /\ Singles(Tail(h.msgCh), n, p)
    BY <2>1, <1>2, SinglesClose
  <2>2. CASE \E x \in Nat : /\ Head(h.msgCh) = <<x>> /\ n < x /\ x <= p
                            /\ Singles(Tail(h.msgCh), x, p)
    <3>1. PICK x \in Nat : /\ Head(h.msgCh) = <<x>> /\ n < x /\ x <= p
                           /\ Singles(Tail(h.msgCh), x, p)
      BY <2>2
    <3>2. \A s : Singles(s, b, n) => Singles(Append(s, <<x>>), b, x)
      BY <3>1, <1>1, <1>2, SinglesAppend
    <3>3. x \in 0..p /\ n <= x
      BY <3>1
    <3> QED
      BY <3>1, <3>2, <3>3
  <2> QED
    BY <2>1, <2>2, <1>1, <1>2, SinglesTail
<1>5. h.wire # <<>> =>
        /\ g.wire # <<>> /\ Head(g.wire) = Head(h.wire)
        /\ Tail(g.wire) = Append(Tail(h.wire), Head(h.msgCh))
  <2> SUFFICES ASSUME h.wire # <<>>
               PROVE  /\ g.wire # <<>> /\ Head(g.wire) = Head(h.wire)
                      /\ Tail(g.wire) = Append(Tail(h.wire), Head(h.msgCh))
    OBVIOUS
  <2>1. PICK w, m, S : w = h.wire /\ m = Head(h.msgCh) /\ S = Seq(Nat) \cup {<<Close>>}
    OBVIOUS
  <2>2. w \in Seq(S) /\ m \in S /\ w # <<>>
    BY <1>3, <2>1
  <2>3. /\ Append(w, m) # <<>> /\ Head(Append(w, m)) = Head(w)
        /\ Tail(Append(w, m)) = Append(Tail(w), m)
    BY <2>2, AppendHead, AppendItems
  <2> QED
    BY <2>1, <2>3
<1>6. b <= x
  BY <1>1, <1>4
<1>7. StreamInOrder(g, c, p)
  BY <1>1, <1>4, <1>5, <1>6 DEF StreamInOrder
<1> QED
  BY <1>7 DEF ListenerInOrder

\* Receive of what is not a Close.
LEMMA StreamReads ==
  ASSUME NEW h \in HandlerRecords, NEW c \in ClientRecords, NEW g, NEW d, NEW p \in Nat,
         ListenerInOrder(h, c, p), c.st = "open", h.wire # <<>>, Head(h.wire) # <<Close>>,
         g.pc = h.pc, g.subscribed = h.subscribed, g.msgCh = h.msgCh, g.wire = Tail(h.wire),
         d.st = "open", d.got = c.got \o Head(h.wire)
  PROVE  ListenerInOrder(g, d, p)
<1>1. PICK b \in 0..p, n \in 0..p :
        /\ b <= n /\ Singles(h.msgCh, n, p)
        /\ \/ /\ Rising(c.got, 0, b + 1) \/ OnceTwice(c.got, b)
              /\ Singles(h.wire, b, n)
           \/ /\ c.got = <<>> /\ h.wire # <<>>
              /\ Rising(Head(h.wire), 0, b + 1)
              /\ Singles(Tail(h.wire), b, n)
  BY DEF ListenerInOrder, StreamInOrder
<1>2. b \in Nat /\ n \in Nat /\ b <= n
  BY <1>1
<1>3. c.got \in Seq(Nat)
  BY ChunkSeqs DEF ClientRecords
<1>7. h.pc \notin {"off", "init"}
  BY DEF ListenerInOrder
<1> SUFFICES StreamInOrder(g, d, p)
  BY <1>7 DEF ListenerInOrder
<1>4. CASE /\ Rising(c.got, 0, b + 1) \/ OnceTwice(c.got, b)
           /\ Singles(h.wire, b, n)
  <2>1. PICK x \in Nat : Head(h.wire) = <<x>> /\ b < x /\ x <= n /\ Singles(Tail(h.wire), x, n)
    BY <1>2, <1>4, SinglesTail
  <2>2. d.got = Append(c.got, x)
    <3>1. PICK s \in Seq(Nat) : s = c.got
      BY <1>3
    <3>2. s \o <<x>> = Append(s, x)
      BY <2>1
    <3> QED
      BY <2>1, <3>1, <3>2
  <2>3. Rising(d.got, 0, x + 1) \/ OnceTwice(d.got, x)
    BY <2>1, <2>2, <1>2, <1>4, ReadNext
  <2>4. x \in 0..p
    BY <2>1, <1>2
  <2> QED
    BY <1>1, <2>1, <2>3, <2>4 DEF StreamInOrder
<1>5. CASE /\ c.got = <<>>
           /\ Rising(Head(h.wire), 0, b + 1)
           /\ Singles(Tail(h.wire), b, n)
  <2>1. Head(h.wire) \in Seq(Nat)
    BY <1>5 DEF Rising
  <2>2. d.got = Head(h.wire)
    BY <2>1, <1>5
  <2> QED
    BY <1>1, <1>2, <1>5, <2>2 DEF StreamInOrder
<1> QED
  BY <1>1, <1>4, <1>5

\* PublishMsg, of a chunk or of a Close.
LEMMA StreamPublished ==
  ASSUME NEW h \in HandlerRecords, NEW c \in ClientRecords, NEW g, NEW p \in Nat, NEW q \in Nat, NEW m,
         ListenerInOrder(h, c, p), h.subscribed, p <= q,
         \/ m = <<Close>>
         \/ m = <<q>> /\ p < q,
         g.pc = h.pc, g.subscribed = h.subscribed, g.msgCh = Offer(h.msgCh, m), g.wire = h.wire
  PROVE  ListenerInOrder(g, c, q)
<1>1. ASSUME StreamInOrder(h, c, p)
      PROVE  StreamInOrder(g, c, q)
  <2>1. PICK b \in 0..p, n \in 0..p :
          /\ b <= n /\ Singles(h.msgCh, n, p)
          /\ \/ /\ Rising(c.got, 0, b + 1) \/ OnceTwice(c.got, b)
                /\ Singles(h.wire, b, n)
             \/ /\ c.got = <<>> /\ h.wire # <<>>
                /\ Rising(Head(h.wire), 0, b + 1)
                /\ Singles(Tail(h.wire), b, n)
    BY <1>1 DEF StreamInOrder
  <2>2. b \in 0..q /\ n \in 0..q /\ n \in Nat /\ n <= p
    OBVIOUS
  <2>3. Singles(h.msgCh, n, q)
    BY <2>1, <2>2, SinglesWiden
  <2>4. Singles(Append(h.msgCh, m), n, q)
    BY <2>1, <2>2, <2>3, SinglesClose, SinglesAppend
  <2>5. Singles(g.msgCh, n, q)
    BY <2>3, <2>4 DEF Offer
  <2> QED
    BY <2>1, <2>2, <2>5 DEF StreamInOrder
<1>2. h.pc \notin {"off", "init", "subscribe"}
  BY DEF ListenerInOrder
<1> QED
  BY <1>1, <1>2 DEF ListenerInOrder

\* attachTerminal.
LEMMA StreamStarts ==
  ASSUME NEW h, NEW c, NEW g, NEW d, NEW p \in Nat, ListenerInOrder(h, c, p), c.st = "off",
         d.st = "open", d.got = c.got, g.pc = "init", g.subscribed = h.subscribed,
         g.msgCh = h.msgCh, g.wire = h.wire
  PROVE  ListenerInOrder(g, d, p)
<1>1. d.got = <<>> /\ g.wire = <<>> /\ g.msgCh = <<>> /\ ~g.subscribed
  BY DEF ListenerInOrder
<1>2. 0 \in 0..p /\ 0 <= 0
  OBVIOUS
<1>3. StreamInOrder(g, d, p)
  BY <1>1, <1>2, RisingEmpty, SinglesEmpty DEF StreamInOrder
<1> QED
  BY <1>1, <1>3 DEF ListenerInOrder

\* sendInitListenMsg, with a replay buffer that ends with the chunk "last".
LEMMA StreamReplays ==
  ASSUME NEW h, NEW c, NEW g, NEW p \in Nat, NEW last \in Nat, NEW buf, ListenerInOrder(h, c, p),
         h.pc = "init", g.pc = "subscribe", g.subscribed = h.subscribed, g.msgCh = h.msgCh,
         g.wire = IF buf = <<>> \/ c.st # "open" THEN h.wire ELSE <<buf>>,
         Rising(buf, 0, last), last <= p + 1
  PROVE  ListenerInOrder(g, c, p)
<1>1. c.got = <<>> /\ h.wire = <<>> /\ g.msgCh = <<>> /\ ~g.subscribed /\ c.st # "off"
  BY DEF ListenerInOrder
<1>2. ASSUME c.st = "open", buf = <<>>
      PROVE  StreamInOrder(g, c, p)
  <2>1. 0 \in 0..p /\ 0 <= 0 /\ g.wire = <<>>
    BY <1>1, <1>2
  <2> QED
    BY <1>1, <2>1, RisingEmpty, SinglesEmpty DEF StreamInOrder
<1>3. ASSUME c.st = "open", buf # <<>>
      PROVE  StreamInOrder(g, c, p)
  <2>1. g.wire = <<buf>>
    BY <1>3
  <2>2. g.wire # <<>> /\ Head(g.wire) = buf /\ Tail(g.wire) = <<>>
    BY <2>1, OneItem
  <2>3. Rising(buf, 0, p + 1)
    BY RisingWiden
  <2>4. p \in 0..p /\ p <= p
    OBVIOUS
  <2> QED
    BY <1>1, <2>2, <2>3, <2>4, SinglesEmpty DEF StreamInOrder
<1> QED
  BY <1>1, <1>2, <1>3 DEF ListenerInOrder

\* Everything that leaves the two channels and what was read as they are, or ends them.
LEMMA StreamGoesOn ==
  ASSUME NEW h, NEW c, NEW g, NEW p \in Nat, ListenerInOrder(h, c, p),
         g.pc \in {"subscribe", "loop", "drain", "ended"}, h.pc # "off",
         g.pc = "subscribe" => h.pc = "subscribe" /\ ~g.subscribed,
         g.wire = h.wire,
         \/ g.msgCh = h.msgCh
         \/ g.msgCh = <<>>
  PROVE  ListenerInOrder(g, c, p)
<1>1. ASSUME StreamInOrder(h, c, p)
      PROVE  StreamInOrder(g, c, p)
  BY <1>1, SinglesEmpty DEF StreamInOrder
<1> QED
  BY <1>1 DEF ListenerInOrder

\* The client has let the stream go.
LEMMA StreamOver ==
  ASSUME NEW h, NEW c, NEW g, NEW d, NEW p, ListenerInOrder(h, c, p), c.st = "open",
         d.st \in {"closed", "eof", "detached"}, d.got = <<>>,
         g.pc = h.pc, g.subscribed = h.subscribed, g.msgCh = h.msgCh, g.wire = <<>>
  PROVE  ListenerInOrder(g, d, p)
BY DEF ListenerInOrder

-----------------------------------------------------------------------------
(* The terminals: types. *)

ShellRecords == [st : {"none", "up", "dead"}, exited : BOOLEAN, made : Nat, pty : Seq(Chunks)]
TerminalRecords ==
  [create : {"run", "add", "done"}, listed : BOOLEAN, removed : BOOLEAN,
   closeCh : BOOLEAN, isClosed : BOOLEAN, stdoutCh : Seq(Chunks),
   reader : {"off", "on"}, sender : {"off", "on", "publish"},
   chunk : Chunks \cup {NoChunk}, buf : Seq(Chunks),
   waiter : {"off", "wait", "publish", "close", "delete"}]
StdinRecords ==
  [ch : 0..InBuffer, loop : {"off", "on", "ended"}, write : {"off", "send"}, writes : 0..MaxWrites]
Bounded(h) == Len(h.msgCh) <= SubBuffer /\ Len(h.wire) <= Window

LEMMA TerminalTypes ==
  TerminalTypeOK <=>
    /\ shell \in ShellRecords /\ terminal \in TerminalRecords
    /\ Len(terminal.stdoutCh) <= OutBuffer /\ Len(terminal.buf) <= BufSize
    /\ stdin \in StdinRecords
    /\ handler \in [Listeners -> HandlerRecords] /\ client \in [Listeners -> ClientRecords]
    /\ \A l \in Listeners : Bounded(handler[l])
BY DEF TerminalTypeOK, ShellRecords, TerminalRecords, StdinRecords, HandlerRecords, ClientRecords,
       Bounded

LEMMA TerminalTypesNext ==
  TerminalTypeOK' <=>
    /\ shell' \in ShellRecords /\ terminal' \in TerminalRecords
    /\ Len(terminal'.stdoutCh) <= OutBuffer /\ Len(terminal'.buf) <= BufSize
    /\ stdin' \in StdinRecords
    /\ handler' \in [Listeners -> HandlerRecords] /\ client' \in [Listeners -> ClientRecords]
    /\ \A l \in Listeners : Bounded(handler'[l])
BY DEF TerminalTypeOK, ShellRecords, TerminalRecords, StdinRecords, HandlerRecords, ClientRecords,
       Bounded

\* Trimmed keeps the newest part.
LEMMA TrimmedItems ==
  ASSUME NEW S, NEW s \in Seq(S), s # <<>>
  PROVE  /\ Trimmed(s) \in Seq(S) /\ Trimmed(s) # <<>> /\ Len(Trimmed(s)) \in 1..BufSize
         /\ \E k \in 0..Len(s) - 1 : /\ Len(Trimmed(s)) = Len(s) - k
                                     /\ \A i \in 1..Len(Trimmed(s)) : Trimmed(s)[i] = s[k + i]
<1>1. Len(s) \in Nat \ {0} /\ BufSize \in Nat \ {0}
  BY TerminalAssumption
<1>2. CASE Len(s) <= BufSize
  <2>1. Trimmed(s) = s
    BY <1>1, <1>2 DEF Trimmed
  <2>2. 0 \in 0..Len(s) - 1 /\ Len(s) = Len(s) - 0 /\ \A i \in 1..Len(s) : s[i] = s[0 + i]
    BY <1>1
  <2>3. Len(s) \in 1..BufSize
    BY <1>1, <1>2
  <2> QED
    BY <2>1, <2>2, <2>3
<1>3. CASE Len(s) > BufSize
  <2> DEFINE k == Len(s) - BufSize
             t == SubSeq(s, k + 1, Len(s))
  <2>1. Trimmed(s) = t
    BY <1>1, <1>3 DEF Trimmed
  <2>2. k \in 0..Len(s) - 1 /\ k + 1 \in 1..Len(s) /\ Len(s) - k = BufSize
    BY <1>1, <1>3
  <2>3. t \in Seq(S) /\ Len(t) = BufSize /\ \A i \in 1..Len(t) : t[i] = s[k + i]
    BY <1>1, <1>3
  <2> HIDE DEF t
  <2>4. Len(t) \in 1..BufSize /\ Len(t) # 0
    BY <1>1, <2>3
  <2>5. Len(t) = Len(s) - k
    BY <2>2, <2>3
  <2>6. t # <<>>
    BY <2>4
  <2> HIDE DEF k
  <2> QED
    BY <2>1, <2>2, <2>3, <2>4, <2>5, <2>6
<1> QED
  BY <1>1, <1>2, <1>3

\* What a step of a listener makes of its records.
LEMMA ListenerTypes ==
  ASSUME TerminalTypeOK, NEW l \in Listeners,
         Attach(l) \/ Listening(l) \/ Receive(l) \/ ReceiveEnd(l) \/ Detach(l)
  PROVE  \E h \in HandlerRecords, c \in ClientRecords :
           /\ handler' = [handler EXCEPT ![l] = h] /\ Bounded(h)
           /\ client' = [client EXCEPT ![l] = c]
<1>1. /\ handler \in [Listeners -> HandlerRecords] /\ client \in [Listeners -> ClientRecords]
      /\ handler[l] \in HandlerRecords /\ client[l] \in ClientRecords /\ Bounded(handler[l])
      /\ terminal.buf \in Seq(Chunks)
  BY TerminalTypes DEF TerminalRecords
<1>2. SubBuffer \in Nat \ {0} /\ Window \in Nat \ {0}
  BY TerminalAssumption
<1>3. /\ handler[l].msgCh \in Seq(Messages) /\ handler[l].wire \in Seq(Messages)
      /\ client[l].got \in Seq(Chunks)
      /\ Len(handler[l].msgCh) <= SubBuffer /\ Len(handler[l].wire) <= Window
      /\ <<>> \in Seq(Chunks) /\ <<>> \in Seq(Messages) /\ Len(<<>>) = 0
  BY <1>1, NoItems DEF HandlerRecords, ClientRecords, Bounded
<1>4. client = [client EXCEPT ![l] = client[l]] /\ handler = [handler EXCEPT ![l] = handler[l]]
  BY <1>1
<1>5. CASE Attach(l)
  <2>1. [client[l] EXCEPT !.st = "open"] \in ClientRecords
    BY <1>1 DEF ClientRecords
  <2>2. [handler[l] EXCEPT !.pc = "init"] \in HandlerRecords /\ Bounded([handler[l] EXCEPT !.pc = "init"])
    BY <1>1 DEF HandlerRecords, Bounded
  <2> QED
    BY <1>5, <2>1, <2>2 DEF Attach
<1>6. CASE SendInitListenMsg(l)
  <2>1. PICK w : w = IF terminal.buf = <<>> \/ client[l].st # "open" THEN handler[l].wire ELSE <<terminal.buf>>
    OBVIOUS
  <2>2. w \in Seq(Messages) /\ Len(w) <= Window
    <3>1. terminal.buf \in Messages
      BY <1>1 DEF Messages
    <3>2. <<terminal.buf>> \in Seq(Messages) /\ Len(<<terminal.buf>>) = 1
      BY <3>1
    <3> QED
      BY <1>2, <1>3, <2>1, <3>2
  <2>3. handler' = [handler EXCEPT ![l] = [handler[l] EXCEPT !.pc = "subscribe", !.wire = w]]
    BY <1>1, <1>6, <2>1 DEF SendInitListenMsg, HandlerRecords
  <2>4. PICK h : h = [handler[l] EXCEPT !.pc = "subscribe", !.wire = w]
    OBVIOUS
  <2>5. h \in HandlerRecords /\ h.msgCh = handler[l].msgCh /\ h.wire = w
    BY <1>1, <2>2, <2>4 DEF HandlerRecords
  <2> QED
    BY <1>1, <1>3, <1>4, <1>6, <2>2, <2>3, <2>4, <2>5 DEF SendInitListenMsg, Bounded
<1>7. CASE Subscribe(l)
  <2>1. PICK h : h = [handler[l] EXCEPT !.pc = "loop", !.subscribed = TRUE]
    OBVIOUS
  <2>2. h \in HandlerRecords /\ Bounded(h)
    BY <1>1, <2>1 DEF HandlerRecords, Bounded
  <2>3. handler' = [handler EXCEPT ![l] = h]
    BY <1>1, <1>7, <2>1 DEF Subscribe, HandlerRecords
  <2> QED
    BY <1>1, <1>4, <1>7, <2>2, <2>3 DEF Subscribe
<1>8. CASE ListenSend(l)
  <2>1. PICK w, t : w = Append(handler[l].wire, Head(handler[l].msgCh)) /\ t = Tail(handler[l].msgCh)
    OBVIOUS
  <2>2. /\ w \in Seq(Messages) /\ t \in Seq(Messages)
        /\ Len(w) <= Window /\ Len(t) <= SubBuffer
    <3>1. handler[l].msgCh # <<>> /\ Len(handler[l].wire) < Window
      BY <1>8 DEF ListenSend
    <3>2. /\ Head(handler[l].msgCh) \in Messages /\ t \in Seq(Messages)
          /\ Len(t) = Len(handler[l].msgCh) - 1 /\ Len(handler[l].msgCh) \in Nat
      BY <1>3, <2>1, <3>1, TailItems
    <3>3. w \in Seq(Messages) /\ Len(w) = Len(handler[l].wire) + 1 /\ Len(handler[l].wire) \in Nat
      BY <1>3, <2>1, <3>2, AppendItems
    <3> QED
      BY <1>2, <1>3, <3>1, <3>2, <3>3
  <2>3. PICK h : h = [handler[l] EXCEPT !.wire = w, !.msgCh = t]
    OBVIOUS
  <2>4. h \in HandlerRecords /\ h.wire = w /\ h.msgCh = t
    BY <1>1, <2>2, <2>3 DEF HandlerRecords
  <2>5. handler' = [handler EXCEPT ![l] = h]
    BY <1>1, <1>8, <2>1, <2>3 DEF ListenSend, HandlerRecords
  <2> QED
    BY <1>1, <1>4, <1>8, <2>2, <2>4, <2>5 DEF ListenSend, Bounded
<1>9. CASE ListenDone(l)
  <2>1. [handler[l] EXCEPT !.pc = "drain"] \in HandlerRecords /\ Bounded([handler[l] EXCEPT !.pc = "drain"])
    BY <1>1 DEF HandlerRecords, Bounded
  <2> QED
    BY <1>1, <1>4, <1>9, <2>1 DEF ListenDone
<1>10. CASE DrainEnds(l) \/ ListenCanceled(l)
  <2>1. Over(l) \in HandlerRecords /\ Over(l).msgCh = <<>> /\ Over(l).wire = handler[l].wire
    BY <1>1, <1>3 DEF Over, HandlerRecords
  <2>2. Bounded(Over(l))
    BY <1>2, <1>3, <2>1 DEF Bounded
  <2> QED
    BY <1>1, <1>4, <1>10, <2>1, <2>2 DEF DrainEnds, ListenCanceled
<1>11. CASE Receive(l)
  <2>1. PICK m : m = Head(handler[l].wire)
    OBVIOUS
  <2>2. /\ m \in Messages /\ Tail(handler[l].wire) \in Seq(Messages)
        /\ Len(Tail(handler[l].wire)) <= Window
    <3>1. handler[l].wire # <<>>
      BY <1>11 DEF Receive
    <3> QED
      BY <1>2, <1>3, <2>1, <3>1, TailItems
  <2>3. CASE m = <<Close>>
    <3>1. Ended("closed") \in ClientRecords
      BY <1>3 DEF Ended, ClientRecords
    <3>2. PICK h : h = [handler[l] EXCEPT !.wire = <<>>]
      OBVIOUS
    <3>3. h \in HandlerRecords /\ h.wire = <<>> /\ h.msgCh = handler[l].msgCh
      BY <1>1, <1>3, <3>2 DEF HandlerRecords
    <3>4. Bounded(h)
      BY <1>2, <1>3, <3>3 DEF Bounded
    <3>5. handler' = [handler EXCEPT ![l] = h] /\ client' = [client EXCEPT ![l] = Ended("closed")]
      BY <1>11, <2>1, <2>3, <3>2 DEF Receive
    <3> QED
      BY <3>1, <3>3, <3>4, <3>5
  <2>4. CASE m # <<Close>>
    <3>1. client[l].got \o m \in Seq(Chunks)
      <4>1. m \in Seq(Chunks)
        BY <2>2, <2>4 DEF Messages
      <4> QED
        BY <1>3, <4>1
    <3>2. PICK c : c = [client[l] EXCEPT !.got = client[l].got \o m]
      OBVIOUS
    <3>3. c \in ClientRecords
      BY <1>1, <3>1, <3>2 DEF ClientRecords
    <3>4. PICK h : h = [handler[l] EXCEPT !.wire = Tail(handler[l].wire)]
      OBVIOUS
    <3>5. h \in HandlerRecords /\ h.wire = Tail(handler[l].wire) /\ h.msgCh = handler[l].msgCh
      BY <1>1, <2>2, <3>4 DEF HandlerRecords
    <3>6. Bounded(h)
      BY <1>3, <2>2, <3>5 DEF Bounded
    <3>7. handler' = [handler EXCEPT ![l] = h] /\ client' = [client EXCEPT ![l] = c]
      BY <1>11, <2>1, <2>4, <3>2, <3>4 DEF Receive
    <3> QED
      BY <3>3, <3>5, <3>6, <3>7
  <2> QED
    BY <2>3, <2>4
<1>12. CASE ReceiveEnd(l)
  <2>1. Ended("eof") \in ClientRecords
    BY <1>3 DEF Ended, ClientRecords
  <2> QED
    BY <1>1, <1>4, <1>12, <2>1 DEF ReceiveEnd
<1>13. CASE Detach(l)
  <2>1. Ended("detached") \in ClientRecords
    BY <1>3 DEF Ended, ClientRecords
  <2>2. PICK h : h = [handler[l] EXCEPT !.wire = <<>>]
    OBVIOUS
  <2>3. h \in HandlerRecords /\ h.wire = <<>> /\ h.msgCh = handler[l].msgCh
    BY <1>1, <1>3, <2>2 DEF HandlerRecords
  <2>4. Bounded(h)
    BY <1>2, <1>3, <2>3 DEF Bounded
  <2>5. handler' = [handler EXCEPT ![l] = h] /\ client' = [client EXCEPT ![l] = Ended("detached")]
    BY <1>13, <2>2 DEF Detach
  <2> QED
    BY <2>1, <2>3, <2>4, <2>5
<1> QED
  BY <1>5, <1>6, <1>7, <1>8, <1>9, <1>10, <1>11, <1>12, <1>13 DEF Listening

\* The chunk that is about to be published is the newest of the replay buffer.
LEMMA ChunkTyped ==
  ASSUME TerminalTypeOK, PipeInOrder
  PROVE  /\ Newest \in Nat
         /\ terminal.buf # <<>> => Newest \in Chunks
         /\ terminal.sender = "publish" => terminal.chunk \in Chunks
<1>1. terminal.buf \in Seq(Chunks)
  BY TerminalTypes DEF TerminalRecords
<1>2. terminal.buf # <<>> => Newest \in Chunks
  <2>1. ASSUME terminal.buf # <<>>
        PROVE  Len(terminal.buf) \in 1..Len(terminal.buf)
    BY <1>1, <2>1, TailItems
  <2> QED
    BY <1>1, <2>1 DEF Newest
<1>3. Newest \in Nat
  BY <1>2, ChunkNumbers DEF Newest
<1> QED
  BY <1>2, <1>3 DEF PipeInOrder

LEMMA TerminalTypesKept ==
  ASSUME TerminalTypeOK, PipeInOrder, [TerminalNext]_terminalVars
  PROVE  TerminalTypeOK'
<1>1. /\ shell \in ShellRecords /\ terminal \in TerminalRecords
      /\ Len(terminal.stdoutCh) <= OutBuffer /\ Len(terminal.buf) <= BufSize
      /\ stdin \in StdinRecords
      /\ handler \in [Listeners -> HandlerRecords] /\ client \in [Listeners -> ClientRecords]
      /\ \A l \in Listeners : Bounded(handler[l])
  BY TerminalTypes
<1>2. /\ terminal.stdoutCh \in Seq(Chunks) /\ terminal.buf \in Seq(Chunks)
      /\ shell.pty \in Seq(Chunks) /\ shell.made \in Nat /\ <<>> \in Seq(Chunks)
      /\ Len(<<>>) = 0
  BY <1>1, NoItems DEF ShellRecords, TerminalRecords
<1>3. /\ SubBuffer \in Nat \ {0} /\ OutBuffer \in Nat \ {0} /\ InBuffer \in Nat \ {0}
      /\ BufSize \in Nat \ {0} /\ Window \in Nat \ {0} /\ MaxChunks \in Nat /\ MaxWrites \in Nat
  BY TerminalAssumption
<1>4. CASE Produce
  <2>1. shell.made + 1 \in Chunks
    BY <1>1, <1>2, <1>3, <1>4 DEF Produce, Chunks
  <2>2. Append(shell.pty, shell.made + 1) \in Seq(Chunks)
    BY <1>2, <2>1, AppendItems
  <2>3. shell.made + 1 \in Nat
    BY <1>2
  <2>4. shell' \in ShellRecords
    BY <1>1, <1>4, <2>2, <2>3 DEF Produce, ShellRecords
  <2> QED
    BY <1>1, <1>4, <2>4, TerminalTypesNext DEF Produce
<1>5. CASE ShellExits
  <2>1. shell' \in ShellRecords
    BY <1>1, <1>5 DEF ShellExits, ShellRecords
  <2> QED
    BY <1>1, <1>5, <2>1, TerminalTypesNext DEF ShellExits
<1>6. CASE RunTerminal
  <2>1. shell' \in ShellRecords
    BY <1>1, <1>6 DEF RunTerminal, ShellRecords
  <2>2. terminal' \in TerminalRecords /\ terminal'.stdoutCh = terminal.stdoutCh /\ terminal'.buf = terminal.buf
    BY <1>1, <1>6 DEF RunTerminal, TerminalRecords
  <2>3. stdin' \in StdinRecords
    BY <1>1, <1>6 DEF RunTerminal, StdinRecords
  <2> QED
    BY <1>1, <1>6, <2>1, <2>2, <2>3, TerminalTypesNext DEF RunTerminal
<1>7. CASE AddTerminal \/ RemoveTerminal \/ KillAndClose \/ WaitEnds \/ DeleteTerminal
  <2>1. terminal' \in TerminalRecords /\ terminal'.stdoutCh = terminal.stdoutCh /\ terminal'.buf = terminal.buf
    <3>1. CASE AddTerminal \/ RemoveTerminal
      BY <1>1, <3>1 DEF AddTerminal, RemoveTerminal, TerminalRecords
    <3>2. CASE KillAndClose \/ WaitEnds
      BY <1>1, <3>2 DEF KillAndClose, WaitEnds, TerminalRecords
    <3>3. CASE DeleteTerminal
      BY <1>1, <3>3 DEF DeleteTerminal, TerminalRecords
    <3> QED
      BY <1>7, <3>1, <3>2, <3>3
  <2>2. UNCHANGED <<shell, stdin, handler, client>>
    BY <1>7 DEF AddTerminal, RemoveTerminal, KillAndClose, WaitEnds, DeleteTerminal
  <2> QED
    BY <1>1, <2>1, <2>2, TerminalTypesNext
<1>8. CASE ReadPty
  <2>1. Head(shell.pty) \in Chunks /\ Tail(shell.pty) \in Seq(Chunks)
    BY <1>2, <1>8, TailItems DEF ReadPty
  <2>2. /\ Append(terminal.stdoutCh, Head(shell.pty)) \in Seq(Chunks)
        /\ Len(Append(terminal.stdoutCh, Head(shell.pty))) <= OutBuffer
    <3>1. Len(terminal.stdoutCh) < OutBuffer
      BY <1>8 DEF ReadPty
    <3> QED
      BY <1>2, <1>3, <2>1, <3>1, AppendItems
  <2>3. shell' \in ShellRecords
    BY <1>1, <1>8, <2>1 DEF ReadPty, ShellRecords
  <2>4. /\ terminal' \in TerminalRecords /\ terminal'.buf = terminal.buf
        /\ terminal'.stdoutCh = Append(terminal.stdoutCh, Head(shell.pty))
    BY <1>1, <1>8, <2>2 DEF ReadPty, TerminalRecords
  <2> QED
    BY <1>1, <1>8, <2>2, <2>3, <2>4, TerminalTypesNext DEF ReadPty
<1>9. CASE ReadPtyErr
  <2>1. shell' \in ShellRecords
    BY <1>1, <1>2, <1>9 DEF ReadPtyErr, ShellRecords
  <2>2. terminal' \in TerminalRecords /\ terminal'.stdoutCh = terminal.stdoutCh /\ terminal'.buf = terminal.buf
    BY <1>1, <1>9 DEF ReadPtyErr, TerminalRecords
  <2> QED
    BY <1>1, <1>9, <2>1, <2>2, TerminalTypesNext DEF ReadPtyErr
<1>10. CASE SetBuf
  <2>1. /\ Head(terminal.stdoutCh) \in Chunks /\ Tail(terminal.stdoutCh) \in Seq(Chunks)
        /\ Len(Tail(terminal.stdoutCh)) <= OutBuffer
    <3>1. terminal.stdoutCh # <<>>
      BY <1>10 DEF SetBuf
    <3> QED
      BY <1>1, <1>2, <1>3, <3>1, TailItems
  <2>2. PICK t : t = Append(terminal.buf, Head(terminal.stdoutCh))
    OBVIOUS
  <2>3. t \in Seq(Chunks) /\ t # <<>>
    BY <1>2, <2>1, <2>2, AppendItems
  <2>4. Trimmed(t) \in Seq(Chunks) /\ Len(Trimmed(t)) <= BufSize
    BY <2>3, TrimmedItems
  <2>5. terminal' = [terminal EXCEPT !.sender = "publish", !.chunk = Head(terminal.stdoutCh),
                       !.stdoutCh = Tail(terminal.stdoutCh), !.buf = Trimmed(t)]
    BY <1>1, <1>10, <2>2 DEF SetBuf, TerminalRecords
  <2>6. /\ terminal' \in TerminalRecords /\ terminal'.buf = Trimmed(t)
        /\ terminal'.stdoutCh = Tail(terminal.stdoutCh)
    BY <1>1, <2>1, <2>4, <2>5 DEF TerminalRecords
  <2> QED
    BY <1>1, <1>10, <2>1, <2>4, <2>6, TerminalTypesNext DEF SetBuf
<1>11. CASE PublishStdout \/ PublishClose
  <2>1. terminal' \in TerminalRecords /\ terminal'.stdoutCh = terminal.stdoutCh /\ terminal'.buf = terminal.buf
    BY <1>1, <1>11 DEF PublishStdout, PublishClose, TerminalRecords
  <2>2. shell' \in ShellRecords
    BY <1>1, <1>11 DEF PublishStdout, PublishClose, ShellRecords
  <2>3. UNCHANGED <<stdin, client>>
    BY <1>11 DEF PublishStdout, PublishClose
  <2>4. PICK m \in Messages : PublishMsg(m)
    <3>1. ASSUME PublishStdout
          PROVE  <<terminal.chunk>> \in Messages
      <4>1. terminal.chunk \in Chunks
        BY <1>1, <3>1, ChunkTyped DEF PublishStdout
      <4> QED
        BY <4>1 DEF Messages
    <3>2. <<Close>> \in Messages
      BY DEF Messages
    <3> QED
      BY <1>11, <3>1, <3>2 DEF PublishStdout, PublishClose
  <2>5. \A l \in Listeners : Offer(handler[l].msgCh, m) \in Seq(Messages) /\ Len(Offer(handler[l].msgCh, m)) <= SubBuffer
    <3> SUFFICES ASSUME NEW l \in Listeners
                 PROVE  Offer(handler[l].msgCh, m) \in Seq(Messages) /\ Len(Offer(handler[l].msgCh, m)) <= SubBuffer
      OBVIOUS
    <3>1. PICK s : s = handler[l].msgCh
      OBVIOUS
    <3>2. s \in Seq(Messages) /\ Len(s) <= SubBuffer
      BY <1>1, <3>1 DEF HandlerRecords, Bounded
    <3>3. Append(s, m) \in Seq(Messages) /\ Len(Append(s, m)) = Len(s) + 1 /\ Len(s) \in Nat
      BY <3>2, AppendItems
    <3>4. Offer(s, m) \in Seq(Messages) /\ Len(Offer(s, m)) <= SubBuffer
      BY <1>3, <3>2, <3>3 DEF Offer
    <3> QED
      BY <3>1, <3>4
  <2>6. /\ handler' \in [Listeners -> HandlerRecords]
        /\ \A l \in Listeners : Bounded(handler'[l])
    <3>1. ASSUME NEW l \in Listeners
          PROVE  handler'[l] \in HandlerRecords /\ Bounded(handler'[l])
      <4>1. handler[l] \in HandlerRecords /\ Bounded(handler[l])
        BY <1>1
      <4>2. PICK h : h = [handler[l] EXCEPT !.msgCh = Offer(handler[l].msgCh, m)]
        OBVIOUS
      <4>3. h \in HandlerRecords /\ h.msgCh = Offer(handler[l].msgCh, m) /\ h.wire = handler[l].wire
        BY <2>5, <4>1, <4>2 DEF HandlerRecords
      <4>4. Bounded(h)
        BY <2>5, <4>1, <4>3 DEF Bounded
      <4>5. handler'[l] = h \/ handler'[l] = handler[l]
        BY <2>4, <4>1, <4>2 DEF PublishMsg, HandlerRecords
      <4> QED
        BY <4>1, <4>3, <4>4, <4>5
    <3>2. handler' = [l \in Listeners |-> handler'[l]]
      BY <2>4 DEF PublishMsg
    <3> QED
      BY <3>1, <3>2
  <2> QED
    BY <1>1, <2>1, <2>2, <2>3, <2>6, TerminalTypesNext
<1>12. CASE SendLoopEnds
  <2>1. terminal' \in TerminalRecords /\ terminal'.stdoutCh = <<>> /\ terminal'.buf = terminal.buf
    BY <1>1, <1>2, <1>12 DEF SendLoopEnds, TerminalRecords
  <2>2. Len(terminal'.stdoutCh) <= OutBuffer
    BY <1>2, <1>3, <2>1
  <2> QED
    BY <1>1, <1>12, <2>1, <2>2, TerminalTypesNext DEF SendLoopEnds
<1>13. CASE StdinLoop \/ StdinLoopEnds \/ WriteData \/ WriteSent
  <2>1. stdin.ch \in 0..InBuffer /\ stdin.writes \in 0..MaxWrites
    BY <1>1 DEF StdinRecords
  <2>2. /\ stdin.ch > 0 => stdin.ch - 1 \in 0..InBuffer
        /\ stdin.ch < InBuffer => stdin.ch + 1 \in 0..InBuffer
        /\ stdin.writes < MaxWrites => stdin.writes + 1 \in 0..MaxWrites
    BY <2>1, <1>3
  <2>3. stdin' \in StdinRecords
    BY <1>1, <1>13, <2>1, <2>2 DEF StdinLoop, StdinTaken, StdinLoopEnds, WriteData, WriteSent,
                                   StdinRecords
  <2>4. UNCHANGED <<shell, terminal, handler, client>>
    BY <1>13 DEF StdinLoop, StdinLoopEnds, WriteData, WriteSent
  <2> QED
    BY <1>1, <2>3, <2>4, TerminalTypesNext
<1>14. CASE CloseTerminal
  <2>1. terminal' \in TerminalRecords /\ terminal'.stdoutCh = terminal.stdoutCh /\ terminal'.buf = terminal.buf
    BY <1>1, <1>14 DEF CloseTerminal, TerminalRecords
  <2>2. /\ handler' \in [Listeners -> HandlerRecords]
        /\ \A l \in Listeners : Bounded(handler'[l])
    <3>1. ASSUME NEW l \in Listeners
          PROVE  handler'[l] \in HandlerRecords /\ Bounded(handler'[l])
      <4>1. handler[l] \in HandlerRecords /\ Bounded(handler[l])
        BY <1>1
      <4>2. PICK h : h = [handler[l] EXCEPT !.subscribed = FALSE]
        OBVIOUS
      <4>3. h \in HandlerRecords /\ h.msgCh = handler[l].msgCh /\ h.wire = handler[l].wire
        BY <4>1, <4>2 DEF HandlerRecords
      <4>4. handler'[l] = h
        BY <1>14, <4>2 DEF CloseTerminal
      <4> QED
        BY <4>1, <4>3, <4>4 DEF Bounded
    <3>2. handler' = [l \in Listeners |-> handler'[l]]
      BY <1>14 DEF CloseTerminal
    <3> QED
      BY <3>1, <3>2
  <2> QED
    BY <1>1, <1>14, <2>1, <2>2, TerminalTypesNext DEF CloseTerminal
<1>15. ASSUME NEW l \in Listeners, Attach(l) \/ Listening(l) \/ Receive(l) \/ ReceiveEnd(l) \/ Detach(l)
       PROVE  TerminalTypeOK'
  <2>1. UNCHANGED <<shell, terminal, stdin>>
    BY <1>15 DEF Attach, Listening, SendInitListenMsg, Subscribe, ListenSend, ListenDone, DrainEnds,
                 ListenCanceled, Receive, ReceiveEnd, Detach
  <2>2. PICK h \in HandlerRecords, c \in ClientRecords :
          /\ handler' = [handler EXCEPT ![l] = h] /\ Bounded(h)
          /\ client' = [client EXCEPT ![l] = c]
    BY <1>1, <1>15, ListenerTypes
  <2>3. handler' \in [Listeners -> HandlerRecords] /\ client' \in [Listeners -> ClientRecords]
    BY <1>1, <2>2
  <2>4. \A k \in Listeners : Bounded(handler'[k])
    BY <1>1, <2>2
  <2> QED
    BY <1>1, <2>1, <2>3, <2>4, TerminalTypesNext
<1>16. CASE UNCHANGED terminalVars
  BY <1>1, <1>16, TerminalTypesNext DEF terminalVars
<1> QED
  BY <1>4, <1>5, <1>6, <1>7, <1>8, <1>9, <1>10, <1>11, <1>12, <1>13, <1>14, <1>15, <1>16
  DEF TerminalNext, Reader, Sender, Stdin, WaitAndClose

-----------------------------------------------------------------------------
(* The terminals: from the pty to the replay buffer. *)

LEMMA RisingTrimmed ==
  ASSUME NEW lo \in Nat, NEW hi \in Nat, NEW s, Rising(s, lo, hi), s # <<>>
  PROVE  Rising(Trimmed(s), lo, hi)
<1>1. s \in Seq(Nat) /\ Len(s) \in Nat
  BY DEF Rising
<1>2. PICK t : t = Trimmed(s)
  OBVIOUS
<1>3. PICK k \in 0..Len(s) - 1 : Len(t) = Len(s) - k /\ \A i \in 1..Len(t) : t[i] = s[k + i]
  BY <1>1, <1>2, TrimmedItems
<1>4. t \in Seq(Nat)
  BY <1>1, <1>2, TrimmedItems
<1>5. \A i \in 1..Len(t) : k + i \in 1..Len(s)
  BY <1>1, <1>3
<1>6. \A i, j \in 1..Len(t) : i < j => k + i < k + j
  BY <1>1, <1>3
<1>7. Rising(t, lo, hi)
  BY <1>3, <1>4, <1>5, <1>6 DEF Rising
<1> QED
  BY <1>2, <1>7

LEMMA TrimmedLast ==
  ASSUME NEW S, NEW s \in Seq(S), NEW c \in S
  PROVE  Trimmed(Append(s, c))[Len(Trimmed(Append(s, c)))] = c
<1>1. PICK t : t = Append(s, c)
  OBVIOUS
<1>2. t \in Seq(S) /\ t # <<>> /\ Len(s) \in Nat /\ Len(t) = Len(s) + 1 /\ t[Len(s) + 1] = c
  BY <1>1, AppendItems
<1>3. PICK u : u = Trimmed(t)
  OBVIOUS
<1>4. PICK k \in 0..Len(t) - 1 : Len(u) = Len(t) - k /\ \A i \in 1..Len(u) : u[i] = t[k + i]
  BY <1>2, <1>3, TrimmedItems
<1>5. Len(u) \in 1..Len(u) /\ k + Len(u) = Len(s) + 1
  BY <1>2, <1>4
<1> QED
  BY <1>1, <1>2, <1>3, <1>4, <1>5

LEMMA PublishedNumber ==
  ASSUME TerminalTypeOK, PipeInOrder
  PROVE  /\ Newest \in Nat /\ Published \in Nat /\ Newest <= Published + 1
         /\ terminal.sender # "publish" => Published = Newest
         /\ terminal.sender = "publish" => Newest = Published + 1
<1>1. Newest \in Nat
  BY ChunkTyped
<1>2. CASE terminal.sender = "publish"
  <2>1. Newest \in Chunks /\ terminal.chunk = Newest
    BY <1>2, ChunkTyped DEF PipeInOrder
  <2>2. Newest > 0 /\ Published = Newest - 1
    BY <1>2, <2>1, ChunkNumbers DEF Published
  <2> QED
    BY <1>1, <1>2, <2>2
<1>3. CASE terminal.sender # "publish"
  BY <1>1, <1>3 DEF Published
<1> QED
  BY <1>2, <1>3

\* Steps that leave the output where it is.
LEMMA PipeSame ==
  ASSUME TerminalTypeOK, PipeInOrder, shell'.made = shell.made, shell'.pty = shell.pty,
         terminal'.buf = terminal.buf, terminal'.stdoutCh = terminal.stdoutCh,
         terminal'.sender = terminal.sender, terminal'.chunk = terminal.chunk
  PROVE  PipeInOrder' /\ Newest' = Newest /\ Published' = Published
<1>1. Newest' = Newest
  BY DEF Newest
<1>2. Published' = Published
  BY <1>1 DEF Published
<1> QED
  BY <1>1, <1>2 DEF PipeInOrder

LEMMA PipeKept ==
  ASSUME TerminalTypeOK, PipeInOrder, [TerminalNext]_terminalVars
  PROVE  PipeInOrder' /\ Published' >= Published /\ Published' \in Nat
<1>1. /\ shell \in ShellRecords /\ terminal \in TerminalRecords
      /\ shell.made \in Nat /\ terminal.buf \in Seq(Chunks) /\ terminal.stdoutCh \in Seq(Chunks)
  BY TerminalTypes DEF ShellRecords, TerminalRecords
<1>2. Newest \in Nat /\ Published \in Nat
  BY PublishedNumber
<1>3. PICK n \in Newest..shell.made :
        Rising(terminal.stdoutCh, Newest, n) /\ Rising(shell.pty, n, shell.made)
  BY DEF PipeInOrder
<1>4. n \in Nat /\ Newest <= n /\ n <= shell.made
  BY <1>1, <1>2
<1>5. Rising(terminal.buf, 0, Newest)
  BY DEF PipeInOrder
<1> SUFFICES ASSUME TerminalNext \/ UNCHANGED terminalVars
             PROVE  PipeInOrder' /\ Published' >= Published /\ Published' \in Nat
  OBVIOUS
<1>6. ASSUME /\ shell'.made = shell.made /\ shell'.pty = shell.pty
             /\ terminal'.buf = terminal.buf /\ terminal'.stdoutCh = terminal.stdoutCh
             /\ terminal'.sender = terminal.sender /\ terminal'.chunk = terminal.chunk
      PROVE  PipeInOrder' /\ Published' >= Published /\ Published' \in Nat
  BY <1>2, <1>6, PipeSame
<1>7. CASE Produce
  <2>1. /\ terminal' = terminal /\ shell'.made = shell.made + 1
        /\ shell'.pty = Append(shell.pty, shell.made + 1)
    BY <1>1, <1>7 DEF Produce, ShellRecords
  <2>2. Newest' = Newest /\ Published' = Published
    BY <2>1 DEF Newest, Published
  <2>3. shell.made + 1 \in Nat /\ shell.made < shell.made + 1
    BY <1>1
  <2>4. Rising(shell'.pty, n, shell'.made)
    BY <1>1, <1>3, <1>4, <2>1, <2>3, RisingAppend
  <2>5. n \in Newest..shell'.made
    BY <1>1, <1>2, <1>4, <2>1
  <2> QED
    BY <1>2, <1>3, <2>1, <2>2, <2>4, <2>5 DEF PipeInOrder
<1>8. CASE ReadPty
  <2>1. /\ terminal'.stdoutCh = Append(terminal.stdoutCh, Head(shell.pty))
        /\ terminal'.buf = terminal.buf /\ terminal'.sender = terminal.sender
        /\ terminal'.chunk = terminal.chunk
        /\ shell'.made = shell.made /\ shell'.pty = Tail(shell.pty) /\ shell.pty # <<>>
    BY <1>1, <1>8 DEF ReadPty, ShellRecords, TerminalRecords
  <2>2. Newest' = Newest
    BY <2>1 DEF Newest
  <2>3. Published' = Published
    BY <2>1, <2>2 DEF Published
  <2>4. PICK c \in Nat : c = Head(shell.pty) /\ n < c /\ c <= shell.made /\ Rising(Tail(shell.pty), c, shell.made)
    BY <1>1, <1>3, <1>4, <2>1, RisingTail
  <2>5. Rising(Append(terminal.stdoutCh, c), Newest, c)
    BY <1>2, <1>3, <1>4, <2>4, RisingAppend
  <2>6. c \in Newest..shell.made
    BY <1>1, <1>2, <1>4, <2>4
  <2>7. Rising(terminal'.stdoutCh, Newest, c) /\ Rising(shell'.pty, c, shell.made)
    BY <2>1, <2>4, <2>5
  <2> QED
    BY <1>2, <2>1, <2>2, <2>3, <2>6, <2>7 DEF PipeInOrder
<1>9. CASE ReadPtyErr
  <2>1. /\ terminal'.stdoutCh = terminal.stdoutCh
        /\ terminal'.buf = terminal.buf /\ terminal'.sender = terminal.sender
        /\ terminal'.chunk = terminal.chunk
        /\ shell'.made = shell.made /\ shell'.pty = <<>>
    BY <1>1, <1>9 DEF ReadPtyErr, ShellRecords, TerminalRecords
  <2>2. Newest' = Newest
    BY <2>1 DEF Newest
  <2>3. Published' = Published
    BY <2>1, <2>2 DEF Published
  <2>4. Rising(shell'.pty, n, shell.made)
    BY <2>1, RisingEmpty
  <2> QED
    BY <1>2, <1>3, <2>1, <2>2, <2>3, <2>4 DEF PipeInOrder
<1>10. CASE SetBuf
  <2>1. PICK c : c = Head(terminal.stdoutCh)
    OBVIOUS
  <2>2. terminal.stdoutCh # <<>> /\ terminal.sender = "on"
    BY <1>10 DEF SetBuf
  <2>3. c \in Nat /\ c \in Chunks /\ Newest < c /\ c <= n /\ Rising(Tail(terminal.stdoutCh), c, n)
    BY <1>1, <1>2, <1>3, <1>4, <2>1, <2>2, RisingTail, TailItems
  <2>4. PICK t : t = Append(terminal.buf, c)
    OBVIOUS
  <2>5. /\ terminal'.sender = "publish" /\ terminal'.chunk = c
        /\ terminal'.stdoutCh = Tail(terminal.stdoutCh)
        /\ terminal'.buf = Trimmed(t) /\ shell' = shell
    BY <1>1, <1>10, <2>1, <2>4 DEF SetBuf, TerminalRecords
  <2>6. Rising(t, 0, c) /\ t # <<>> /\ t \in Seq(Chunks)
    BY <1>1, <1>2, <1>5, <2>3, <2>4, RisingAppend, AppendItems
  <2>7. Rising(Trimmed(t), 0, c) /\ Trimmed(t) # <<>>
    BY <2>3, <2>6, RisingTrimmed, TrimmedItems
  <2>8. Newest' = c
    <3>1. Trimmed(t)[Len(Trimmed(t))] = c
      BY <1>1, <2>3, <2>4, TrimmedLast
    <3> QED
      BY <2>5, <2>7, <3>1 DEF Newest
  <2>9. Published' = c - 1 /\ Published = Newest
    BY <2>2, <2>5 DEF Published
  <2>10. c \in Nat /\ n \in c..shell'.made
    BY <1>1, <1>4, <2>3, <2>5
  <2>11. Published' >= Published
    BY <1>2, <2>3, <2>9
  <2>13. Published' \in Nat
    BY <1>2, <2>3, <2>9
  <2>12. PipeInOrder'
    BY <1>3, <2>3, <2>5, <2>7, <2>8, <2>10 DEF PipeInOrder
  <2> QED
    BY <2>11, <2>12, <2>13
<1>11. CASE PublishStdout \/ RunTerminal
  <2>1. /\ terminal'.stdoutCh = terminal.stdoutCh /\ terminal'.buf = terminal.buf
        /\ terminal'.sender = "on"
        /\ shell'.made = shell.made /\ shell'.pty = shell.pty
    <3>1. CASE PublishStdout
      BY <1>1, <3>1 DEF PublishStdout, TerminalRecords
    <3>2. CASE RunTerminal
      BY <1>1, <3>2 DEF RunTerminal, TerminalRecords, ShellRecords
    <3> QED
      BY <1>11, <3>1, <3>2
  <2>2. Newest' = Newest
    BY <2>1 DEF Newest
  <2>3. Published' = Newest /\ (Newest = Published \/ Newest = Published + 1)
    BY <2>1, <2>2, PublishedNumber DEF Published
  <2>4. Published' >= Published /\ Published' \in Nat
    BY <1>2, <2>3
  <2>5. PipeInOrder'
    BY <1>3, <2>1, <2>2, <1>5 DEF PipeInOrder
  <2> QED
    BY <2>4, <2>5
<1>12. CASE SendLoopEnds
  <2>1. /\ terminal'.stdoutCh = <<>> /\ terminal'.buf = terminal.buf
        /\ terminal.sender = "on" /\ terminal'.sender = "off" /\ shell' = shell
    BY <1>1, <1>12 DEF SendLoopEnds, TerminalRecords
  <2>2. Newest' = Newest
    BY <2>1 DEF Newest
  <2>3. Published' = Published
    BY <2>1, <2>2 DEF Published
  <2>4. Rising(terminal'.stdoutCh, Newest, n)
    BY <2>1, RisingEmpty
  <2> QED
    BY <1>2, <1>3, <1>5, <2>1, <2>2, <2>3, <2>4 DEF PipeInOrder
<1>13. CASE \/ ShellExits \/ AddTerminal \/ RemoveTerminal \/ KillAndClose
            \/ WaitEnds \/ PublishClose \/ CloseTerminal \/ DeleteTerminal
  <2>1. shell'.made = shell.made /\ shell'.pty = shell.pty
    BY <1>1, <1>13
    DEF ShellExits, AddTerminal, RemoveTerminal, KillAndClose, WaitEnds, PublishClose,
        CloseTerminal, DeleteTerminal, ShellRecords
  <2>2. /\ terminal'.buf = terminal.buf /\ terminal'.stdoutCh = terminal.stdoutCh
        /\ terminal'.sender = terminal.sender /\ terminal'.chunk = terminal.chunk
    <3>1. CASE ShellExits
      BY <3>1 DEF ShellExits
    <3>2. CASE AddTerminal \/ RemoveTerminal \/ KillAndClose
      BY <1>1, <3>2 DEF AddTerminal, RemoveTerminal, KillAndClose, TerminalRecords
    <3>3. CASE WaitEnds \/ PublishClose
      BY <1>1, <3>3 DEF WaitEnds, PublishClose, TerminalRecords
    <3>4. CASE CloseTerminal \/ DeleteTerminal
      BY <1>1, <3>4 DEF CloseTerminal, DeleteTerminal, TerminalRecords
    <3> QED
      BY <1>13, <3>1, <3>2, <3>3, <3>4
  <2> QED
    BY <1>6, <2>1, <2>2
<1>14. CASE UNCHANGED <<shell, terminal>>
  BY <1>6, <1>14
<1>15. CASE Stdin \/ WriteData \/ WriteSent
  BY <1>14, <1>15 DEF Stdin, StdinLoop, StdinLoopEnds, WriteData, WriteSent
<1>16. ASSUME NEW l \in Listeners, Attach(l) \/ Listening(l) \/ Receive(l) \/ ReceiveEnd(l) \/ Detach(l)
       PROVE  UNCHANGED <<shell, terminal>>
  BY <1>16 DEF Attach, Listening, SendInitListenMsg, Subscribe, ListenSend, ListenDone, DrainEnds,
               ListenCanceled, Receive, ReceiveEnd, Detach
<1>17. CASE UNCHANGED terminalVars
  BY <1>14, <1>17 DEF terminalVars
<1> QED
  BY <1>7, <1>8, <1>9, <1>10, <1>11, <1>12, <1>13, <1>14, <1>15, <1>16, <1>17
  DEF TerminalNext, Reader, Sender, WaitAndClose

-----------------------------------------------------------------------------
(* The terminals: the reason of a close. *)

LEMMA ReasonKept ==
  ASSUME TerminalTypeOK, ClosedForAReason, [TerminalNext]_terminalVars
  PROVE  ClosedForAReason'
<1>1. /\ shell \in ShellRecords /\ terminal \in TerminalRecords /\ stdin \in StdinRecords
  BY TerminalTypes
<1>2. CASE Produce \/ ShellExits
  BY <1>1, <1>2 DEF Produce, ShellExits, ClosedForAReason, ShellRecords
<1>3. CASE RunTerminal
  BY <1>1, <1>3 DEF RunTerminal, ClosedForAReason, ShellRecords, TerminalRecords, StdinRecords
<1>4. CASE AddTerminal \/ RemoveTerminal \/ KillAndClose
  BY <1>1, <1>4 DEF AddTerminal, RemoveTerminal, KillAndClose, ClosedForAReason, TerminalRecords
<1>5. CASE ReadPty \/ ReadPtyErr
  BY <1>1, <1>5 DEF ReadPty, ReadPtyErr, ClosedForAReason, ShellRecords, TerminalRecords
<1>6. CASE SetBuf \/ PublishStdout \/ SendLoopEnds
  <2>1. /\ terminal'.closeCh = terminal.closeCh /\ terminal'.isClosed = terminal.isClosed
        /\ terminal'.waiter = terminal.waiter /\ terminal'.removed = terminal.removed
    <3>1. CASE SetBuf
      BY <1>1, <3>1 DEF SetBuf, TerminalRecords
    <3>2. CASE PublishStdout \/ SendLoopEnds
      BY <1>1, <3>2 DEF PublishStdout, SendLoopEnds, TerminalRecords
    <3> QED
      BY <1>6, <3>1, <3>2
  <2>2. UNCHANGED <<shell, stdin>>
    BY <1>6 DEF SetBuf, PublishStdout, SendLoopEnds
  <2> QED
    BY <2>1, <2>2 DEF ClosedForAReason
<1>7. CASE StdinLoop \/ StdinLoopEnds
  BY <1>1, <1>7 DEF StdinLoop, StdinTaken, StdinLoopEnds, ClosedForAReason, StdinRecords
<1>8. CASE WriteData \/ WriteSent
  BY <1>1, <1>8 DEF WriteData, WriteSent, ClosedForAReason, StdinRecords
<1>9. CASE WaitEnds
  BY <1>1, <1>9 DEF WaitEnds, Woken, ClosedForAReason, TerminalRecords
<1>10. CASE PublishClose
  BY <1>1, <1>10 DEF PublishClose, ClosedForAReason, TerminalRecords, ShellRecords
<1>11. CASE CloseTerminal \/ DeleteTerminal
  BY <1>1, <1>11 DEF CloseTerminal, DeleteTerminal, ClosedForAReason, TerminalRecords
<1>12. CASE UNCHANGED <<shell, terminal, stdin>>
  BY <1>12 DEF ClosedForAReason
<1>13. ASSUME NEW l \in Listeners, Attach(l) \/ Listening(l) \/ Receive(l) \/ ReceiveEnd(l) \/ Detach(l)
       PROVE  UNCHANGED <<shell, terminal, stdin>>
  BY <1>13 DEF Attach, Listening, SendInitListenMsg, Subscribe, ListenSend, ListenDone, DrainEnds,
               ListenCanceled, Receive, ReceiveEnd, Detach
<1>14. CASE UNCHANGED terminalVars
  BY <1>12, <1>14 DEF terminalVars
<1> QED
  BY <1>2, <1>3, <1>4, <1>5, <1>6, <1>7, <1>8, <1>9, <1>10, <1>11, <1>12, <1>13, <1>14
  DEF TerminalNext, Reader, Sender, Stdin, WaitAndClose

-----------------------------------------------------------------------------
(* The terminals: every listener. *)

\* CloseTerminal takes the subscriptions away.
LEMMA StreamUnsubscribed ==
  ASSUME NEW h, NEW c, NEW g, NEW p, ListenerInOrder(h, c, p), ~g.subscribed,
         g.pc = h.pc, g.msgCh = h.msgCh, g.wire = h.wire
  PROVE  ListenerInOrder(g, c, p)
<1>1. StreamInOrder(h, c, p) => StreamInOrder(g, c, p)
  BY DEF StreamInOrder
<1> QED
  BY <1>1 DEF ListenerInOrder

\* A step of the handler or of the client of one stream.
LEMMA ListenerKept ==
  ASSUME TerminalTypeOK, PipeInOrder, NEW l \in Listeners, ListenerInOrder(handler[l], client[l], Published),
         Attach(l) \/ Listening(l) \/ Receive(l) \/ ReceiveEnd(l) \/ Detach(l)
  PROVE  ListenerInOrder(handler'[l], client'[l], Published)
<1>1. /\ handler \in [Listeners -> HandlerRecords] /\ client \in [Listeners -> ClientRecords]
      /\ handler[l] \in HandlerRecords /\ client[l] \in ClientRecords
  BY TerminalTypes
<1>2. Newest \in Nat /\ Published \in Nat /\ Newest <= Published + 1
  BY PublishedNumber
<1>3. PICK h, c, p : h = handler[l] /\ c = client[l] /\ p = Published
  OBVIOUS
<1>4. h \in HandlerRecords /\ c \in ClientRecords /\ p \in Nat /\ ListenerInOrder(h, c, p)
  BY <1>1, <1>2, <1>3
<1>5. PICK g, d : g = handler'[l] /\ d = client'[l]
  OBVIOUS
<1>6. CASE Attach(l)
  <2>1. c.st = "off" /\ d = [c EXCEPT !.st = "open"] /\ g = [h EXCEPT !.pc = "init"]
    BY <1>1, <1>3, <1>5, <1>6 DEF Attach
  <2>2. /\ d.st = "open" /\ d.got = c.got /\ g.pc = "init" /\ g.subscribed = h.subscribed
        /\ g.msgCh = h.msgCh /\ g.wire = h.wire
    BY <1>4, <2>1 DEF HandlerRecords, ClientRecords
  <2>3. ListenerInOrder(g, d, p)
    BY <1>4, <2>1, <2>2, StreamStarts
  <2> QED
    BY <1>3, <1>5, <2>3
<1>7. CASE SendInitListenMsg(l)
  <2>1. PICK w : w = IF terminal.buf = <<>> \/ c.st # "open" THEN h.wire ELSE <<terminal.buf>>
    OBVIOUS
  <2>2. h.pc = "init" /\ d = c /\ g = [h EXCEPT !.pc = "subscribe", !.wire = w]
    BY <1>1, <1>3, <1>5, <1>7, <2>1 DEF SendInitListenMsg, HandlerRecords
  <2>3. /\ g.pc = "subscribe" /\ g.subscribed = h.subscribed /\ g.msgCh = h.msgCh /\ g.wire = w
    BY <1>4, <2>2 DEF HandlerRecords
  <2>4. PICK buf, last : buf = terminal.buf /\ last = Newest
    OBVIOUS
  <2>5. Rising(buf, 0, last) /\ last \in Nat /\ last <= p + 1
    BY <1>2, <1>3, <2>4 DEF PipeInOrder
  <2>6. g.wire = IF buf = <<>> \/ c.st # "open" THEN h.wire ELSE <<buf>>
    BY <2>1, <2>3, <2>4
  <2>7. /\ h.pc = "init" /\ g.pc = "subscribe" /\ g.subscribed = h.subscribed
        /\ g.msgCh = h.msgCh
    BY <2>2, <2>3
  <2>8. ListenerInOrder(g, c, p)
    BY <1>4, <2>5, <2>6, <2>7, StreamReplays
  <2> QED
    BY <1>3, <1>5, <2>2, <2>8
<1>8. CASE Subscribe(l)
  <2>1. h.pc = "subscribe" /\ d = c /\ g = [h EXCEPT !.pc = "loop", !.subscribed = TRUE]
    BY <1>1, <1>3, <1>5, <1>8 DEF Subscribe, HandlerRecords
  <2>2. g.pc = "loop" /\ g.msgCh = h.msgCh /\ g.wire = h.wire
    BY <1>4, <2>1 DEF HandlerRecords
  <2>3. ListenerInOrder(g, c, p)
    BY <1>4, <2>1, <2>2, StreamGoesOn
  <2> QED
    BY <1>3, <1>5, <2>1, <2>3
<1>9. CASE ListenSend(l)
  <2>1. PICK w, t : w = Append(h.wire, Head(h.msgCh)) /\ t = Tail(h.msgCh)
    OBVIOUS
  <2>2. /\ h.pc \in {"loop", "drain"} /\ c.st = "open" /\ h.msgCh # <<>> /\ d = c
        /\ g = [h EXCEPT !.wire = w, !.msgCh = t]
    BY <1>1, <1>3, <1>5, <1>9, <2>1 DEF ListenSend, HandlerRecords
  <2>3. g.pc = h.pc /\ g.subscribed = h.subscribed /\ g.wire = w /\ g.msgCh = t
    BY <1>4, <2>2 DEF HandlerRecords
  <2>4. ListenerInOrder(g, c, p)
    BY <1>4, <2>1, <2>2, <2>3, StreamSends
  <2> QED
    BY <1>3, <1>5, <2>2, <2>4
<1>10. CASE ListenDone(l)
  <2>1. h.pc = "loop" /\ d = c /\ g = [h EXCEPT !.pc = "drain"]
    BY <1>1, <1>3, <1>5, <1>10 DEF ListenDone
  <2>2. g.pc = "drain" /\ g.msgCh = h.msgCh /\ g.wire = h.wire
    BY <1>4, <2>1 DEF HandlerRecords
  <2>3. ListenerInOrder(g, c, p)
    BY <1>4, <2>1, <2>2, StreamGoesOn
  <2> QED
    BY <1>3, <1>5, <2>1, <2>3
<1>11. CASE DrainEnds(l) \/ ListenCanceled(l)
  <2>1. /\ h.pc \in {"loop", "drain"} /\ d = c
        /\ g = [h EXCEPT !.pc = "ended", !.subscribed = FALSE, !.msgCh = <<>>]
    BY <1>1, <1>3, <1>5, <1>11 DEF DrainEnds, ListenCanceled, Over
  <2>2. g.pc = "ended" /\ g.msgCh = <<>> /\ g.wire = h.wire
    BY <1>4, <2>1 DEF HandlerRecords
  <2>3. ListenerInOrder(g, c, p)
    BY <1>4, <2>1, <2>2, StreamGoesOn
  <2> QED
    BY <1>3, <1>5, <2>1, <2>3
<1>12. CASE Receive(l) /\ Head(h.wire) # <<Close>>
  <2>1. PICK w, m : w = Tail(h.wire) /\ m = c.got \o Head(h.wire)
    OBVIOUS
  <2>2. /\ c.st = "open" /\ h.wire # <<>>
        /\ d = [c EXCEPT !.got = m] /\ g = [h EXCEPT !.wire = w]
    BY <1>1, <1>3, <1>5, <1>12, <2>1 DEF Receive
  <2>3. /\ g.pc = h.pc /\ g.subscribed = h.subscribed /\ g.msgCh = h.msgCh /\ g.wire = w
        /\ d.st = c.st /\ d.got = m
    BY <1>4, <2>2 DEF HandlerRecords, ClientRecords
  <2>4. ListenerInOrder(g, d, p)
    BY <1>4, <1>12, <2>1, <2>2, <2>3, StreamReads
  <2> QED
    BY <1>3, <1>5, <2>4
<1>13. CASE \/ Receive(l) /\ Head(h.wire) = <<Close>>
            \/ ReceiveEnd(l) \/ Detach(l)
  <2>1. /\ c.st = "open" /\ d \in {Ended("closed"), Ended("eof"), Ended("detached")}
        /\ g = [h EXCEPT !.wire = <<>>] \/ (g = h /\ h.wire = <<>>)
    <3>1. CASE Receive(l) /\ Head(h.wire) = <<Close>>
      <4>1. /\ c.st = "open" /\ client' = [client EXCEPT ![l] = Ended("closed")]
            /\ handler' = [handler EXCEPT ![l].wire = <<>>]
        BY <1>3, <3>1 DEF Receive
      <4>2. d = Ended("closed") /\ g = [h EXCEPT !.wire = <<>>]
        BY <1>1, <1>3, <1>5, <4>1
      <4> QED
        BY <4>1, <4>2
    <3>2. CASE ReceiveEnd(l)
      BY <1>1, <1>3, <1>5, <3>2 DEF ReceiveEnd
    <3>3. CASE Detach(l)
      <4>1. /\ c.st = "open" /\ client' = [client EXCEPT ![l] = Ended("detached")]
            /\ handler' = [handler EXCEPT ![l].wire = <<>>]
        BY <1>3, <3>3 DEF Detach
      <4>2. d = Ended("detached") /\ g = [h EXCEPT !.wire = <<>>]
        BY <1>1, <1>3, <1>5, <4>1
      <4> QED
        BY <4>1, <4>2
    <3> QED
      BY <1>13, <3>1, <3>2, <3>3
  <2>2. /\ d.st \in {"closed", "eof", "detached"} /\ d.got = <<>>
        /\ g.pc = h.pc /\ g.subscribed = h.subscribed /\ g.msgCh = h.msgCh /\ g.wire = <<>>
    BY <1>4, <2>1 DEF HandlerRecords, Ended
  <2>3. ListenerInOrder(g, d, p)
    BY <1>4, <2>1, <2>2, StreamOver
  <2> QED
    BY <1>3, <1>5, <2>3
<1> QED
  BY <1>6, <1>7, <1>8, <1>9, <1>10, <1>11, <1>12, <1>13 DEF Listening

\* A step of one listener leaves the others alone.
LEMMA OthersSame ==
  ASSUME TerminalTypeOK, NEW l \in Listeners, NEW k \in Listeners, k # l,
         Attach(l) \/ Listening(l) \/ Receive(l) \/ ReceiveEnd(l) \/ Detach(l)
  PROVE  handler'[k] = handler[k] /\ client'[k] = client[k]
<1>1. PICK h \in HandlerRecords, c \in ClientRecords :
        handler' = [handler EXCEPT ![l] = h] /\ client' = [client EXCEPT ![l] = c]
  BY ListenerTypes
<1>2. handler \in [Listeners -> HandlerRecords] /\ client \in [Listeners -> ClientRecords]
  BY TerminalTypes
<1> QED
  BY <1>1, <1>2

LEMMA StreamsKept ==
  ASSUME TerminalTypeOK, PipeInOrder, StreamsInOrder, [TerminalNext]_terminalVars
  PROVE  StreamsInOrder'
<1>1. /\ handler \in [Listeners -> HandlerRecords] /\ client \in [Listeners -> ClientRecords]
      /\ terminal \in TerminalRecords
  BY TerminalTypes
<1>2. Published \in Nat
  BY PublishedNumber
<1>3. Published' \in Nat /\ Published <= Published'
  BY <1>2, PipeKept
<1>4. SUFFICES ASSUME NEW k \in Listeners
               PROVE  ListenerInOrder(handler'[k], client'[k], Published')
  BY DEF StreamsInOrder
<1>5. PICK h, c, p, q : h = handler[k] /\ c = client[k] /\ p = Published /\ q = Published'
  OBVIOUS
<1>6. /\ h \in HandlerRecords /\ c \in ClientRecords /\ p \in Nat /\ q \in Nat /\ p <= q
      /\ ListenerInOrder(h, c, p)
  BY <1>1, <1>2, <1>3, <1>5 DEF StreamsInOrder
<1>7. CASE handler'[k] = handler[k] /\ client'[k] = client[k]
  BY <1>5, <1>6, <1>7, StreamLater
<1>8. CASE PublishStdout \/ PublishClose
  <2>1. PICK m :
          /\ PublishMsg(m) /\ client' = client
          /\ m = <<Close>> \/ (m = <<q>> /\ p < q)
    <3>1. CASE PublishStdout
      <4>1. /\ terminal.sender = "publish" /\ PublishMsg(<<terminal.chunk>>) /\ client' = client
            /\ terminal'.sender = "on" /\ terminal'.buf = terminal.buf
        BY <1>1, <3>1 DEF PublishStdout, TerminalRecords
      <4>2. Newest' = Newest
        BY <4>1 DEF Newest
      <4>3. Published' = Newest /\ Newest = Published + 1 /\ terminal.chunk = Newest
        BY <4>1, <4>2, PublishedNumber DEF Published, PipeInOrder
      <4>4. p < q /\ <<terminal.chunk>> = <<q>>
        BY <1>2, <1>5, <4>3
      <4> QED
        BY <4>1, <4>4
    <3>2. CASE PublishClose
      BY <3>2 DEF PublishClose
    <3> QED
      BY <1>8, <3>1, <3>2
  <2>2. CASE ~h.subscribed
    BY <1>5, <1>7, <2>1, <2>2 DEF PublishMsg
  <2>3. CASE h.subscribed
    <3>1. PICK g : g = [h EXCEPT !.msgCh = Offer(h.msgCh, m)]
      OBVIOUS
    <3>2. /\ g.pc = h.pc /\ g.subscribed = h.subscribed /\ g.wire = h.wire
          /\ g.msgCh = Offer(h.msgCh, m)
      BY <1>6, <3>1 DEF HandlerRecords
    <3>3. handler'[k] = g /\ client'[k] = c
      BY <1>5, <2>1, <2>3, <3>1 DEF PublishMsg
    <3>4. ListenerInOrder(g, c, q)
      BY <1>6, <2>1, <2>3, <3>2, StreamPublished
    <3> QED
      BY <1>5, <3>3, <3>4
  <2> QED
    BY <2>2, <2>3
<1>9. CASE CloseTerminal
  <2>1. PICK g : g = [h EXCEPT !.subscribed = FALSE]
    OBVIOUS
  <2>2. g.pc = h.pc /\ ~g.subscribed /\ g.wire = h.wire /\ g.msgCh = h.msgCh
    BY <1>6, <2>1 DEF HandlerRecords
  <2>3. handler'[k] = g /\ client'[k] = c
    BY <1>5, <1>9, <2>1 DEF CloseTerminal
  <2>4. ListenerInOrder(g, c, p)
    BY <1>6, <2>2, StreamUnsubscribed
  <2> QED
    BY <1>5, <1>6, <2>3, <2>4, StreamLater
<1>10. ASSUME NEW l \in Listeners, Attach(l) \/ Listening(l) \/ Receive(l) \/ ReceiveEnd(l) \/ Detach(l)
       PROVE  ListenerInOrder(handler'[k], client'[k], Published')
  <2>1. CASE k # l
    BY <1>7, <1>10, <2>1, OthersSame
  <2>2. CASE k = l
    <3>1. ListenerInOrder(handler'[k], client'[k], Published)
      BY <1>10, <2>2, ListenerKept DEF StreamsInOrder
    <3> QED
      BY <1>2, <1>3, <3>1, StreamLater
  <2> QED
    BY <2>1, <2>2
<1>11. CASE UNCHANGED <<handler, client>>
  BY <1>7, <1>11
<1>12. CASE \/ Produce \/ ShellExits \/ RunTerminal \/ AddTerminal \/ RemoveTerminal \/ KillAndClose
            \/ Reader \/ SetBuf \/ SendLoopEnds \/ Stdin \/ WriteData \/ WriteSent
            \/ WaitEnds \/ DeleteTerminal
  BY <1>11, <1>12
  DEF Produce, ShellExits, RunTerminal, AddTerminal, RemoveTerminal, KillAndClose, Reader, ReadPty,
      ReadPtyErr, SetBuf, SendLoopEnds, Stdin, StdinLoop, StdinLoopEnds, WriteData, WriteSent,
      WaitEnds, DeleteTerminal
<1>13. CASE UNCHANGED terminalVars
  BY <1>11, <1>13 DEF terminalVars
<1> QED
  BY <1>8, <1>9, <1>10, <1>12, <1>13 DEF TerminalNext, Sender, WaitAndClose

-----------------------------------------------------------------------------
(* The terminals: the theorem. *)

LEMMA TerminalBegins == TerminalInit => TerminalIInv
<1> SUFFICES ASSUME TerminalInit
             PROVE  TerminalIInv
  OBVIOUS
<1>1. /\ SubBuffer \in Nat \ {0} /\ OutBuffer \in Nat \ {0} /\ InBuffer \in Nat \ {0}
      /\ BufSize \in Nat \ {0} /\ Window \in Nat \ {0} /\ MaxChunks \in Nat /\ MaxWrites \in Nat
  BY TerminalAssumption
<1>2. \A S : <<>> \in Seq(S) /\ Len(<<>>) = 0
  BY NoItems
<1>3. 0 \in 0..InBuffer /\ 0 \in 0..MaxWrites /\ 0 \in Nat /\ 0 <= SubBuffer /\ 0 <= Window
      /\ 0 <= OutBuffer /\ 0 <= BufSize
  BY <1>1
<1>4. shell \in ShellRecords /\ terminal \in TerminalRecords /\ stdin \in StdinRecords
  BY <1>2, <1>3 DEF TerminalInit, ShellRecords, TerminalRecords, StdinRecords
<1>5. /\ handler \in [Listeners -> HandlerRecords] /\ client \in [Listeners -> ClientRecords]
      /\ \A l \in Listeners : Bounded(handler[l])
  BY <1>2, <1>3 DEF TerminalInit, HandlerRecords, ClientRecords, Bounded
<1>6. Len(terminal.stdoutCh) <= OutBuffer /\ Len(terminal.buf) <= BufSize
  BY <1>2, <1>3 DEF TerminalInit
<1>7. TerminalTypeOK
  BY <1>4, <1>5, <1>6, TerminalTypes
<1>8. Newest = 0 /\ Published = 0
  BY DEF TerminalInit, Newest, Published
<1>9. PipeInOrder
  <2>1. 0 \in 0..0
    OBVIOUS
  <2> QED
    BY <1>8, <2>1, RisingEmpty DEF TerminalInit, PipeInOrder
<1>10. StreamsInOrder
  BY DEF TerminalInit, StreamsInOrder, ListenerInOrder
<1>11. ClosedForAReason
  BY DEF TerminalInit, ClosedForAReason
<1> QED
  BY <1>7, <1>9, <1>10, <1>11 DEF TerminalIInv

LEMMA TerminalStep == TerminalIInv /\ [TerminalNext]_terminalVars => TerminalIInv'
  BY TerminalTypesKept, PipeKept, StreamsKept, ReasonKept DEF TerminalIInv

LEMMA TerminalInvHolds == TerminalIInv => TerminalInv
<1> SUFFICES ASSUME TerminalIInv
             PROVE  TerminalInv
  OBVIOUS
<1>1. TerminalTypeOK /\ PipeInOrder /\ StreamsInOrder /\ ClosedForAReason
  BY DEF TerminalIInv
<1>2. OutputInOrder
  <2> SUFFICES ASSUME NEW l \in Listeners
               PROVE  /\ \A i, j \in 1..Len(client[l].got) : i < j => client[l].got[i] <= client[l].got[j]
                      /\ \A i, j \in 1..Len(client[l].got) - 1 :
                           client[l].got[i] = client[l].got[i + 1] /\ client[l].got[j] = client[l].got[j + 1] => i = j
    BY DEF OutputInOrder
  <2>1. PICK s, h, c, p : s = client[l].got /\ h = handler[l] /\ c = client[l] /\ p = Published
    OBVIOUS
  <2>2. ListenerInOrder(h, c, p)
    BY <1>1, <2>1 DEF StreamsInOrder
  <2>3. \E b \in Nat : Rising(s, 0, b + 1) \/ OnceTwice(s, b)
    <3>1. CASE s = <<>>
      <4>1. 0 \in Nat
        OBVIOUS
      <4> QED
        BY <3>1, <4>1, RisingEmpty
    <3>2. CASE s # <<>>
      <4>1. c.st = "open"
        BY <2>1, <2>2, <3>2 DEF ListenerInOrder
      <4>2. PICK b \in 0..p : Rising(c.got, 0, b + 1) \/ OnceTwice(c.got, b)
        BY <2>1, <2>2, <3>2, <4>1 DEF ListenerInOrder, StreamInOrder
      <4>3. b \in Nat
        OBVIOUS
      <4> QED
        BY <2>1, <4>2, <4>3
    <3> QED
      BY <3>1, <3>2
  <2> QED
    BY <2>1, <2>3, ReadInOrder
<1>3. OutlivesClients
  BY <1>1 DEF ClosedForAReason, OutlivesClients
<1> QED
  BY <1>1, <1>2, <1>3 DEF TerminalInv

\* The clients of a terminal read the output of its shell in its order, a chunk twice at
\* most once, for any sizes of the buffers and any clients; and only the end of the shell
\* or RemoveTerminal closes it (startSendLoop, ListenTerminal, waitAndClose).
THEOREM TerminalCorrect == TerminalSpec => []TerminalInv
<1>1. TerminalSpec => []TerminalIInv
  BY TerminalBegins, TerminalStep, PTL DEF TerminalSpec
<1> QED
  BY <1>1, TerminalInvHolds, PTL
=============================================================================
