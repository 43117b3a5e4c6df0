--------------------------- MODULE WorkspaceTasks ---------------------------
(***************************************************************************)
(* The Workspace agent in the container: the preparation of a run with its *)
(* lifecycle tasks, the goroutine that waits to say RUNNING, and the end   *)
(* of the agent.  ExecSession has the inside of one task.                  *)
(*                                                                         *)
(* The tasks of the run are those that are left of the specification:      *)
(* "Start" are the ON_CREATE tasks, on a fresh run, and the POST_START     *)
(* tasks after them, "Stop" the PRE_STOP tasks.                            *)
(***************************************************************************)
EXTENDS Integers, Sequences, Functions

CONSTANTS
  Prepares,    \* Prepare calls; the supervisor repeats one that returned an error
  Start, Stop, \* the tasks, in their order
  Background,  \* the tasks nobody waits for
  Aborting,    \* the tasks with ON_FAILURE_ABORT
  MaxFaults    \* bound: steps of the preparation, and starts of commands, that fail

Tasks == Range(Start) \cup Range(Stop)

ASSUME TasksAssumption ==
  /\ Start \in Seq(Range(Start)) /\ Stop \in Seq(Range(Stop))
  /\ IsInjective(Start) /\ IsInjective(Stop)   \* every entry is an object of its own
  /\ Range(Start) \cap Range(Stop) = {}
  /\ Background \subseteq Tasks /\ Aborting \subseteq Tasks
  /\ MaxFaults \in Nat

VARIABLES
  srv,      \* state, startedPrepare, prepareFailed, runningWG, a signal in buildDoneCh;
            \* kind: a build of a Template, a run with AutoStop or a plain one
  prep,     \* the goroutines of Prepare
  mgr,      \* the task manager; cancel: the context of the start tasks
  at,       \* the next task of Start
  task,     \* pc: the goroutine that runs it, proc: its process
  waiter,   \* startWaitAndSetRunning
  main,     \* Run, and Close
  stop,     \* the next task of Stop, their context, the tasks that close closes
  failures, \* the tasks whose failure was published
  term,     \* podman stop has sent SIGTERM
  faults

vars == <<srv, prep, mgr, at, task, waiter, main, stop, failures, term, faults>>

Init ==
  /\ srv \in [kind : {"plain", "autoStop", "build"}, state : {"STARTING_RUNTIME"},
              started : {FALSE}, failed : {FALSE}, wg : {0}, done : {FALSE}]
  /\ prep = [p \in Prepares |-> "none"]
  /\ mgr = [made |-> FALSE, appended |-> FALSE, cancel |-> "none"]
  /\ at = 1
  /\ task = [t \in Tasks |-> [pc |-> "new", proc |-> "none", ok |-> TRUE, listed |-> FALSE, runs |-> 0]]
  /\ waiter = "none" /\ main = "select"
  /\ stop = [at |-> 1, off |-> FALSE, todo |-> {}]
  /\ failures = {} /\ term = FALSE /\ faults = 0

Up == main \notin {"exited", "killed"}
IsBuild == srv.kind = "build"
OneShot == srv.kind # "plain"
Fault == faults < MaxFaults /\ faults' = faults + 1

-----------------------------------------------------------------------------
(* task.run, for the goroutine of the preparation and for close. *)

\* The context of the command.  (Variants: every task has one of its own; the
\* PRE_STOP tasks have that of the start.)
UsesCtxNever(t) == FALSE
UsesCtx(t) == t \notin Background
StopOffStart == mgr.cancel = "off"
StopOff == stop.off
CtxOff(t) == UsesCtx(t) /\ IF t \in Range(Start) THEN mgr.cancel = "off" ELSE StopOff

\* publishFailure, for a task with ON_FAILURE_ABORT.
Publish(t) == IF t \in Aborting THEN failures \cup {t} ELSE failures

\* cmd.Start, which fails when its context is off.
Begins(t) ==
  /\ ~CtxOff(t)
  /\ task' = [task EXCEPT ![t].pc = "started", ![t].proc = "alive", ![t].runs = @ + 1]
  /\ UNCHANGED <<failures, faults>>
BeginFails(t) ==
  /\ IF CtxOff(t) THEN UNCHANGED faults ELSE Fault
  /\ task' = [task EXCEPT ![t].pc = "over", ![t].ok = FALSE]
  /\ failures' = Publish(t)

\* addRunningTask.
Adds(t) ==
  /\ task[t].pc = "started"
  /\ task' = [task EXCEPT ![t].pc = "waiting", ![t].listed = TRUE]
  /\ UNCHANGED failures

\* wait, with the close at its end.
Waits(t) ==
  /\ task[t].pc = "waiting" /\ task[t].proc = "ended"
  /\ task' = [task EXCEPT ![t].pc = "over", ![t].listed = FALSE]
  /\ failures' = IF task[t].ok THEN failures ELSE Publish(t)

\* run returns: the caller may go on, or has an error.
Passed(t) == task'[t].pc = "over" \/ (t \in Background /\ task'[t].pc = "waiting")
Failed(t) == t \in Aborting /\ t \notin Background /\ ~task'[t].ok
FailedAtStart(t) == t \in Aborting /\ task[t].pc = "new" /\ task'[t].pc = "over"

BackgroundWaits(t) ==
  /\ Up /\ t \in Background /\ Waits(t)
  /\ UNCHANGED <<srv, prep, mgr, at, waiter, main, stop, term, faults>>

-----------------------------------------------------------------------------
(* Prepare: doPrepare and the task manager's run. *)

\* The supervisor repeats the call a second later: the goroutine of the last
\* one has tested and set startedPrepare by then.
Prepare(p) ==
  /\ Up /\ prep[p] = "none" /\ \A q \in Prepares : prep[q] \notin {"test", "set"}
  /\ prep' = [prep EXCEPT ![p] = "test"]
  /\ UNCHANGED <<srv, mgr, at, task, waiter, main, stop, failures, term, faults>>

\* (Variant: nobody looks.)
FirstAlways == TRUE
First == ~srv.started
TestStarted(p) ==
  /\ Up /\ prep[p] = "test"
  /\ prep' = [prep EXCEPT ![p] = IF First THEN "set" ELSE "over"]
  /\ UNCHANGED <<srv, mgr, at, task, waiter, main, stop, failures, term, faults>>

SetStarted(p) ==
  /\ Up /\ prep[p] = "set"
  /\ prep' = [prep EXCEPT ![p] = "setup"]
  /\ srv' = [srv EXCEPT !.started = TRUE]
  /\ UNCHANGED <<mgr, at, task, waiter, main, stop, failures, term, faults>>

\* The steps up to the task manager; an error of the User or the Volumes ends
\* the agent.
Setup(p) ==
  /\ Up /\ prep[p] = "setup"
  /\ \/ /\ prep' = [prep EXCEPT ![p] = "make"]
        /\ srv' = [srv EXCEPT !.state = "PREPARING"]
        /\ UNCHANGED faults
     \/ /\ Fault
        /\ prep' = [prep EXCEPT ![p] = "signal"]
        /\ UNCHANGED srv
  /\ UNCHANGED <<mgr, at, task, waiter, main, stop, failures, term>>

NewTaskManager(p) ==
  /\ Up /\ prep[p] = "make"
  /\ mgr' = [mgr EXCEPT !.made = TRUE]
  /\ prep' = [prep EXCEPT ![p] = "join"]
  /\ UNCHANGED <<srv, at, task, waiter, main, stop, failures, term, faults>>

\* The other steps, then runningWG.Add and the start of the waiter.
Join(p) ==
  /\ Up /\ prep[p] = "join"
  /\ srv' = [srv EXCEPT !.wg = @ + 1]
  /\ waiter' = "wait"
  /\ prep' = [prep EXCEPT ![p] = "append"]
  /\ UNCHANGED <<mgr, at, task, main, stop, failures, term, faults>>

\* The tasks are listed and the context of the start tasks is made.
AppendTasks(p) ==
  /\ Up /\ prep[p] = "append"
  /\ mgr' = [mgr EXCEPT !.appended = TRUE, !.cancel = "live"]
  /\ at' = 1
  /\ prep' = [prep EXCEPT ![p] = "run"]
  /\ UNCHANGED <<srv, task, waiter, main, stop, failures, term, faults>>

\* A build skips the background tasks.
RunTask(p) ==
  /\ Up /\ prep[p] = "run" /\ at <= Len(Start)
  /\ LET t == Start[at] IN
     IF IsBuild /\ t \in Background
     THEN at' = at + 1 /\ UNCHANGED <<task, prep, failures, faults>>
     ELSE /\ \/ task[t].pc \in {"new", "over"} /\ (Begins(t) \/ BeginFails(t))
             \/ (Adds(t) \/ Waits(t)) /\ UNCHANGED faults
          /\ at' = IF Passed(t) /\ ~Failed(t) /\ ~FailedAtStart(t) THEN at + 1 ELSE at
          /\ prep' = [prep EXCEPT ![p] =
                        IF Passed(t) /\ (Failed(t) \/ FailedAtStart(t)) THEN "failing" ELSE @]
  /\ UNCHANGED <<srv, mgr, waiter, main, stop, term>>

\* The end of run cancels the context.
RunEnds(p) ==
  /\ Up /\ prep[p] = "run" /\ at > Len(Start)
  /\ mgr' = [mgr EXCEPT !.cancel = "off"]
  /\ prep' = [prep EXCEPT ![p] = "leave"]
  /\ UNCHANGED <<srv, at, task, waiter, main, stop, failures, term, faults>>

\* setPrepareFailed comes before runningWG.Done.  (Variant: it is forgotten.)
FlagKept == srv.failed
FlagSet == TRUE
RunFails(p) ==
  /\ Up /\ prep[p] = "failing"
  /\ mgr' = [mgr EXCEPT !.cancel = "off"]
  /\ srv' = [srv EXCEPT !.failed = FlagSet, !.wg = @ - 1]
  /\ prep' = [prep EXCEPT ![p] = "signal"]
  /\ UNCHANGED <<at, task, waiter, main, stop, failures, term, faults>>

Leave(p) ==
  /\ Up /\ prep[p] = "leave"
  /\ srv' = [srv EXCEPT !.wg = @ - 1]
  /\ prep' = [prep EXCEPT ![p] = "over"]
  /\ UNCHANGED <<mgr, at, task, waiter, main, stop, failures, term, faults>>

SignalDone(p) ==
  /\ Up /\ prep[p] = "signal"
  /\ srv' = [srv EXCEPT !.done = TRUE]
  /\ prep' = [prep EXCEPT ![p] = "over"]
  /\ UNCHANGED <<mgr, at, task, waiter, main, stop, failures, term, faults>>

-----------------------------------------------------------------------------
(* startWaitAndSetRunning. *)

SetRunning ==
  /\ Up /\ waiter = "wait" /\ srv.wg = 0
  /\ IF srv.failed
     THEN srv' = [srv EXCEPT !.done = TRUE] /\ waiter' = "over"
     ELSE srv' = [srv EXCEPT !.state = "RUNNING"] /\ waiter' = "sleep"
  /\ UNCHANGED <<prep, mgr, at, task, main, stop, failures, term, faults>>

StopWhenDone ==
  /\ Up /\ waiter = "sleep"
  /\ waiter' = "over"
  /\ srv' = [srv EXCEPT !.done = @ \/ OneShot]
  /\ UNCHANGED <<prep, mgr, at, task, main, stop, failures, term, faults>>

-----------------------------------------------------------------------------
(* Run and Close, with the task manager's close. *)

Select ==
  /\ main = "select" /\ (term \/ srv.done)
  /\ main' = IF mgr.made THEN "cancel" ELSE "grpc"
  /\ UNCHANGED <<srv, prep, mgr, at, task, waiter, stop, failures, term, faults>>

CancelStart ==
  /\ main = "cancel"
  /\ mgr' = [mgr EXCEPT !.cancel = IF @ = "live" THEN "off" ELSE @]
  /\ main' = "stopping"
  /\ UNCHANGED <<srv, prep, at, task, waiter, stop, failures, term, faults>>

\* The PRE_STOP tasks are those that have been listed by now.
SetStopping ==
  /\ main = "stopping"
  /\ srv' = [srv EXCEPT !.state = "STOPPING"]
  /\ main' = IF IsBuild THEN "snapshot" ELSE "prestop"
  /\ stop' = [stop EXCEPT !.at = IF mgr.appended THEN 1 ELSE Len(Stop) + 1]
  /\ UNCHANGED <<prep, mgr, at, task, waiter, failures, term, faults>>

PreStop ==
  /\ main = "prestop" /\ stop.at <= Len(Stop)
  /\ LET t == Stop[stop.at] IN
     /\ \/ task[t].pc = "new" /\ (Begins(t) \/ BeginFails(t))
        \/ (Adds(t) \/ Waits(t)) /\ UNCHANGED faults
     /\ stop' = [stop EXCEPT !.at = IF Passed(t) THEN @ + 1 ELSE @]
     /\ main' = IF Passed(t) /\ (Failed(t) \/ FailedAtStart(t)) THEN "snapshot" ELSE main
  /\ UNCHANGED <<srv, prep, mgr, at, waiter, term>>

PreStopEnds ==
  /\ main = "prestop" /\ stop.at > Len(Stop)
  /\ main' = "snapshot"
  /\ UNCHANGED <<srv, prep, mgr, at, task, waiter, stop, failures, term, faults>>

\* closeRunningTasks.
Snapshot ==
  /\ main = "snapshot"
  /\ stop' = [stop EXCEPT !.todo = {t \in Tasks : task[t].listed}]
  /\ main' = "close"
  /\ UNCHANGED <<srv, prep, mgr, at, task, waiter, failures, term, faults>>

CloseTask(t) ==
  /\ main = "close" /\ t \in stop.todo
  /\ stop' = [stop EXCEPT !.todo = @ \ {t}]
  /\ task' = [task EXCEPT ![t].listed = FALSE, ![t].proc = "ended",
                          ![t].ok = @ /\ task[t].proc = "ended"]
  /\ UNCHANGED <<srv, prep, mgr, at, waiter, main, failures, term, faults>>

CloseEnds ==
  /\ main = "close" /\ stop.todo = {}
  /\ main' = "grpc"
  /\ UNCHANGED <<srv, prep, mgr, at, task, waiter, stop, failures, term, faults>>

\* The end of the gRPC server, at most 1.2 seconds later, and of the container.
Exit ==
  /\ main = "grpc"
  /\ main' = "exited"
  /\ UNCHANGED <<srv, prep, mgr, at, task, waiter, stop, failures, term, faults>>

-----------------------------------------------------------------------------
(* The processes, time and the supervisor. *)

TaskEnds(t, ok) ==
  /\ Up /\ task[t].proc = "alive"
  /\ task' = [task EXCEPT ![t].proc = "ended", ![t].ok = ok]
  /\ UNCHANGED <<srv, prep, mgr, at, waiter, main, stop, failures, term, faults>>

\* exec.CommandContext kills the process when its context is off.
CtxKills(t) == CtxOff(t) /\ TaskEnds(t, FALSE)

\* 20 or 60 minutes for the start, 10 for the PRE_STOP tasks.
StartTimesOut ==
  /\ Up /\ mgr.cancel = "live"
  /\ mgr' = [mgr EXCEPT !.cancel = "off"]
  /\ UNCHANGED <<srv, prep, at, task, waiter, main, stop, failures, term, faults>>

PreStopTimesOut ==
  /\ main = "prestop" /\ ~stop.off
  /\ \E t \in Range(Stop) : task[t].pc \in {"started", "waiting"}
  /\ stop' = [stop EXCEPT !.off = TRUE]
  /\ UNCHANGED <<srv, prep, mgr, at, task, waiter, main, failures, term, faults>>

\* The supervisor's podman stop.
Term ==
  /\ Up /\ ~term /\ term' = TRUE
  /\ UNCHANGED <<srv, prep, mgr, at, task, waiter, main, stop, failures, faults>>

\* podman stop ends the container, and kills what is left in it, a minute after the
\* SIGTERM, or as soon as the container's first process has obeyed it.
Kill ==
  /\ Up /\ term
  /\ main' = "killed"
  /\ UNCHANGED <<srv, prep, mgr, at, task, waiter, stop, failures, term, faults>>

-----------------------------------------------------------------------------
PrepareStep(p) ==
  \/ TestStarted(p) \/ SetStarted(p) \/ Setup(p) \/ NewTaskManager(p) \/ Join(p) \/ AppendTasks(p)
  \/ RunTask(p) \/ RunEnds(p) \/ RunFails(p) \/ Leave(p) \/ SignalDone(p)
Waiter == SetRunning \/ StopWhenDone
Main ==
  \/ Select \/ CancelStart \/ SetStopping \/ PreStop \/ PreStopEnds \/ Snapshot
  \/ (\E t \in Tasks : CloseTask(t)) \/ CloseEnds \/ Exit

Next ==
  \/ \E p \in Prepares : Prepare(p) \/ PrepareStep(p)
  \/ Waiter \/ Main
  \/ \E t \in Tasks : BackgroundWaits(t) \/ CtxKills(t) \/ \E ok \in BOOLEAN : TaskEnds(t, ok)
  \/ StartTimesOut \/ PreStopTimesOut \/ Term \/ Kill

Spec == Init /\ [][Next]_vars

\* The goroutines go on, and time passes; a task may run for ever.
Fairness ==
  /\ \A p \in Prepares : WF_vars(PrepareStep(p))
  /\ WF_vars(Waiter) /\ WF_vars(Main)
  /\ \A t \in Tasks : WF_vars(CtxKills(t))
  /\ WF_vars(StartTimesOut) /\ WF_vars(PreStopTimesOut)
FairSpec == Spec /\ Fairness

-----------------------------------------------------------------------------
(* Properties. *)

\* The variables have their types.
TypeOK ==
  /\ srv \in [kind : {"plain", "autoStop", "build"}, state : {"STARTING_RUNTIME", "PREPARING", "RUNNING", "STOPPING"},
              started : BOOLEAN, failed : BOOLEAN, wg : 0..2, done : BOOLEAN]
  /\ prep \in [Prepares -> {"none", "test", "set", "setup", "make", "join", "append", "run",
                            "failing", "leave", "signal", "over"}]
  /\ mgr \in [made : BOOLEAN, appended : BOOLEAN, cancel : {"none", "live", "off"}]
  /\ at \in 1..Len(Start) + 1
  /\ task \in [Tasks -> [pc : {"new", "started", "waiting", "over"}, proc : {"none", "alive", "ended"},
                         ok : BOOLEAN, listed : BOOLEAN, runs : Nat]]
  /\ waiter \in {"none", "wait", "sleep", "over"}
  /\ main \in {"select", "cancel", "stopping", "prestop", "snapshot", "close", "grpc", "exited",
              "killed"}
  /\ stop \in [at : 1..Len(Stop) + 1, off : BOOLEAN, todo : SUBSET Tasks]
  /\ failures \subseteq Aborting /\ term \in BOOLEAN /\ faults \in 0..MaxFaults

\* A start task does not hold RUNNING back any more: it has been run to its end
\* without a failure that aborts.  A background task need only have been
\* started; it may have failed since.
Settled(t) ==
  /\ t \in Background \/ task[t].pc = "over"
  /\ t \in failures => t \in Background /\ task[t].runs = 1

\* RUNNING is said only when every start task is settled
\* (startWaitAndSetRunning, runningWG, setPrepareFailed).
RunningIsReady ==
  [][waiter = "wait" /\ waiter' = "sleep" => \A t \in Range(Start) : Settled(t)]_vars

\* No task is run twice, whatever is repeated or comes at the same time
\* (startedPrepare, close).
TasksOnce == \A t \in Tasks : task[t].runs <= 1

\* What holds at every moment of the agent.
TaskInv == TypeOK /\ TasksOnce

\* The agent of a Workspace that was RUNNING does not end before its PRE_STOP
\* tasks were run, whatever told it to end, if no command failed to start; one
\* may be left out when their ten minutes are over or when one before it failed
\* and aborts.  A build has none (taskManager.close).  This is what the agent
\* does when it is left the time: podman stop may kill it (main = "killed")
\* before its tasks and their ten minutes are over.
StopDone(i) ==
  \/ task[Stop[i]].runs = 1
  \/ stop.off \/ \E j \in 1..i - 1 : Stop[j] \in failures \ Background
WasRunning == srv.state = "RUNNING" /\ main = "select" /\ ~IsBuild
StopsDone == main = "exited" /\ faults = 0 => \A i \in 1..Len(Stop) : StopDone(i)
PreStopRuns == [](WasRunning => []StopsDone)

\* The agent ends when it is told to, when the preparation fails, and by itself
\* after a build or with AutoStop, though tasks may hang (signalDone).
AgentEnds ==
  (term \/ srv.failed \/ (OneShot /\ srv.started)) ~> ~Up

-----------------------------------------------------------------------------
(* What the proofs need. *)

\* One call of Prepare at a time tests startedPrepare, and one passes it at all;
\* runningWG is up from its Join to its end.
Holding == {"append", "run", "failing", "leave"}
Inside == {"setup", "make", "join", "signal"} \cup Holding
OnePrepare ==
  /\ \A p, q \in Prepares : prep[p] \in {"test", "set"} /\ prep[q] \in {"test", "set"} => p = q
  /\ \A p, q \in Prepares : prep[p] \in Inside /\ prep[q] \in Inside => p = q
  /\ \A p \in Prepares : /\ prep[p] \in Inside => srv.started
                         /\ prep[p] = "set" => ~srv.started
                         /\ prep[p] \in {"setup", "make", "join"} => waiter = "none"
                         /\ prep[p] \in Holding => waiter # "none"
  /\ srv.wg = IF \E p \in Prepares : prep[p] \in Holding THEN 1 ELSE 0
  /\ waiter # "none" => srv.started

\* The task manager is there, with its tasks, when it is used.
Managed ==
  /\ \A p \in Prepares : prep[p] = "join" => mgr.made
  /\ waiter # "none" => mgr.made /\ (mgr.appended \/ \E p \in Prepares : prep[p] = "append")
  /\ srv.state = "RUNNING" => mgr.made /\ mgr.appended

\* A task that has not begun was not run, one that is on was run once.
RunsCounted ==
  \A t \in Tasks : /\ task[t].pc = "new" => task[t].runs = 0
                   /\ task[t].pc \in {"started", "waiting"} => task[t].runs = 1

\* The start tasks before the current one are settled, those after it are new.
Fresh(t) == task[t].pc = "new" /\ t \notin failures
StartOrder ==
  /\ waiter = "none" \/ (\E p \in Prepares : prep[p] = "append") =>
       \A i \in 1..Len(Start) : Fresh(Start[i])
  /\ (\E p \in Prepares : prep[p] = "run") =>
       \A i \in 1..Len(Start) :
         /\ i < at => Settled(Start[i])
         /\ i = at => /\ task[Start[i]].pc # "over" /\ Start[i] \notin failures
                      /\ Start[i] \in Background => task[Start[i]].pc # "waiting"
         /\ i > at => Fresh(Start[i])
  /\ waiter = "wait" /\ ~srv.failed /\ (\A p \in Prepares : prep[p] \notin {"append", "run", "failing"}) =>
       \A i \in 1..Len(Start) : Settled(Start[i])

\* The inductive invariant.
TaskIInv == TypeOK /\ TasksOnce /\ OnePrepare /\ Managed /\ RunsCounted /\ StartOrder

\* Of a Workspace that was RUNNING, the PRE_STOP tasks up to the current one,
\* then all of them, are done.
StopOrder ==
  /\ ~IsBuild /\ mgr.made /\ mgr.appended
  /\ main = "prestop" /\ faults = 0 => \A i \in 1..stop.at - 1 : StopDone(i)
  /\ main \in {"snapshot", "close", "grpc", "exited"} /\ faults = 0 =>
       \A i \in 1..Len(Stop) : StopDone(i)
=============================================================================
