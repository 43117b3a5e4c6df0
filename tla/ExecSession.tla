---------------------------- MODULE ExecSession -----------------------------
(***************************************************************************)
(* One command run with the SDK's ExecStream (cordium-go/exec.go) by the   *)
(* Workspace agent (workspace/terminal.go Exec, workspace/task.go), whose  *)
(* output goes through a broker (common/broker/broker.go).                 *)
(*                                                                         *)
(* The chunks of the output are numbered as they are produced.  "pipe" is  *)
(* what the command wrote and readOutputLoop did not read, "sub" the       *)
(* channel of the handler's subscription, "wire" the stream to the client, *)
(* proxies included, and "output" the channel of the session.  One stream  *)
(* of output is modelled; a command is a shell and a child in its group.   *)
(***************************************************************************)
EXTENDS Naturals, Sequences

CONSTANTS
  SubBuffer,  \* SubBufferSize (16 in the code)
  OutBuffer,  \* capacity of the session's output channel (64 in the code)
  WireWindow,     \* what the pipe and the stream hold
  MaxChunks,  \* bound: chunks of output
  Exit        \* the message that the command has exited

ASSUME ExecAssumption ==
  /\ SubBuffer \in Nat \ {0} /\ OutBuffer \in Nat \ {0} /\ WireWindow \in Nat \ {0}
  /\ MaxChunks \in Nat /\ Exit \notin Nat

VARIABLES
  proc,    \* the command: its two processes, the signals on the way, its pipe
  task,    \* isClosed, hasExited, in runningTasks; wait() and readOutputLoop
  broker,  \* the broker's goroutine and the handler's subscription
  handler, \* the agent's Exec and its two goroutines
  wire,    \* messages to the client
  sess     \* the session of the client

execVars == <<proc, task, broker, handler, wire, sess>>

Chunks == 1..MaxChunks
NoChunk == 0

ExecInit ==
  \* The child may ignore SIGTERM.
  /\ \E stubborn \in BOOLEAN :
     proc = [shell |-> "none", child |-> "none", cause |-> "none", kill |-> FALSE,
             term |-> FALSE, timer |-> "off", made |-> 0, pipe |-> <<>>,
             stubborn |-> stubborn]
  /\ task = [isClosed |-> FALSE, hasExited |-> FALSE, running |-> FALSE,
             wait |-> "off", reader |-> "off", chunk |-> NoChunk]
  /\ broker = [on |-> TRUE, canceled |-> FALSE, sub |-> <<>>]
  /\ handler = [pc |-> "run", sender |-> "off", receiver |-> "off"]
  /\ wire = <<>>
  \* The caller of ExecStream may leave the output channel alone.
  /\ \E drained \in BOOLEAN :
     sess = [loop |-> "recv", exited |-> FALSE, code |-> "none", err |-> FALSE,
             killed |-> FALSE, kill |-> "none", canceled |-> FALSE,
             output |-> <<>>, got |-> <<>>, drained |-> drained]

-----------------------------------------------------------------------------
(* The command, and the signals of task.close. *)

Alive(p) == proc[p] = "up"

Produce ==
  /\ Alive("shell") /\ proc.made < MaxChunks /\ Len(proc.pipe) < WireWindow
  /\ proc' = [proc EXCEPT !.made = @ + 1, !.pipe = Append(@, proc.made + 1)]
  /\ UNCHANGED <<task, broker, handler, wire, sess>>

\* The shell waits for its child.
CommandExits ==
  /\ Alive("shell")
  /\ proc' = [proc EXCEPT !.shell = "dead", !.child = "dead", !.cause = "exit"]
  /\ UNCHANGED <<task, broker, handler, wire, sess>>

\* CommandContext kills the shell when its context is canceled.
ShellKilled ==
  /\ Alive("shell") /\ proc.kill
  /\ proc' = [proc EXCEPT !.shell = "dead", !.cause = "SIGKILL"]
  /\ UNCHANGED <<task, broker, handler, wire, sess>>

GroupTerminated ==
  /\ proc.term
  /\ proc' = [proc EXCEPT !.term = FALSE,
       !.shell = IF Alive("shell") THEN "dead" ELSE @,
       !.cause = IF Alive("shell") THEN "SIGTERM" ELSE @,
       !.child = IF Alive("child") /\ ~proc.stubborn THEN "dead" ELSE @]
  /\ UNCHANGED <<task, broker, handler, wire, sess>>

\* terminateProcessGroup, five seconds later; by then the signals sent before have
\* arrived and the shell is dead.
GroupKilled ==
  /\ proc.timer = "on" /\ ~proc.term /\ ~Alive("shell")
  /\ proc' = [proc EXCEPT !.timer = "fired", !.child = IF task.hasExited THEN @ ELSE "dead"]
  /\ UNCHANGED <<task, broker, handler, wire, sess>>

\* task.close by whoever comes first.  Nothing that it does can be seen to be half
\* done: the signals and the canceled contexts take effect on their own.
CloseTask(t) ==
  IF t.isClosed
  THEN task' = t /\ UNCHANGED <<proc, broker>>
  ELSE /\ task' = [t EXCEPT !.isClosed = TRUE, !.running = FALSE]
       /\ broker' = [broker EXCEPT !.canceled = TRUE]
       /\ proc' = IF proc.shell = "none" THEN proc
                  ELSE [proc EXCEPT !.kill = TRUE, !.term = ~t.hasExited,
                          !.timer = IF t.hasExited THEN @ ELSE "on"]

-----------------------------------------------------------------------------
(* broker.go *)

\* The broker's goroutine offers a value to the subscription.
Offer(sub, m) == IF Len(sub) < SubBuffer THEN Append(sub, m) ELSE sub

\* Publish returns when the broker has taken the value or is done.
Published(m) ==
  broker' = IF broker.on THEN [broker EXCEPT !.sub = Offer(@, m)] ELSE broker

\* The context of the task is canceled.  What is in the channel can still be read.
BrokerDone ==
  /\ broker.on /\ broker.canceled
  /\ broker' = [broker EXCEPT !.on = FALSE]
  /\ UNCHANGED <<proc, task, handler, wire, sess>>

-----------------------------------------------------------------------------
(* task.go *)

\* readOutputLoop.
ReadChunk ==
  /\ task.reader = "read" /\ proc.pipe # <<>>
  /\ task' = [task EXCEPT !.reader = "publish", !.chunk = Head(proc.pipe)]
  /\ proc' = [proc EXCEPT !.pipe = Tail(@)]
  /\ UNCHANGED <<broker, handler, wire, sess>>

\* The end of the output, or cmd.Wait has closed the pipe under the reader.
ReadEnds ==
  /\ task.reader = "read"
  /\ \/ proc.pipe = <<>> /\ ~Alive("shell") /\ ~Alive("child")
     \/ task.wait \notin {"off", "wait"}
  /\ task' = [task EXCEPT !.reader = "off"]
  /\ proc' = [proc EXCEPT !.pipe = <<>>]
  /\ UNCHANGED <<broker, handler, wire, sess>>

PublishStdout ==
  /\ task.reader = "publish"
  /\ Published(task.chunk)
  /\ task' = [task EXCEPT !.reader = "read", !.chunk = NoChunk]
  /\ UNCHANGED <<proc, handler, wire, sess>>

\* wait: cmd.Wait, the Exit, and close.
CmdWait ==
  /\ task.wait = "wait" /\ proc.shell = "dead"
  /\ task' = [task EXCEPT !.wait = "publish"]
  /\ UNCHANGED <<proc, broker, handler, wire, sess>>

PublishExit ==
  /\ task.wait = "publish"
  /\ Published(Exit)
  /\ task' = [task EXCEPT !.wait = "close"]
  /\ UNCHANGED <<proc, handler, wire, sess>>

WaitClose ==
  /\ task.wait = "close"
  /\ CloseTask([task EXCEPT !.wait = "off", !.hasExited = TRUE])
  /\ UNCHANGED <<handler, wire, sess>>

-----------------------------------------------------------------------------
(* terminal.go, Exec *)

Serving == [handler EXCEPT !.pc = "serve", !.sender = "on", !.receiver = "on"]

ExecRun ==
  /\ handler.pc = "run"
  /\ handler' = Serving
  /\ proc' = [proc EXCEPT !.shell = "up", !.child = "up"]
  /\ task' = [task EXCEPT !.running = TRUE, !.wait = "wait", !.reader = "read"]
  /\ UNCHANGED <<broker, wire, sess>>

\* cmd.Start fails: the task is closed, and run returns no error.
ExecStartFails ==
  /\ handler.pc = "run"
  /\ handler' = Serving
  /\ CloseTask(task)
  /\ UNCHANGED <<wire, sess>>

\* The first goroutine sends until the Exit.
SendResponse ==
  /\ handler.pc = "serve" /\ handler.sender = "on" /\ ~sess.canceled
  /\ broker.sub # <<>> /\ Len(wire) < WireWindow
  /\ wire' = Append(wire, Head(broker.sub))
  /\ broker' = [broker EXCEPT !.sub = Tail(@)]
  /\ handler' = [handler EXCEPT !.sender = IF Head(broker.sub) = Exit THEN "off" ELSE @]
  /\ UNCHANGED <<proc, task, sess>>

\* The second goroutine receives a Kill.
RecvKill ==
  /\ handler.pc = "serve" /\ handler.receiver = "on" /\ sess.kill = "sent"
  /\ handler' = [handler EXCEPT !.receiver = "off"]
  /\ sess' = [sess EXCEPT !.kill = "received"]
  /\ CloseTask(task)
  /\ UNCHANGED wire

\* The stream's context is done when the client lets it go.
ExecReturns ==
  /\ handler.pc = "serve" /\ sess.canceled
  /\ handler' = [handler EXCEPT !.pc = "returned", !.sender = "off", !.receiver = "off"]
  /\ CloseTask(task)
  /\ UNCHANGED <<wire, sess>>

-----------------------------------------------------------------------------
(* exec.go *)

\* The end of receiveLoop lets the stream go.
Finished(s) == [s EXCEPT !.loop = "done", !.canceled = TRUE]

\* receiveLoop and deliver: a chunk waits for room in the output channel.
RecvChunk ==
  /\ sess.loop = "recv" /\ wire # <<>> /\ Head(wire) # Exit
  /\ Len(sess.output) < OutBuffer
  /\ sess' = [sess EXCEPT !.output = Append(@, Head(wire))]
  /\ wire' = Tail(wire)
  /\ UNCHANGED <<proc, task, broker, handler>>

RecvExit ==
  /\ sess.loop = "recv" /\ wire # <<>> /\ Head(wire) = Exit
  /\ sess' = Finished([sess EXCEPT !.exited = TRUE,
                         !.code = IF proc.cause = "exit" THEN "own" ELSE "minus1"])
  /\ wire' = <<>>
  /\ UNCHANGED <<proc, task, broker, handler>>

\* setStreamErr: the end of the stream of a killed command is its exit.  (Variant: of
\* every command.)
StreamErrIsExit == [sess EXCEPT !.exited = TRUE, !.code = "minus1"]
StreamErr ==
  IF sess.killed THEN [sess EXCEPT !.exited = TRUE, !.code = "minus1"]
  ELSE [sess EXCEPT !.err = TRUE]

\* The context is done: Recv fails, or deliver gives up.
RecvErr ==
  /\ sess.loop = "recv" /\ sess.canceled
  /\ \/ sess' = Finished(StreamErr)
     \/ /\ wire # <<>> /\ Head(wire) # Exit /\ Len(sess.output) = OutBuffer
        /\ sess' = Finished([sess EXCEPT !.err = TRUE])
  /\ wire' = <<>>
  /\ UNCHANGED <<proc, task, broker, handler>>

Kill ==
  /\ sess.loop = "recv" /\ ~sess.killed /\ ~sess.canceled
  /\ sess' = [sess EXCEPT !.killed = TRUE, !.kill = "sent"]
  /\ UNCHANGED <<proc, task, broker, handler, wire>>

\* The grace period of Kill.  (Variant: there is none.)
NoGracePeriod == FALSE
GracePeriodOver == sess.killed /\ sess.loop # "done" /\ ~sess.canceled

KillTimeout ==
  /\ GracePeriodOver
  /\ sess' = [sess EXCEPT !.canceled = TRUE]
  /\ UNCHANGED <<proc, task, broker, handler, wire>>

\* Close, or the end of the caller's context.
CloseSession ==
  /\ sess.loop = "recv" /\ ~sess.canceled
  /\ sess' = [sess EXCEPT !.canceled = TRUE]
  /\ UNCHANGED <<proc, task, broker, handler, wire>>

\* The caller reads the output channel.
Consume ==
  /\ sess.drained /\ sess.output # <<>>
  /\ sess' = [sess EXCEPT !.got = Append(@, Head(sess.output)), !.output = Tail(@)]
  /\ UNCHANGED <<proc, task, broker, handler, wire>>

-----------------------------------------------------------------------------
Signals == ShellKilled \/ GroupTerminated
Reader == ReadChunk \/ ReadEnds \/ PublishStdout
Waiter == CmdWait \/ PublishExit \/ WaitClose
Receive == RecvChunk \/ RecvExit \/ RecvErr

ExecNext ==
  \/ ExecRun \/ ExecStartFails \/ Produce \/ CommandExits
  \/ Signals \/ GroupKilled \/ BrokerDone \/ Reader \/ Waiter
  \/ SendResponse \/ RecvKill \/ ExecReturns
  \/ Receive \/ Kill \/ KillTimeout \/ CloseSession \/ Consume

ExecSpec == ExecInit /\ [][ExecNext]_execVars

\* Goroutines, signals and timers go on, and a caller that drains the output goes on
\* draining it.  A command need not end, nobody has to kill it or to give up, and a
\* start need not succeed.
ExecFairness ==
  /\ WF_execVars(ExecRun \/ ExecStartFails)
  /\ WF_execVars(ShellKilled) /\ WF_execVars(GroupTerminated) /\ WF_execVars(GroupKilled)
  /\ WF_execVars(BrokerDone) /\ WF_execVars(Reader) /\ WF_execVars(Waiter)
  /\ WF_execVars(SendResponse) /\ WF_execVars(RecvKill) /\ WF_execVars(ExecReturns)
  /\ WF_execVars(Receive) /\ WF_execVars(KillTimeout) /\ WF_execVars(Consume)

ExecFairSpec == ExecSpec /\ ExecFairness

-----------------------------------------------------------------------------
Messages == Chunks \cup {Exit}
ProcRecords ==
  [shell : {"none", "up", "dead"}, child : {"none", "up", "dead"},
   cause : {"none", "exit", "SIGTERM", "SIGKILL"}, kill : BOOLEAN, term : BOOLEAN,
   timer : {"off", "on", "fired"}, made : Nat, pipe : Seq(Chunks), stubborn : BOOLEAN]
TaskRecords ==
  [isClosed : BOOLEAN, hasExited : BOOLEAN, running : BOOLEAN,
   wait : {"off", "wait", "publish", "close"}, reader : {"off", "read", "publish"},
   chunk : Chunks \cup {NoChunk}]
SessRecords ==
  [loop : {"recv", "done"}, exited : BOOLEAN, code : {"none", "own", "minus1"},
   err : BOOLEAN, killed : BOOLEAN, kill : {"none", "sent", "received"},
   canceled : BOOLEAN, output : Seq(Chunks), got : Seq(Chunks), drained : BOOLEAN]

\* The type invariant.
ExecTypeOK ==
  /\ proc \in ProcRecords /\ task \in TaskRecords /\ sess \in SessRecords
  /\ broker \in [on : BOOLEAN, canceled : BOOLEAN, sub : Seq(Messages)]
  /\ handler \in [pc : {"run", "serve", "returned"}, sender : {"on", "off"},
                  receiver : {"on", "off"}]
  /\ wire \in Seq(Messages)
  /\ Len(broker.sub) <= SubBuffer /\ Len(wire) <= WireWindow /\ Len(sess.output) <= OutBuffer

\* The output on its way, oldest first.
InFlight ==
  sess.got \o sess.output \o wire \o broker.sub
    \o (IF task.chunk = NoChunk THEN <<>> ELSE <<task.chunk>>) \o proc.pipe

Precedes(m, n) == m # Exit /\ n # Exit => m < n

\* Chunks may be dropped by the broker, but what the caller reads is in the order in
\* which the command wrote it, through the pipe, the broker, the stream and the channel.
OutputInOrder ==
  \A i, j \in 1..Len(InFlight) : i < j => Precedes(InFlight[i], InFlight[j])

\* A result that is not an error and not of a killed command is of a command that has
\* ended; a session that was let go reports an error, not an exit.
ResultIsTrue ==
  sess.exited /\ ~sess.killed => proc.shell = "dead" /\ (sess.code = "own" => proc.cause = "exit")

\* What holds at every moment of a session.
ExecInv == ExecTypeOK /\ OutputInOrder /\ ResultIsTrue

\* What can be on its way: chunks that the command has written, and the Exit of a shell
\* that is dead.
Written == 1..proc.made \cup (IF proc.shell = "dead" THEN {Exit} ELSE {})

\* Nothing else is on its way, and readOutputLoop holds a chunk only between the read
\* and the publish.
OutputIsWritten ==
  /\ sess.got \in Seq(Written) /\ sess.output \in Seq(Written) /\ wire \in Seq(Written)
  /\ broker.sub \in Seq(Written) /\ proc.pipe \in Seq(Written)
  /\ task.chunk \in Written \cup {NoChunk}
  /\ task.reader = "publish" <=> task.chunk # NoChunk

\* The Exit is published when the shell is dead, and there is neither a shell nor a reader
\* before Exec runs the command.
ExitIsTrue ==
  /\ task.wait \in {"publish", "close"} => proc.shell = "dead"
  /\ handler.pc = "run" => proc.shell = "none" /\ task.reader = "off"

\* The inductive invariant.
ExecIInv == ExecInv /\ OutputIsWritten /\ ExitIsTrue

\* A session that is killed ends, though the agent may never send the Exit of a killed
\* command, because task.close has ended its broker; and a session that is over leaves
\* nothing behind in the agent: its handler returns, its task is out of runningTasks and
\* the shell has ended (Kill, Exec).
SessionEnds ==
  sess.killed \/ sess.loop = "done"
    ~> [](/\ sess.loop = "done"
          /\ handler.pc = "returned" /\ ~task.running /\ ~Alive("shell"))
=============================================================================
