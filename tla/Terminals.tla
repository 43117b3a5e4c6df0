------------------------------ MODULE Terminals -----------------------------
(***************************************************************************)
(* One interactive terminal of a Workspace (workspace/terminal.go) and the *)
(* clients that attach to it with the SDK (cordium-go/terminal.go).        *)
(*                                                                         *)
(* The shell's output goes through the pty, stdoutCh, the replay buffer    *)
(* and the channel of every subscription; a chunk is its number.  What the *)
(* API server forwards is part of "wire".  The two sends of                *)
(* sendInitListenMsg find an unused stream and do not block, so its read   *)
(* lock is never seen.  Window sizes are not modelled.                     *)
(***************************************************************************)
EXTENDS Naturals, Sequences, FiniteSets

CONSTANTS
  Listeners, \* the clients that attach
  Readers,   \* the ones that read their events
  SubBuffer, \* capacity of a subscription (1000 in the code)
  OutBuffer, \* capacity of stdoutCh (1000)
  InBuffer,  \* capacity of stdinCh (1000)
  BufSize,   \* what the replay buffer keeps (500000 bytes)
  Window,    \* what the pty and a stream hold
  MaxChunks, \* bound: chunks of output
  MaxWrites, \* bound: writes to the terminal
  Close      \* the message that the terminal was closed

ASSUME TerminalAssumption ==
  /\ IsFiniteSet(Listeners) /\ Readers \subseteq Listeners
  /\ SubBuffer \in Nat \ {0} /\ OutBuffer \in Nat \ {0} /\ InBuffer \in Nat \ {0}
  /\ BufSize \in Nat \ {0} /\ Window \in Nat \ {0}
  /\ MaxChunks \in Nat /\ MaxWrites \in Nat /\ Close \notin Nat

VARIABLES
  shell,  \* the shell with its pty
  terminal,   \* the terminal: CreateTerminal, its entry in termMap, its goroutines
  stdin,  \* stdinCh, startStdinLoop and a call of WriteDataTerminal
  handler,    \* per listener: the handler ListenTerminal, its subscription, its stream
  client  \* per listener: the Terminal of the SDK

terminalVars == <<shell, terminal, stdin, handler, client>>

Chunks == 1..MaxChunks
NoChunk == 0
Messages == Seq(Chunks) \cup {<<Close>>}

TerminalInit ==
  /\ shell = [st |-> "none", exited |-> FALSE, made |-> 0, pty |-> <<>>]
  /\ terminal = [create |-> "run", listed |-> FALSE, removed |-> FALSE, closeCh |-> FALSE,
             isClosed |-> FALSE, stdoutCh |-> <<>>, reader |-> "off", sender |-> "off",
             chunk |-> NoChunk, buf |-> <<>>, waiter |-> "off"]
  /\ stdin = [ch |-> 0, loop |-> "off", write |-> "off", writes |-> 0]
  /\ handler = [l \in Listeners |-> [pc |-> "off", subscribed |-> FALSE, msgCh |-> <<>>, wire |-> <<>>]]
  /\ client = [l \in Listeners |-> [st |-> "off", got |-> <<>>]]

-----------------------------------------------------------------------------
(* The shell. *)

Produce ==
  /\ shell.st = "up" /\ shell.made < MaxChunks /\ Len(shell.pty) < Window
  /\ shell' = [shell EXCEPT !.made = @ + 1, !.pty = Append(@, shell.made + 1)]
  /\ UNCHANGED <<terminal, stdin, handler, client>>

ShellExits ==
  /\ shell.st = "up"
  /\ shell' = [shell EXCEPT !.st = "dead", !.exited = TRUE]
  /\ UNCHANGED <<terminal, stdin, handler, client>>

-----------------------------------------------------------------------------
(* CreateTerminal and RemoveTerminal. *)

\* run starts the shell and the goroutines.
RunTerminal ==
  /\ terminal.create = "run"
  /\ shell' = [shell EXCEPT !.st = "up"]
  /\ terminal' = [terminal EXCEPT !.create = "add", !.reader = "on", !.sender = "on", !.waiter = "wait"]
  /\ stdin' = [stdin EXCEPT !.loop = "on"]
  /\ UNCHANGED <<handler, client>>

\* Only then is the terminal entered into termMap.
AddTerminal ==
  /\ terminal.create = "add"
  /\ terminal' = [terminal EXCEPT !.create = "done", !.listed = TRUE]
  /\ UNCHANGED <<shell, stdin, handler, client>>

\* RemoveTerminal by whoever knows the ID; killAndClose runs in a goroutine.
RemoveTerminal ==
  /\ terminal.listed
  /\ terminal' = [terminal EXCEPT !.listed = FALSE, !.removed = TRUE]
  /\ UNCHANGED <<shell, stdin, handler, client>>

KillAndClose ==
  /\ terminal.removed /\ ~terminal.closeCh
  /\ terminal' = [terminal EXCEPT !.closeCh = TRUE]
  /\ UNCHANGED <<shell, stdin, handler, client>>

-----------------------------------------------------------------------------
(* The loops of the terminal. *)

\* startStdoutLoop.
ReadPty ==
  /\ terminal.reader = "on" /\ shell.pty # <<>> /\ Len(terminal.stdoutCh) < OutBuffer
  /\ terminal' = [terminal EXCEPT !.stdoutCh = Append(@, Head(shell.pty))]
  /\ shell' = [shell EXCEPT !.pty = Tail(@)]
  /\ UNCHANGED <<stdin, handler, client>>

\* The pty has no writer any more, or close() has closed it or canceled the context.
ReadPtyErr ==
  /\ terminal.reader = "on"
  /\ (shell.st = "dead" /\ shell.pty = <<>>) \/ terminal.isClosed
  /\ terminal' = [terminal EXCEPT !.reader = "off"]
  /\ shell' = [shell EXCEPT !.pty = <<>>]
  /\ UNCHANGED <<stdin, handler, client>>

\* The newest BufSize of the output.
Trimmed(s) == IF Len(s) > BufSize THEN SubSeq(s, Len(s) - BufSize + 1, Len(s)) ELSE s

\* startSendLoop: setBuf, then publishMsg.
SetBuf ==
  /\ terminal.sender = "on" /\ terminal.stdoutCh # <<>>
  /\ terminal' = [terminal EXCEPT !.sender = "publish", !.chunk = Head(terminal.stdoutCh),
                !.stdoutCh = Tail(@), !.buf = Trimmed(Append(@, Head(terminal.stdoutCh)))]
  /\ UNCHANGED <<shell, stdin, handler, client>>

\* A subscription that is full loses the message.
Offer(ch, m) == IF Len(ch) < SubBuffer THEN Append(ch, m) ELSE ch

PublishMsg(m) ==
  handler' = [l \in Listeners |->
            IF handler[l].subscribed THEN [handler[l] EXCEPT !.msgCh = Offer(@, m)] ELSE handler[l]]

PublishStdout ==
  /\ terminal.sender = "publish"
  /\ PublishMsg(<<terminal.chunk>>)
  /\ terminal' = [terminal EXCEPT !.sender = "on", !.chunk = NoChunk]
  /\ UNCHANGED <<shell, stdin, client>>

SendLoopEnds ==
  /\ terminal.sender = "on" /\ terminal.isClosed
  /\ terminal' = [terminal EXCEPT !.sender = "off", !.stdoutCh = <<>>]
  /\ UNCHANGED <<shell, stdin, handler, client>>

\* startStdinLoop.  A shell that reads its input takes what is written.  (Variant: the
\* loop ends after a write.)
StdinLoopOnce == [stdin EXCEPT !.ch = @ - 1, !.loop = "ended"]
StdinTaken == [stdin EXCEPT !.ch = @ - 1]

StdinLoop ==
  /\ stdin.loop = "on" /\ stdin.ch > 0 /\ shell.st = "up" /\ ~terminal.isClosed
  /\ stdin' = StdinTaken
  /\ UNCHANGED <<shell, terminal, handler, client>>

\* The write fails, or the context is done.
StdinLoopEnds ==
  /\ stdin.loop = "on"
  /\ (stdin.ch > 0 /\ shell.st = "dead") \/ terminal.isClosed
  /\ stdin' = [stdin EXCEPT !.loop = "ended", !.ch = IF @ > 0 /\ ~terminal.isClosed THEN @ - 1 ELSE @]
  /\ UNCHANGED <<shell, terminal, handler, client>>

\* WriteDataTerminal finds the terminal and then waits for room.
WriteData ==
  /\ terminal.listed /\ stdin.write = "off" /\ stdin.writes < MaxWrites
  /\ stdin' = [stdin EXCEPT !.write = "send", !.writes = @ + 1]
  /\ UNCHANGED <<shell, terminal, handler, client>>

WriteSent ==
  /\ stdin.write = "send" /\ stdin.ch < InBuffer
  /\ stdin' = [stdin EXCEPT !.write = "off", !.ch = @ + 1]
  /\ UNCHANGED <<shell, terminal, handler, client>>

-----------------------------------------------------------------------------
(* waitAndClose. *)

\* What ends the wait.
Woken == shell.st = "dead" \/ stdin.loop = "ended" \/ terminal.closeCh

WaitEnds ==
  /\ terminal.waiter = "wait" /\ Woken
  /\ terminal' = [terminal EXCEPT !.waiter = "publish"]
  /\ UNCHANGED <<shell, stdin, handler, client>>

\* Every listener is told, and the shell is killed if it has not exited.
PublishClose ==
  /\ terminal.waiter = "publish"
  /\ PublishMsg(<<Close>>)
  /\ shell' = [shell EXCEPT !.st = "dead"]
  /\ terminal' = [terminal EXCEPT !.waiter = "close"]
  /\ UNCHANGED <<stdin, client>>

CloseTerminal ==
  /\ terminal.waiter = "close"
  /\ terminal' = [terminal EXCEPT !.waiter = "delete", !.isClosed = TRUE]
  /\ handler' = [l \in Listeners |-> [handler[l] EXCEPT !.subscribed = FALSE]]
  /\ UNCHANGED <<shell, stdin, client>>

DeleteTerminal ==
  /\ terminal.waiter = "delete"
  /\ terminal' = [terminal EXCEPT !.waiter = "off", !.listed = FALSE]
  /\ UNCHANGED <<shell, stdin, handler, client>>

-----------------------------------------------------------------------------
(* ListenTerminal. *)

\* attachTerminal, with an ID that CreateTerminal or ListTerminal has returned.
Attach(l) ==
  /\ client[l].st = "off" /\ terminal.listed
  /\ client' = [client EXCEPT ![l].st = "open"]
  /\ handler' = [handler EXCEPT ![l].pc = "init"]
  /\ UNCHANGED <<shell, terminal, stdin>>

Over(l) == [handler[l] EXCEPT !.pc = "ended", !.subscribed = FALSE, !.msgCh = <<>>]

SendInitListenMsg(l) ==
  /\ handler[l].pc = "init"
  /\ handler' = [handler EXCEPT ![l].pc = "subscribe",
               ![l].wire = IF terminal.buf = <<>> \/ client[l].st # "open" THEN @ ELSE <<terminal.buf>>]
  /\ UNCHANGED <<shell, terminal, stdin, client>>

Subscribe(l) ==
  /\ handler[l].pc = "subscribe"
  /\ handler' = [handler EXCEPT ![l].pc = "loop", ![l].subscribed = TRUE]
  /\ UNCHANGED <<shell, terminal, stdin, client>>

\* The loop, and drainSubscription.
ListenSend(l) ==
  /\ handler[l].pc \in {"loop", "drain"} /\ client[l].st = "open"
  /\ handler[l].msgCh # <<>> /\ Len(handler[l].wire) < Window
  /\ handler' = [handler EXCEPT ![l].wire = Append(@, Head(handler[l].msgCh)), ![l].msgCh = Tail(@)]
  /\ UNCHANGED <<shell, terminal, stdin, client>>

\* doneCh is closed.  (Variant: the loop does not look at it.)
NeverDone == FALSE
Done == terminal.isClosed

ListenDone(l) ==
  /\ handler[l].pc = "loop" /\ Done
  /\ handler' = [handler EXCEPT ![l].pc = "drain"]
  /\ UNCHANGED <<shell, terminal, stdin, client>>

DrainEnds(l) ==
  /\ handler[l].pc = "drain" /\ (handler[l].msgCh = <<>> \/ client[l].st # "open")
  /\ handler' = [handler EXCEPT ![l] = Over(l)]
  /\ UNCHANGED <<shell, terminal, stdin, client>>

\* The client has let the stream go.
ListenCanceled(l) ==
  /\ handler[l].pc = "loop" /\ client[l].st # "open"
  /\ handler' = [handler EXCEPT ![l] = Over(l)]
  /\ UNCHANGED <<shell, terminal, stdin, client>>

-----------------------------------------------------------------------------
(* The SDK. *)

\* What a client has read is forgotten when its stream ends.
Ended(st) == [st |-> st, got |-> <<>>]

\* The goroutine of attachTerminal.
Receive(l) ==
  /\ client[l].st = "open" /\ l \in Readers /\ handler[l].wire # <<>>
  /\ LET m == Head(handler[l].wire) IN
     IF m = <<Close>>
     THEN /\ client' = [client EXCEPT ![l] = Ended("closed")]
          /\ handler' = [handler EXCEPT ![l].wire = <<>>]
     ELSE /\ client' = [client EXCEPT ![l].got = @ \o m]
          /\ handler' = [handler EXCEPT ![l].wire = Tail(@)]
  /\ UNCHANGED <<shell, terminal, stdin>>

ReceiveEnd(l) ==
  /\ client[l].st = "open" /\ l \in Readers
  /\ handler[l].pc = "ended" /\ handler[l].wire = <<>>
  /\ client' = [client EXCEPT ![l] = Ended("eof")]
  /\ UNCHANGED <<shell, terminal, stdin, handler>>

\* Detach cancels the stream.
Detach(l) ==
  /\ client[l].st = "open"
  /\ client' = [client EXCEPT ![l] = Ended("detached")]
  /\ handler' = [handler EXCEPT ![l].wire = <<>>]
  /\ UNCHANGED <<shell, terminal, stdin>>

-----------------------------------------------------------------------------
Reader == ReadPty \/ ReadPtyErr
Sender == SetBuf \/ PublishStdout \/ SendLoopEnds
Stdin == StdinLoop \/ StdinLoopEnds
WaitAndClose == WaitEnds \/ PublishClose \/ CloseTerminal \/ DeleteTerminal
Listening(l) ==
  \/ SendInitListenMsg(l) \/ Subscribe(l) \/ ListenSend(l)
  \/ ListenDone(l) \/ DrainEnds(l) \/ ListenCanceled(l)

TerminalNext ==
  \/ Produce \/ ShellExits \/ RunTerminal \/ AddTerminal \/ RemoveTerminal \/ KillAndClose
  \/ Reader \/ Sender \/ Stdin \/ WriteData \/ WriteSent \/ WaitAndClose
  \/ \E l \in Listeners :
       Attach(l) \/ Listening(l) \/ Receive(l) \/ ReceiveEnd(l) \/ Detach(l)

TerminalSpec == TerminalInit /\ [][TerminalNext]_terminalVars

\* Goroutines go on, select does not neglect a ready channel for ever, and the readers
\* read.  Nobody has to type, attach, detach or remove, and a shell need not end.
TerminalFairness ==
  /\ WF_terminalVars(AddTerminal) /\ WF_terminalVars(KillAndClose) /\ WF_terminalVars(Reader) /\ WF_terminalVars(Sender)
  /\ WF_terminalVars(Stdin) /\ WF_terminalVars(WriteSent) /\ WF_terminalVars(WaitAndClose)
  /\ \A l \in Listeners :
       /\ WF_terminalVars(Listening(l)) /\ SF_terminalVars(ListenDone(l))
       /\ WF_terminalVars(Receive(l)) /\ WF_terminalVars(ReceiveEnd(l))

TerminalFairSpec == TerminalSpec /\ TerminalFairness

-----------------------------------------------------------------------------
\* The type invariant: no channel holds more than it was made for.
TerminalTypeOK ==
  /\ shell \in [st : {"none", "up", "dead"}, exited : BOOLEAN, made : Nat, pty : Seq(Chunks)]
  /\ terminal \in [create : {"run", "add", "done"}, listed : BOOLEAN, removed : BOOLEAN,
               closeCh : BOOLEAN, isClosed : BOOLEAN, stdoutCh : Seq(Chunks),
               reader : {"off", "on"}, sender : {"off", "on", "publish"},
               chunk : Chunks \cup {NoChunk}, buf : Seq(Chunks),
               waiter : {"off", "wait", "publish", "close", "delete"}]
  /\ Len(terminal.stdoutCh) <= OutBuffer /\ Len(terminal.buf) <= BufSize
  /\ stdin \in [ch : 0..InBuffer, loop : {"off", "on", "ended"}, write : {"off", "send"},
                writes : 0..MaxWrites]
  /\ handler \in [Listeners -> [pc : {"off", "init", "subscribe", "loop", "drain", "ended"},
                                subscribed : BOOLEAN, msgCh : Seq(Messages), wire : Seq(Messages)]]
  /\ client \in [Listeners -> [st : {"off", "open", "closed", "eof", "detached"}, got : Seq(Chunks)]]
  /\ \A l \in Listeners :
       Len(handler[l].msgCh) <= SubBuffer /\ Len(handler[l].wire) <= Window

\* Each of several clients reads the output in the order of the shell, and at most one
\* chunk twice: the one that was in the replay buffer and not yet published when its
\* handler subscribed.
OutputInOrder ==
  \A l \in Listeners :
    LET s == client[l].got IN
      /\ \A i, j \in 1..Len(s) : i < j => s[i] <= s[j]
      /\ \A i, j \in 1..Len(s) - 1 : s[i] = s[i + 1] /\ s[j] = s[j + 1] => i = j

\* A terminal outlives its clients: it is closed because its shell has exited or because
\* it was removed, whatever the clients that listen or write do.
OutlivesClients == terminal.isClosed => shell.exited \/ terminal.removed

\* What holds of a terminal and its listeners at every moment.
TerminalInv == TerminalTypeOK /\ OutputInOrder /\ OutlivesClients

\* The newest chunk of the replay buffer, and the newest one that is published.
Newest == IF terminal.buf = <<>> THEN 0 ELSE terminal.buf[Len(terminal.buf)]
Published == IF terminal.sender = "publish" THEN terminal.chunk - 1 ELSE Newest

\* Chunks after lo, up to hi, each one newer than the one before.
Rising(s, lo, hi) ==
  /\ s \in Seq(Nat)
  /\ \A i \in 1..Len(s) : lo < s[i] /\ s[i] <= hi
  /\ \A i, j \in 1..Len(s) : i < j => s[i] < s[j]

\* Chunks up to hi in their order, one of them twice.
OnceTwice(s, hi) ==
  /\ s \in Seq(Nat)
  /\ \A i \in 1..Len(s) : s[i] <= hi
  /\ \E n \in 1..Len(s) : \A i, j \in 1..Len(s) :
       i < j => s[i] < s[j] \/ (s[i] = s[j] /\ i = n /\ j = n + 1)

\* Messages of one chunk each, that rise in the same way; a Close is anywhere.
Singles(s, lo, hi) ==
  /\ s \in Seq(Seq(Nat) \cup {<<Close>>})
  /\ \A i \in 1..Len(s) :
       s[i] # <<Close>> => Len(s[i]) = 1 /\ lo < s[i][1] /\ s[i][1] <= hi
  /\ \A i, j \in 1..Len(s) :
       i < j /\ s[i] # <<Close>> /\ s[j] # <<Close>> => s[i][1] < s[j][1]

\* From the pty over stdoutCh to the replay buffer the output is in its order.
PipeInOrder ==
  /\ Rising(terminal.buf, 0, Newest)
  /\ \E n \in Newest..shell.made :
       Rising(terminal.stdoutCh, Newest, n) /\ Rising(shell.pty, n, shell.made)
  /\ terminal.sender = "publish" => terminal.buf # <<>> /\ terminal.chunk = Newest

\* A client c that is attached by the handler h when p is published: what is published
\* after the b-th chunk comes as a message of its own, first in the stream (up to n) and
\* then in the subscription.  What it has read ends with the b-th chunk or, if none came
\* twice yet, with one at most that comes again; or it has not read the replay buffer.
StreamInOrder(h, c, p) ==
  \E b, n \in 0..p :
    /\ b <= n /\ Singles(h.msgCh, n, p)
    /\ \/ /\ Rising(c.got, 0, b + 1) \/ OnceTwice(c.got, b)
          /\ Singles(h.wire, b, n)
       \/ /\ c.got = <<>> /\ h.wire # <<>>
          /\ Rising(Head(h.wire), 0, b + 1)
          /\ Singles(Tail(h.wire), b, n)

\* A handler that has not subscribed has nothing, and a stream that is over left nothing.
ListenerInOrder(h, c, p) ==
  /\ c.st = "off" <=> h.pc = "off"
  /\ h.pc \in {"off", "init", "subscribe"} => ~h.subscribed /\ h.msgCh = <<>>
  /\ h.pc \in {"off", "init"} => h.wire = <<>> /\ c.got = <<>>
  /\ c.st = "open" => StreamInOrder(h, c, p)
  /\ c.st # "open" => c.got = <<>> /\ h.wire = <<>>

StreamsInOrder == \A l \in Listeners : ListenerInOrder(handler[l], client[l], Published)

\* Whatever leads to close() began with the end of the shell or with RemoveTerminal.
ClosedForAReason ==
  \/ shell.st = "dead" \/ stdin.loop = "ended" \/ terminal.closeCh \/ terminal.isClosed
  \/ terminal.waiter \in {"publish", "close", "delete"}
  => shell.exited \/ terminal.removed

\* The inductive invariant.
TerminalIInv == TerminalTypeOK /\ PipeInOrder /\ StreamsInOrder /\ ClosedForAReason

\* RemoveTerminal, or the exit of the shell, ends the terminal, and the stream of every
\* client that reads ends with it, whenever it subscribed (waitAndClose, ListenTerminal).
TerminalEnds ==
  terminal.removed \/ terminal.isClosed
    ~> /\ terminal.isClosed /\ shell.st = "dead" /\ (terminal.removed => ~terminal.listed)
       /\ \A l \in Readers : client[l].st # "open"
=============================================================================
