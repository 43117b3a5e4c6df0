--------------------------- MODULE WorkspaceWatch ---------------------------
(***************************************************************************)
(* Waiting for a Workspace: the API server's WatchWorkspace streams        *)
(* (apiserver/mains/workspacewatch.go) and the SDK's WaitFor, which opens  *)
(* one, reconciles, follows it and opens another when it ends              *)
(* (cordium-go/watch.go).                                                  *)
(*                                                                         *)
(* Every write of the Workspace is one version of it.  The store announces *)
(* the versions to the API server in order ("feed"); the API server        *)
(* publishes them to the subscriptions it has at that time.  A wait has    *)
(* one stream at a time: "ch" is the subscription's msgCh, "wire" what is  *)
(* sent and not received.                                                  *)
(***************************************************************************)
EXTENDS Naturals, Sequences

CONSTANTS
  Waiters,    \* concurrent WaitFor calls
  Buffer,     \* watchWorkspaceBufferSize (256 in the code)
  Window,     \* what a stream holds that its client does not read (flow control)
  Polling,    \* waitPollInterval > 0
  MaxWrites,  \* bound: versions of the Workspace
  MaxFaults   \* bound: streams that break, calls that fail

ASSUME WatchAssumption ==
  /\ Buffer \in Nat \ {0} /\ Window \in Nat \ {0}
  /\ Polling \in BOOLEAN /\ MaxWrites \in Nat /\ MaxFaults \in Nat

VARIABLES
  ws,        \* the resource: its version and its state
  feed,      \* versions written and not yet published
  published, \* the last version published
  stream,    \* the stream of each wait, at the server and on the way
  wait,      \* the WaitFor calls
  faults

vars == <<ws, feed, published, stream, wait, faults>>

States == {"STOPPED", "INIT_REQUEST", "RUNNING", "deleted"}
Versions == [v : Nat, st : States]

NoStream == [st |-> "none", ch |-> <<>>, wire |-> <<>>, last |-> 0, lagging |-> FALSE]

Init ==
  /\ ws = [v |-> 0, st |-> "STOPPED"]
  /\ feed = <<>> /\ published = 0
  /\ stream = [w \in Waiters |-> NoStream]
  /\ wait = [w \in Waiters |-> [pc |-> "idle", until |-> "running",
                                result |-> "none"]]
  /\ faults = 0

Fault == faults < MaxFaults /\ faults' = faults + 1

-----------------------------------------------------------------------------
\* The Workspace is started, runs, stops and is deleted, whoever asks for it.
Follows(st) ==
  CASE st = "STOPPED" -> {"INIT_REQUEST", "deleted"}
    [] st = "INIT_REQUEST" -> {"RUNNING", "STOPPED"}
    [] st = "RUNNING" -> {"STOPPED", "deleted"}
    [] OTHER -> {}

Write ==
  /\ ws.v < MaxWrites
  /\ \E st \in Follows(ws.st) : ws' = [v |-> ws.v + 1, st |-> st]
  /\ feed' = Append(feed, ws')
  /\ UNCHANGED <<published, stream, wait, faults>>

-----------------------------------------------------------------------------
(* workspacewatch.go *)

\* WatchWorkspace reads the Workspace, and then makes the subscription.
WatchGet(w) ==
  /\ stream[w].st = "asked"
  /\ \/ ws.st # "deleted" /\ stream' = [stream EXCEPT ![w].st = "got"]
     \/ ws.st = "deleted" /\ stream' = [stream EXCEPT ![w].st = "ended"]
  /\ UNCHANGED <<ws, feed, published, wait, faults>>

NewSub(w) ==
  /\ stream[w].st = "got"
  /\ stream' = [stream EXCEPT ![w].st = "on", ![w].last = published]
  /\ UNCHANGED <<ws, feed, published, wait, faults>>

\* publishMsg for one subscription: a full one is lagging.  (Variant: it is skipped.)
PublishedSkipping(s, m) == IF Len(s.ch) < Buffer THEN [s EXCEPT !.ch = Append(@, m)] ELSE s
PublishedTo(s, m) ==
  IF Len(s.ch) < Buffer THEN [s EXCEPT !.ch = Append(@, m)] ELSE [s EXCEPT !.lagging = TRUE]

\* publishMsg: those that lag are removed before the next message.
PublishMsg ==
  /\ feed # <<>> /\ \A w \in Waiters : ~stream[w].lagging
  /\ stream' = [w \in Waiters |->
       IF stream[w].st = "on" THEN PublishedTo(stream[w], Head(feed)) ELSE stream[w]]
  /\ published' = Head(feed).v
  /\ feed' = Tail(feed)
  /\ UNCHANGED <<ws, wait, faults>>

RemoveSub(w) ==
  /\ stream[w].lagging
  /\ stream' = [stream EXCEPT ![w].st = "dropped", ![w].lagging = FALSE]
  /\ UNCHANGED <<ws, feed, published, wait, faults>>

\* startSendLoop: of doneCh and msgCh the select may choose either.
Send(w) ==
  /\ stream[w].st \in {"on", "dropped"} /\ stream[w].ch # <<>> /\ Len(stream[w].wire) < Window
  /\ stream' = [stream EXCEPT ![w].wire = Append(@, Head(stream[w].ch)), ![w].ch = Tail(@)]
  /\ UNCHANGED <<ws, feed, published, wait, faults>>

\* The handler returns: the client receives what was sent, and the end.
Return(w) ==
  /\ stream[w].st = "dropped"
  /\ stream' = [stream EXCEPT ![w].st = "ended", ![w].ch = <<>>]
  /\ UNCHANGED <<ws, feed, published, wait, faults>>

\* An intermediary, or the end of the API server, breaks the stream.
StreamBreaks(w) ==
  /\ stream[w].st \in {"asked", "got", "on"} /\ Fault
  /\ stream' = [stream EXCEPT ![w] = [NoStream EXCEPT !.st = "ended"]]
  /\ UNCHANGED <<ws, feed, published, wait>>

-----------------------------------------------------------------------------
(* cordium-go/watch.go *)

\* The conditions of WaitUntilRunning and WaitUntilStopped.
Cond(until, st) ==
  CASE st = "deleted" -> "deleted"
    [] st = "STOPPED" -> IF until = "stopped" THEN "done" ELSE "stopped"
    [] st = "RUNNING" /\ until = "running" -> "done"
    [] OTHER -> "none"

\* What a wait does with a version it has read or received.
Judge(w, m, next) ==
  LET verdict == Cond(wait[w].until, m.st)
  IN  IF verdict = "none"
      THEN wait' = [wait EXCEPT ![w].pc = next]
      ELSE wait' = [wait EXCEPT ![w].pc = "over", ![w].result = verdict]

\* The streams of a wait that is over are canceled.
Streaming(w, s) == stream' = [stream EXCEPT ![w] = IF wait'[w].pc = "over" THEN NoStream ELSE s]

WaitFor(w) ==
  /\ wait[w].pc = "idle"
  /\ \E until \in {"running", "stopped"} :
       wait' = [wait EXCEPT ![w].pc = "open", ![w].until = until]
  /\ UNCHANGED <<ws, feed, published, stream, faults>>

\* Opening the stream does not wait for the server's handler.
WatchWorkspace(w) ==
  /\ wait[w].pc = "open"
  /\ wait' = [wait EXCEPT ![w].pc = "reconcile"]
  /\ \/ stream' = [stream EXCEPT ![w] = [NoStream EXCEPT !.st = "asked"]] /\ faults' = faults
     \/ stream' = [stream EXCEPT ![w] = [NoStream EXCEPT !.st = "failed"]] /\ Fault
  /\ UNCHANGED <<ws, feed, published>>

\* reconcile after the stream was opened; a call that fails is not fatal.
Reconcile(w) ==
  /\ wait[w].pc = "reconcile"
  /\ LET next == IF stream[w].st = "failed" THEN "backoff" ELSE "consume"
     IN  \/ Judge(w, ws, next) /\ faults' = faults
         \/ wait' = [wait EXCEPT ![w].pc = next] /\ Fault
  /\ Streaming(w, stream[w])
  /\ UNCHANGED <<ws, feed, published>>

\* consumeWatch: the ticker.  (Variant: there is none.)
NoTicker == FALSE
Ticker == Polling

Poll(w) ==
  /\ wait[w].pc = "consume" /\ Ticker
  /\ Judge(w, ws, "consume")
  /\ Streaming(w, stream[w])
  /\ UNCHANGED <<ws, feed, published, faults>>

\* consumeWatch: a message.
Recv(w) ==
  /\ wait[w].pc = "consume" /\ stream[w].wire # <<>>
  /\ LET m == Head(stream[w].wire)
     IN  /\ Judge(w, m, "consume")
         /\ Streaming(w, [stream[w] EXCEPT !.wire = Tail(@), !.last = m.v])
  /\ UNCHANGED <<ws, feed, published, faults>>

\* consumeWatch: the stream has ended.
RecvEnd(w) ==
  /\ wait[w].pc = "consume" /\ stream[w].st = "ended" /\ stream[w].wire = <<>>
  /\ wait' = [wait EXCEPT ![w].pc = "backoff"]
  /\ stream' = [stream EXCEPT ![w] = NoStream]
  /\ UNCHANGED <<ws, feed, published, faults>>

\* The caller's context ends, or a call fails with an error that is not transient.
GiveUp(w) ==
  /\ wait[w].pc \in {"reconcile", "consume", "backoff"} /\ Fault
  /\ wait' = [wait EXCEPT ![w].pc = "over", ![w].result = "error"]
  /\ stream' = [stream EXCEPT ![w] = NoStream]
  /\ UNCHANGED <<ws, feed, published>>

Backoff(w) ==
  /\ wait[w].pc = "backoff"
  /\ wait' = [wait EXCEPT ![w].pc = "open"]
  /\ stream' = [stream EXCEPT ![w] = NoStream]
  /\ UNCHANGED <<ws, feed, published, faults>>

-----------------------------------------------------------------------------
Server(w) == WatchGet(w) \/ NewSub(w) \/ RemoveSub(w) \/ Send(w) \/ Return(w)
Client(w) == WatchWorkspace(w) \/ Reconcile(w) \/ Recv(w) \/ RecvEnd(w) \/ Backoff(w)

Next ==
  \/ Write \/ PublishMsg
  \/ \E w \in Waiters : Server(w) \/ StreamBreaks(w) \/ WaitFor(w) \/ Client(w) \/ Poll(w) \/ GiveUp(w)

Spec == Init /\ [][Next]_vars

\* The server and the clients go on, and the ticker ticks: consumeWatch chooses it in
\* its select however often messages arrive.  Nobody has to write, to wait or to fail.
Fairness ==
  /\ WF_vars(PublishMsg)
  /\ \A w \in Waiters : WF_vars(Server(w)) /\ WF_vars(Client(w)) /\ WF_vars(Poll(w))

FairSpec == Spec /\ Fairness

-----------------------------------------------------------------------------
StreamStates == {"none", "failed", "asked", "got", "on", "dropped", "ended"}
PCs == {"idle", "open", "reconcile", "consume", "backoff", "over"}
StreamRecords == [st : StreamStates, ch : Seq(Versions), wire : Seq(Versions),
                  last : Nat, lagging : BOOLEAN]
WaitRecords == [pc : PCs, until : {"running", "stopped"},
                result : {"none", "done", "stopped", "deleted", "error"}]

\* The type invariant.
TypeOK ==
  /\ ws \in Versions /\ feed \in Seq(Versions) /\ published \in Nat
  /\ stream \in [Waiters -> StreamRecords]
  /\ \A w \in Waiters : Len(stream[w].ch) <= Buffer /\ Len(stream[w].wire) <= Window
  /\ wait \in [Waiters -> WaitRecords]
  /\ faults \in Nat

\* What the stream of w has for its client, oldest first.
Pending(w) == stream[w].wire \o stream[w].ch

\* A subscription loses nothing: its client receives the versions one by one from
\* where it subscribed, up to the last one published or to the end of the stream.  A
\* slow client is dropped, never skipped over (publishMsg, removeSub).
Gapless ==
  \A w \in Waiters :
    /\ \A i \in 1..Len(Pending(w)) : Pending(w)[i].v = stream[w].last + i
    /\ stream[w].st = "on" /\ ~stream[w].lagging
         => stream[w].last + Len(Pending(w)) = published

\* What holds of every stream, however slow its client is and whenever it is dropped.
WatchInv == TypeOK /\ Gapless

\* The feed has every version that is not published yet, and each once.
FeedFollows ==
  /\ \A i \in 1..Len(feed) : feed[i].v = published + i
  /\ ws.v = published + Len(feed)

\* Gapless for the two halves of a stream: what is sent follows what was received, and
\* what is buffered follows what is sent.
InOrder(s) ==
  /\ \A i \in 1..Len(s.wire) : s.wire[i].v = s.last + i
  /\ \A i \in 1..Len(s.ch) : s.ch[i].v = s.last + Len(s.wire) + i
  /\ s.lagging => s.st = "on"
  /\ s.st \notin {"on", "dropped", "ended"} => s.wire = <<>> /\ s.ch = <<>>

\* A subscription that does not lag has been given everything published since.
UpToDate(s) == s.st = "on" /\ ~s.lagging => s.last + Len(s.wire) + Len(s.ch) = published

\* The inductive invariant.
WatchIInv ==
  /\ TypeOK /\ FeedFollows
  /\ \A w \in Waiters : InOrder(stream[w]) /\ UpToDate(stream[w])

Waiting(w) == wait[w].pc \notin {"idle", "over"}
Satisfied(w) == Waiting(w) /\ Cond(wait[w].until, ws.st) # "none"
Behind(w) ==
  /\ wait[w].pc = "consume"
  /\ \/ stream[w].st \in {"dropped", "ended"}
     \/ stream[w].st = "on" /\ stream[w].last < published

\* A wait whose condition the Workspace satisfies for good does not go on forever,
\* through lost streams, lost calls and the gap between the reconciliation and the
\* subscription, and it does not sleep on a stream that is behind for good, be it slow,
\* dropped as lagging or ended (WaitFor, consumeWatch).
WaitEnds == \A w \in Waiters : []<>~(Satisfied(w) \/ Behind(w))
=============================================================================
