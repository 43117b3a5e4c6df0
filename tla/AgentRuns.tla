------------------------------ MODULE AgentRuns -----------------------------
(***************************************************************************)
(* The runs of one conversation of the AI agent (agent/src): the run       *)
(* manager (runs/manager.ts), the conversation's files                     *)
(* (store/conversations.ts), the event stream of a run (server/server.ts)  *)
(* and a portal that follows it (pages/Agent).                             *)
(*                                                                         *)
(* The server has one thread: a handler runs to its end, and only a crash  *)
(* comes between two of its writes to the disk.  "todo" holds the writes   *)
(* that the running handler has still to do; what it changes in memory is  *)
(* changed when it begins.  A message is told apart by its run and its     *)
(* role, and the text of an answer is the number of its pieces.            *)
(***************************************************************************)
EXTENDS Naturals, Sequences, FiniteSets

CONSTANTS
  MaxRuns,   \* bound: runs of the conversation
  MaxText,   \* bound: pieces of text in an answer
  MaxCrash,  \* bound: crashes of the agent
  MaxDrops   \* bound: lost connections of the portal

ASSUME AgentAssumption ==
  /\ MaxRuns \in Nat \ {0} /\ MaxText \in Nat /\ MaxCrash \in Nat /\ MaxDrops \in Nat

VARIABLES
  run,     \* per run: the ActiveRun in memory, with the answer and its events
  mem,     \* the process: is it up, messageCount and activeRunId
  disk,    \* messages.jsonl, pending.json and conversation.json
  todo,    \* writes of the running handler
  conn,    \* the event stream to the portal
  client,  \* the portal's chat
  crashes, drops

agentVars == <<run, mem, disk, todo, conn, client, crashes, drops>>

Runs == 1..MaxRuns
None == 0
Ended == {"completed", "failed", "cancelled"}

\* A run that a failed write of startRun or of finalize has left behind: it is not done,
\* and no backend works for it.
Broken == {"unstarted", "stuck"}

NoRun == [st |-> "none", aborted |-> FALSE, log |-> <<>>, delta |-> 0, text |-> 0,
          approval |-> "none", tool |-> "none", persist |-> FALSE]
Gone == [NoRun EXCEPT !.st = "gone"]

NoConn == [on |-> FALSE, listening |-> FALSE, queue |-> <<>>]

AgentInit ==
  /\ run = [r \in Runs |-> NoRun]
  /\ mem = [up |-> TRUE, count |-> 0, active |-> None]
  /\ disk = [journal |-> <<>>, pending |-> None, saved |-> {}, count |-> 0, active |-> None]
  /\ todo = <<>>
  /\ conn = NoConn
  /\ client = [st |-> "off", run |-> None, seq |-> 0, text |-> 0]
  /\ crashes = 0 /\ drops = 0

-----------------------------------------------------------------------------
(* The files of the conversation. *)

UserMessage(r) == [run |-> r, role |-> "user", status |-> "completed"]
Answer(r, status) == [run |-> r, role |-> "assistant", status |-> status]

Append_(m) == [op |-> "append", arg |-> m]
Save(count, active) == [op |-> "save", arg |-> [count |-> count, active |-> active]]
Pending(r) == [op |-> "pending", arg |-> r]
ClearPending == [op |-> "clear", arg |-> None]

Answered(r) == \E i \in DOMAIN disk.journal :
                 disk.journal[i].run = r /\ disk.journal[i].role = "assistant"

\* One write of the running handler.  disk.saved remembers the answers that were ever
\* in pending.json.
Write ==
  /\ mem.up /\ todo # <<>>
  /\ todo' = Tail(todo)
  /\ LET w == Head(todo) IN
     disk' = CASE w.op = "append"  -> [disk EXCEPT !.journal = Append(@, w.arg)]
               [] w.op = "save"    -> [disk EXCEPT !.count = w.arg.count, !.active = w.arg.active]
               [] w.op = "pending" -> [disk EXCEPT !.pending = w.arg, !.saved = @ \cup {w.arg}]
               [] w.op = "clear"   -> [disk EXCEPT !.pending = None]
  /\ UNCHANGED <<run, mem, conn, client, crashes, drops>>

\* The server takes the next timer or request.
Ready == mem.up /\ todo = <<>>

-----------------------------------------------------------------------------
(* Events. *)

Event(type, n) == [type |-> type, n |-> n]
Numbered(evs, base) == [i \in DOMAIN evs |-> [type |-> evs[i].type, n |-> evs[i].n, seq |-> base + i]]

\* flushDeltas.
Flushed(ar) == IF ar.delta = 0 THEN <<>> ELSE <<Event("delta", ar.delta)>>

\* push: the events are numbered, kept for replay and written to the listener.
Push(r, ar, evs) ==
  LET new == Numbered(evs, Len(ar.log)) IN
  /\ run' = [run EXCEPT ![r] = [ar EXCEPT !.log = @ \o new]]
  /\ conn' = IF conn.listening /\ client.run = r
             THEN [conn EXCEPT !.queue = @ \o new,
                               !.listening = ~(\E i \in DOMAIN evs : evs[i].type = "end")]
             ELSE conn

\* emit: what is not a delta flushes the deltas before it.
Emit(r, ar, evs) == Push(r, [ar EXCEPT !.delta = 0], Flushed(ar) \o evs)

FlushTimer(r) ==
  /\ Ready /\ run[r].delta > 0
  /\ Emit(r, run[r], <<>>)
  /\ UNCHANGED <<mem, disk, todo, client, crashes, drops>>

-----------------------------------------------------------------------------
(* The run manager. *)

\* The backend works for the run, or the run is just not done.
Active(r) == run[r].st \in {"running", "awaiting_approval"}
Open(r) == Active(r) \/ run[r].st \in Broken

Started == Numbered(<<Event("started", 0)>>, 0)
StartWrites(r) ==
  <<Append_(UserMessage(r)), Save(mem.count + 1, None), Save(mem.count + 1, r)>>

CanStart(r) ==
  /\ Ready /\ run[r].st = "none" /\ mem.active = None
  /\ \A q \in 1..r - 1 : run[q].st # "none"

\* startRun, on a request of the portal or of somebody else.
StartRun(r, mine) ==
  /\ CanStart(r)
  /\ mine => client.st = "off"
  /\ run' = [run EXCEPT ![r] = [NoRun EXCEPT !.st = "running", !.log = Started]]
  /\ mem' = [mem EXCEPT !.count = @ + 1, !.active = r]
  /\ todo' = StartWrites(r)
  /\ client' = IF mine THEN [st |-> "loaded", run |-> r, seq |-> 0, text |-> 0] ELSE client
  /\ UNCHANGED <<disk, conn, crashes, drops>>

\* The write after the first n fails, and the request with it.  After n = 1 nobody knows
\* the run; after that activeByConversation has it, and execute is never called.  (The
\* write after the third is the one of the title.)
StartFails(r, n) ==
  /\ CanStart(r)
  /\ run' = [run EXCEPT ![r] = IF n = 1 THEN Gone
                              ELSE [NoRun EXCEPT !.st = "unstarted",
                                                 !.log = IF n = 2 THEN <<>> ELSE Started]]
  /\ mem' = [mem EXCEPT !.count = @ + 1, !.active = IF n = 1 THEN None ELSE r]
  /\ todo' = SubSeq(StartWrites(r), 1, n)
  /\ UNCHANGED <<disk, conn, client, crashes, drops>>

\* The backend writes a piece of the answer: appendText, and schedulePersist.
AppendText(r) ==
  /\ Ready /\ Active(r) /\ run[r].text < MaxText
  /\ run' = [run EXCEPT ![r].text = @ + 1, ![r].delta = @ + 1, ![r].persist = TRUE]
  /\ UNCHANGED <<mem, disk, todo, conn, client, crashes, drops>>

\* A write that fails is only logged.
PersistTimer(r) ==
  /\ Ready /\ run[r].persist
  /\ run' = [run EXCEPT ![r].persist = FALSE]
  /\ todo' \in {<<Pending(r)>>, <<>>}
  /\ UNCHANGED <<mem, disk, conn, client, crashes, drops>>

\* A tool of the backend asks for an approval.
RequestApproval(r) ==
  /\ Ready /\ run[r].st = "running" /\ run[r].approval = "none" /\ ~run[r].aborted
  /\ Emit(r, [run[r] EXCEPT !.st = "awaiting_approval", !.approval = "pending",
                            !.tool = "awaiting_approval"],
          <<Event("block", 0), Event("updated", 0)>>)
  /\ UNCHANGED <<mem, disk, todo, client, crashes, drops>>

\* finish of a pending approval.
Settled(ar, result) ==
  [ar EXCEPT !.approval = result, !.st = "running",
             !.tool = CASE result = "approved" -> "running"
                        [] result = "rejected" -> "rejected" [] OTHER -> @]

DecideApproval(r, decision) ==
  /\ Ready /\ run[r].approval = "pending"
  /\ Emit(r, Settled(run[r], decision), <<Event("block", 0), Event("updated", 0)>>)
  /\ UNCHANGED <<mem, disk, todo, client, crashes, drops>>

\* The tool goes on after an approval.
ToolRuns(r) ==
  /\ Ready /\ Active(r) /\ run[r].tool = "running"
  /\ Emit(r, [run[r] EXCEPT !.tool = "completed"], <<Event("block", 0)>>)
  /\ UNCHANGED <<mem, disk, todo, client, crashes, drops>>

\* A cancelled run settles its approval.  (Variant: it does not.)
CancelledPending(ar) == [ar EXCEPT !.aborted = TRUE]
Cancelled(ar) ==
  LET aborted == [ar EXCEPT !.aborted = TRUE] IN
  IF ar.approval = "pending" THEN Settled(aborted, "cancelled") ELSE aborted

Cancel(r) ==
  /\ Ready /\ Open(r) /\ ~run[r].aborted
  /\ IF run[r].approval = "pending"
     THEN Emit(r, Cancelled(run[r]), <<Event("block", 0), Event("updated", 0)>>)
     ELSE run' = [run EXCEPT ![r] = Cancelled(run[r])] /\ UNCHANGED conn
  /\ UNCHANGED <<mem, disk, todo, client, crashes, drops>>

\* The order in which finalize writes.  (Variant: pending.json is removed first.)
FinalWritesClearFirst(r, st) ==
  <<ClearPending, Append_(Answer(r, st)), Save(mem.count + 1, r), Save(mem.count + 1, None)>>
FinalWrites(r, st) ==
  <<Append_(Answer(r, st)), Save(mem.count + 1, r), ClearPending, Save(mem.count + 1, None)>>

FinalStatus(ar, result) == IF ar.aborted THEN "cancelled" ELSE result

\* finalize closes the approval and the tool.
Finished(ar, st) ==
  LET settled == IF ar.approval = "pending" THEN Settled(ar, "cancelled") ELSE ar IN
  [settled EXCEPT !.st = st, !.persist = FALSE,
     !.tool = IF @ \in {"running", "awaiting_approval"}
              THEN (IF ar.aborted THEN "cancelled" ELSE "failed") ELSE @]

\* backend.run returns and finalize ends the run.
Finalize(r, result) ==
  /\ Ready /\ Active(r)
  /\ LET st == FinalStatus(run[r], result) IN
     /\ Emit(r, Finished(run[r], st), <<Event("message", run[r].text), Event("end", 0)>>)
     /\ todo' = FinalWrites(r, st)
  /\ mem' = [mem EXCEPT !.count = @ + 1, !.active = None]
  /\ UNCHANGED <<disk, client, crashes, drops>>

\* The write after the first n of finalize fails, which is only logged: the run is never
\* done, nobody is told, and the conversation takes no other run.
FinalizeFails(r, result, n) ==
  /\ Ready /\ Active(r)
  /\ Emit(r, Finished(run[r], "stuck"), <<>>)
  /\ todo' = SubSeq(FinalWrites(r, FinalStatus(run[r], result)), 1, n)
  /\ mem' = [mem EXCEPT !.count = IF n = 0 THEN @ ELSE @ + 1]
  /\ UNCHANGED <<disk, client, crashes, drops>>

\* The retention of a finished run is over.
Forget(r) ==
  /\ Ready /\ run[r].st \in Ended
  /\ run' = [run EXCEPT ![r] = Gone]
  /\ UNCHANGED <<mem, disk, todo, conn, client, crashes, drops>>

-----------------------------------------------------------------------------
(* A crash, and init of the next process. *)

Crash ==
  /\ mem.up /\ crashes < MaxCrash
  /\ mem' = [mem EXCEPT !.up = FALSE]
  /\ todo' = <<>>
  /\ run' = [r \in Runs |-> IF run[r].st = "none" THEN NoRun ELSE Gone]
  /\ conn' = NoConn
  /\ client' = [client EXCEPT !.st = IF @ \in {"loaded", "stream"} THEN "retry" ELSE @]
  /\ crashes' = crashes + 1
  /\ UNCHANGED <<disk, drops>>

\* What init appends for a pending answer.
Recovered(r) == IF Answered(r) THEN {} ELSE {r}

\* activeRunId is of the process that is gone.
ActiveCleared(writes, count, active) ==
  IF active = None THEN writes ELSE Append(writes, Save(count, None))

\* init: messageCount is set right only when there is a pending answer.
Restart ==
  /\ ~mem.up
  /\ LET r == disk.pending
         n == Len(disk.journal)
         fixed == IF n = disk.count THEN <<>> ELSE <<Save(n, disk.active)>>
         appended == IF Recovered(r) = {} THEN <<>>
                     ELSE <<Append_(Answer(r, "interrupted")), Save(n + 1, disk.active)>>
         count == IF r = None THEN disk.count ELSE n + Cardinality(Recovered(r))
     IN
     /\ todo' = ActiveCleared(IF r = None THEN <<>> ELSE fixed \o appended \o <<ClearPending>>,
                              count, disk.active)
     /\ mem' = [up |-> TRUE, count |-> count, active |-> None]
  /\ UNCHANGED <<run, disk, conn, client, crashes, drops>>

-----------------------------------------------------------------------------
(* The event stream and the portal. *)

\* load: the snapshot of the active run, with its deltas flushed.  (Variant: they are
\* not.)  The status of a run whose finalize failed is final, and the portal does not
\* follow it.
SnapshotUnflushed(ar) == <<>>
SnapshotFlush(ar) == Flushed(ar)

Load ==
  /\ Ready /\ client.st \in {"off", "over"} /\ mem.active # None
  /\ LET r == mem.active
         evs == SnapshotFlush(run[r])
     IN
     /\ Push(r, [run[r] EXCEPT !.delta = IF evs = <<>> THEN @ ELSE 0], evs)
     /\ client' = [st |-> IF run[r].st = "stuck" THEN "over" ELSE "loaded", run |-> r,
                   seq |-> Len(run[r].log) + Len(evs), text |-> run[r].text]
  /\ UNCHANGED <<mem, disk, todo, crashes, drops>>

\* The events after a sequence number.
Replay(log, after) ==
  LET kept[i \in 0..Len(log)] ==
        IF i = 0 THEN <<>>
        ELSE IF log[i].seq > after THEN Append(kept[i - 1], log[i]) ELSE kept[i - 1]
  IN kept[Len(log)]

\* streamEvents: 404 for a run that is not known, 204 when nothing is left to replay.
\* (Variant: an unknown run is waited for.)
NothingLeftOnly(ar, replay) == ar.st \in Ended /\ replay = <<>>
NothingLeft(ar, replay) == ar.st = "gone" \/ (ar.st \in Ended /\ replay = <<>>)

Subscribe ==
  /\ Ready /\ client.st \in {"loaded", "retry"}
  /\ LET r == client.run
         ar == run[r]
         log == ar.log \o Numbered(Flushed(ar), Len(ar.log))
         replay == Replay(log, client.seq)
     IN
     \/ /\ NothingLeft(ar, replay)
        /\ client' = [client EXCEPT !.st = "over"]
        /\ UNCHANGED <<run, conn>>
     \/ /\ Open(r) \/ (ar.st \in Ended /\ replay # <<>>)
        /\ run' = [run EXCEPT ![r].log = log, ![r].delta = 0]
        /\ conn' = [on |-> TRUE, listening |-> Open(r), queue |-> replay]
        /\ client' = [client EXCEPT !.st = "stream"]
  /\ UNCHANGED <<mem, disk, todo, crashes, drops>>

\* applyEvent.
Applied(c, e) ==
  IF e.seq <= c.seq THEN c
  ELSE [c EXCEPT !.seq = e.seq,
          !.text = CASE e.type = "started" -> 0
                     [] e.type = "delta"   -> @ + e.n
                     [] e.type = "message" -> e.n
                     [] OTHER              -> @]

Receive ==
  /\ client.st = "stream" /\ conn.queue # <<>> /\ todo = <<>>
  /\ LET e == Head(conn.queue) IN
     IF e.type = "end"
     THEN /\ client' = [Applied(client, e) EXCEPT !.st = "over"]
          /\ conn' = NoConn
     ELSE /\ client' = Applied(client, e)
          /\ conn' = [conn EXCEPT !.queue = Tail(@)]
  /\ UNCHANGED <<run, mem, disk, todo, crashes, drops>>

\* The connection is lost with what is on its way; the browser will try again.
Drop ==
  /\ client.st = "stream" /\ drops < MaxDrops
  /\ drops' = drops + 1
  /\ conn' = NoConn
  /\ client' = [client EXCEPT !.st = "retry"]
  /\ UNCHANGED <<run, mem, disk, todo, crashes>>

-----------------------------------------------------------------------------
Results == {"completed", "failed"}

Backend(r) == AppendText(r) \/ RequestApproval(r) \/ ToolRuns(r) \/ \E x \in Results : Finalize(r, x)

AgentNext ==
  \/ Write \/ Crash \/ Restart \/ Load \/ Subscribe \/ Receive \/ Drop
  \/ \E r \in Runs :
       \/ \E mine \in BOOLEAN : StartRun(r, mine)
       \/ \E n \in 1..3 : StartFails(r, n)
       \/ \E x \in Results, n \in 0..3 : FinalizeFails(r, x, n)
       \/ Backend(r) \/ FlushTimer(r) \/ PersistTimer(r)
       \/ \E d \in {"approved", "rejected"} : DecideApproval(r, d)
       \/ Cancel(r) \/ Forget(r)

AgentSpec == AgentInit /\ [][AgentNext]_agentVars

\* The process is started again by its service, writes and timers go on, the browser
\* reads and reconnects, and the backend of an aborted run returns unless one of its
\* tools still waits for an approval.
AgentFairness ==
  /\ WF_agentVars(Write) /\ WF_agentVars(Restart) /\ SF_agentVars(Subscribe) /\ WF_agentVars(Receive)
  /\ \A r \in Runs :
       /\ SF_agentVars(FlushTimer(r))
       /\ SF_agentVars(/\ run[r].aborted /\ run[r].approval # "pending"
                  /\ \E x \in Results : Finalize(r, x))

AgentFairSpec == AgentSpec /\ AgentFairness

-----------------------------------------------------------------------------
Events == [type : {"started", "delta", "block", "updated", "message", "end"},
           n : 0..MaxText, seq : Nat \ {0}]
RunRecords ==
  [st : {"none", "running", "awaiting_approval", "gone"} \cup Ended \cup Broken,
   aborted : BOOLEAN, log : Seq(Events), delta : 0..MaxText, text : 0..MaxText,
   approval : {"none", "pending", "approved", "rejected", "cancelled"},
   tool : {"none", "awaiting_approval", "running", "rejected", "completed", "cancelled", "failed"},
   persist : BOOLEAN]
Messages == [run : Runs, role : {"user", "assistant"}, status : Ended \cup {"interrupted"}]
Writes ==
  [op : {"append"}, arg : Messages]
    \cup [op : {"save"}, arg : [count : Nat, active : Runs \cup {None}]]
    \cup [op : {"pending"}, arg : Runs] \cup [op : {"clear"}, arg : {None}]

\* The type invariant.
AgentTypeOK ==
  /\ run \in [Runs -> RunRecords]
  /\ \A r \in Runs : run[r].delta <= run[r].text
  /\ mem \in [up : BOOLEAN, count : Nat, active : Runs \cup {None}]
  /\ disk \in [journal : Seq(Messages), pending : Runs \cup {None}, saved : SUBSET Runs,
               count : Nat, active : Runs \cup {None}]
  /\ todo \in Seq(Writes)
  /\ conn \in [on : BOOLEAN, listening : BOOLEAN, queue : Seq(Events)]
  /\ client \in [st : {"off", "loaded", "stream", "retry", "over"}, run : Runs \cup {None},
                 seq : Nat, text : 0..MaxText]

Following == client.st \in {"loaded", "stream", "retry"}

\* The pieces of text in the first i events.
Told(log) ==
  LET told[i \in 0..Len(log)] ==
        IF i = 0 THEN 0
        ELSE told[i - 1] + (IF log[i].type = "delta" THEN log[i].n ELSE 0)
  IN told

\* The portal's answer and the events it has still to see make up the agent's answer, no
\* piece missing and none twice: over the snapshot, the replays, the live events, lost
\* connections and the batched deltas.
TextAgrees ==
  Following /\ run[client.run].st # "gone" =>
    LET ar == run[client.run]
        told == Told(ar.log)
    IN client.text + told[Len(ar.log)] + ar.delta = ar.text + told[client.seq]

\* What is on its way to the portal follows what it has, without a gap, and as long as
\* the run goes on reaches to its last event.
StreamGapless ==
  conn.on =>
    /\ \A i \in DOMAIN conn.queue : conn.queue[i].seq = client.seq + i
    /\ conn.listening => client.seq + Len(conn.queue) = Len(run[client.run].log)

\* No answer and no question is in the conversation twice, whenever the agent crashed.
JournalOnce ==
  \A i, j \in DOMAIN disk.journal :
    i # j => <<disk.journal[i].run, disk.journal[i].role>> # <<disk.journal[j].run, disk.journal[j].role>>

\* An answer that was saved while it was written is in the conversation when the run is
\* over, as a whole or as an interrupted one.
SavedIsKept ==
  \A r \in disk.saved : Ready /\ mem.active # r => Answered(r)

\* A conversation at rest names the run that is not done in this process, or none; only a
\* run whose start failed may be missing.
ActiveIsLive ==
  Ready =>
    IF mem.active = None THEN disk.active = None
    ELSE /\ Open(mem.active)
         /\ disk.active = mem.active \/ (disk.active = None /\ run[mem.active].st = "unstarted")

\* An approval holds its run exactly as long as it is pending, and a finished run leaves
\* no approval and no tool open, whoever of the user, the cancellation and the end of
\* the backend comes first, and also when its finalize fails.
ApprovalsSettled ==
  \A r \in Runs :
    /\ run[r].st = "awaiting_approval" <=> run[r].approval = "pending"
    /\ run[r].st \in Ended \cup {"stuck"} => run[r].tool \notin {"awaiting_approval", "running"}

\* What holds of the answer, the events and the approvals of a run.
RunInv == AgentTypeOK /\ TextAgrees /\ StreamGapless /\ ApprovalsSettled

\* What holds of the files of the conversation, between any two writes, after a failed
\* one, and after any crash (finalize, init).
ConversationInv == JournalOnce /\ SavedIsKept /\ ActiveIsLive

\* A portal that follows a run learns that it is over, also when the run ends, is
\* forgotten or dies with the agent while the connection is lost.  A run that a failed
\* write has left behind (Broken) is not over: nobody learns of it before a crash.
FollowerEnds ==
  \A r \in Runs : Following /\ client.run = r /\ ~Open(r) ~> ~(Following /\ client.run = r)

\* A cancelled run ends, unless a write of its start or of its finalize fails: then it
\* stays as it is until the agent is started again.
CancelEnds == \A r \in Runs : run[r].aborted ~> ~Open(r) \/ run[r].st \in Broken
=============================================================================
