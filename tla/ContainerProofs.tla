-------------------------- MODULE ContainerProofs ---------------------------
(***************************************************************************)
(* What holds of the programs in a Workspace's container, for any number   *)
(* of callers, faults, runs, crashes and lost connections.                 *)
(*                                                                         *)
(* The AI agent: the events of a run, what the portal that follows it has  *)
(* of them, and the approvals (RunInv); the files of the conversation,     *)
(* between any two writes (ConversationInv).                               *)
(* The supervisor: one shutdown, a STOPPED that is true unless podman stop *)
(* failed or came too early, a Failure that comes before it, and the       *)
(* safety part of ShutdownContract.                                        *)
(***************************************************************************)
EXTENDS Supervisor, AgentRuns, FiniteSetTheorems, NaturalsInduction,
        WellFoundedInduction, TLAPS

-----------------------------------------------------------------------------
(* The AI agent: sequences. *)

LEMMA SameItems ==
  ASSUME NEW S, NEW s \in Seq(S), NEW t \in Seq(S), Len(s) = Len(t),
         \A i \in 1..Len(s) : s[i] = t[i]
  PROVE  s = t
  OBVIOUS

LEMMA ConcatItems ==
  ASSUME NEW S, NEW s \in Seq(S), NEW t \in Seq(S)
  PROVE  /\ s \o t \in Seq(S) /\ Len(s \o t) = Len(s) + Len(t)
         /\ Len(s) \in Nat /\ Len(t) \in Nat
         /\ \A i \in 1..Len(s) : (s \o t)[i] = s[i]
         /\ \A i \in 1..Len(t) : (s \o t)[Len(s) + i] = t[i]
         /\ \A i \in 1..Len(s \o t) :
              i \in 1..Len(s) \/ (i - Len(s) \in 1..Len(t) /\ (s \o t)[i] = t[i - Len(s)])
<1>1. /\ s \o t \in Seq(S) /\ Len(s \o t) = Len(s) + Len(t) /\ Len(s) \in Nat /\ Len(t) \in Nat
      /\ \A i \in 1..Len(s) : (s \o t)[i] = s[i]
      /\ \A i \in 1..Len(t) : (s \o t)[Len(s) + i] = t[i]
  OBVIOUS
<1>2. ASSUME NEW i \in 1..Len(s \o t), i \notin 1..Len(s)
      PROVE  i - Len(s) \in 1..Len(t) /\ (s \o t)[i] = t[i - Len(s)]
  <2>1. i - Len(s) \in 1..Len(t) /\ Len(s) + (i - Len(s)) = i
    BY <1>1, <1>2
  <2> QED
    BY <1>1, <2>1
<1> QED
  BY <1>1, <1>2

\* A sequence of the items of s and then of t.
Join(s, t, u) == s \o t = u

LEMMA Joined ==
  ASSUME NEW S, NEW s \in Seq(S), NEW t \in Seq(S), NEW u \in Seq(S), Len(u) = Len(s) + Len(t),
         \A i \in 1..Len(s) : u[i] = s[i], \A i \in 1..Len(t) : u[Len(s) + i] = t[i]
  PROVE  Join(s, t, u)
<1>1. s \o t \in Seq(S) /\ Len(s \o t) = Len(u)
  BY ConcatItems
<1>2. ASSUME NEW i \in 1..Len(s \o t) PROVE (s \o t)[i] = u[i]
  <2>1. CASE i \in 1..Len(s)
    BY <2>1, ConcatItems
  <2>2. CASE i \notin 1..Len(s)
    <3>1. i - Len(s) \in 1..Len(t) /\ (s \o t)[i] = t[i - Len(s)] /\ Len(s) \in Nat
      BY <1>2, <2>2, ConcatItems
    <3>2. Len(s) + (i - Len(s)) = i
      BY <1>1, <1>2, <3>1
    <3>3. u[Len(s) + (i - Len(s))] = t[i - Len(s)]
      BY <3>1
    <3> QED
      BY <3>1, <3>2, <3>3
  <2> QED
    BY <2>1, <2>2
<1>3. s \o t = u
  BY <1>1, <1>2, SameItems
<1> QED
  BY <1>3 DEF Join

TuplesJoin(a, b, c, d) ==
  /\ <<a>> \o <<>> \o <<b>> = <<a, b>>
  /\ <<>> \o <<a, b>> \o <<c>> = <<a, b, c>>
  /\ <<a>> \o <<b, c>> \o <<d>> = <<a, b, c, d>>
  /\ <<>> \o <<>> \o <<a>> = <<a>>

LEMMA Tuples ==
  ASSUME NEW S, NEW a \in S, NEW b \in S, NEW c \in S, NEW d \in S
  PROVE  TuplesJoin(a, b, c, d)
<1>1. <<a>> \o <<b>> = <<a, b>>
  <2> DEFINE s == <<a>>
             t == <<b>>
             u == <<a, b>>
  <2>1. /\ s \in Seq(S) /\ t \in Seq(S) /\ u \in Seq(S)
        /\ Len(s) = 1 /\ Len(t) = 1 /\ Len(u) = 2
        /\ \A i \in 1..Len(s) : u[i] = s[i]
        /\ \A i \in 1..Len(t) : u[Len(s) + i] = t[i]
    <3>1. /\ s \in Seq(S) /\ t \in Seq(S) /\ u \in Seq(S)
          /\ Len(s) = 1 /\ Len(t) = 1 /\ Len(u) = 2
          /\ s[1] = a /\ t[1] = b /\ u[1] = a /\ u[2] = b
      OBVIOUS
    <3> HIDE DEF s, t, u
    <3> QED
      BY <3>1
  <2> HIDE DEF s, t, u
  <2>2. Len(u) = Len(s) + Len(t)
    BY <2>1
  <2>3. Join(s, t, u)
    BY <2>1, <2>2, Joined
  <2> QED
    BY <2>3 DEF Join, s, t, u
<1>2. <<a, b>> \o <<c>> = <<a, b, c>>
  <2> DEFINE s == <<a, b>>
             t == <<c>>
             u == <<a, b, c>>
  <2>1. /\ s \in Seq(S) /\ t \in Seq(S) /\ u \in Seq(S)
        /\ Len(s) = 2 /\ Len(t) = 1 /\ Len(u) = 3
        /\ \A i \in 1..Len(s) : u[i] = s[i]
        /\ \A i \in 1..Len(t) : u[Len(s) + i] = t[i]
    OBVIOUS
  <2> HIDE DEF s, t, u
  <2>2. Len(u) = Len(s) + Len(t)
    BY <2>1
  <2>3. Join(s, t, u)
    BY <2>1, <2>2, Joined
  <2> QED
    BY <2>3 DEF Join, s, t, u
<1>3. <<a>> \o <<b, c>> = <<a, b, c>>
  <2> DEFINE s == <<a>>
             t == <<b, c>>
             u == <<a, b, c>>
  <2>1. /\ s \in Seq(S) /\ t \in Seq(S) /\ u \in Seq(S)
        /\ Len(s) = 1 /\ Len(t) = 2 /\ Len(u) = 3
        /\ \A i \in 1..Len(s) : u[i] = s[i]
        /\ \A i \in 1..Len(t) : u[Len(s) + i] = t[i]
    OBVIOUS
  <2> HIDE DEF s, t, u
  <2>2. Len(u) = Len(s) + Len(t)
    BY <2>1
  <2>3. Join(s, t, u)
    BY <2>1, <2>2, Joined
  <2> QED
    BY <2>3 DEF Join, s, t, u
<1>4. <<a, b, c>> \o <<d>> = <<a, b, c, d>>
  <2> DEFINE s == <<a, b, c>>
             t == <<d>>
             u == <<a, b, c, d>>
  <2>1. /\ s \in Seq(S) /\ t \in Seq(S) /\ u \in Seq(S)
        /\ Len(s) = 3 /\ Len(t) = 1 /\ Len(u) = 4
        /\ \A i \in 1..Len(s) : u[i] = s[i]
        /\ \A i \in 1..Len(t) : u[Len(s) + i] = t[i]
    OBVIOUS
  <2> HIDE DEF s, t, u
  <2>2. Len(u) = Len(s) + Len(t)
    BY <2>1
  <2>3. Join(s, t, u)
    BY <2>1, <2>2, Joined
  <2> QED
    BY <2>3 DEF Join, s, t, u
<1>5. \A s \in Seq(S) : s \o <<>> = s /\ <<>> \o s = s
  OBVIOUS
<1>6. /\ <<a>> \in Seq(S) /\ <<a, b>> \in Seq(S) /\ <<>> \in Seq(S)
  OBVIOUS
<1>7. /\ <<a>> \o <<>> = <<a>> /\ <<>> \o <<a, b>> = <<a, b>>
      /\ <<>> \o <<>> = <<>> /\ <<>> \o <<a>> = <<a>>
  BY <1>5, <1>6
<1> QED
  BY <1>1, <1>2, <1>3, <1>4, <1>7 DEF TuplesJoin

NewEvents == [type : {"started", "delta", "block", "updated", "message", "end"}, n : 0..MaxText]
RunsTyped == run \in [Runs -> RunRecords] /\ \A r \in Runs : run[r].delta <= run[r].text
ConnRecords == [on : BOOLEAN, listening : BOOLEAN, queue : Seq(Events)]

LEMMA RunFields ==
  ASSUME NEW ar \in RunRecords
  PROVE  /\ ar.st \in {"none", "running", "awaiting_approval", "gone"} \cup Ended \cup Broken
         /\ ar.aborted \in BOOLEAN /\ ar.persist \in BOOLEAN /\ ar.log \in Seq(Events)
         /\ ar.delta \in 0..MaxText /\ ar.text \in 0..MaxText
         /\ ar.approval \in {"none", "pending", "approved", "rejected", "cancelled"}
         /\ ar.tool \in {"none", "awaiting_approval", "running", "rejected", "completed",
                         "cancelled", "failed"}
         /\ ar.delta \in Nat /\ ar.text \in Nat /\ Len(ar.log) \in Nat
<1>1. ar.log \in Seq(Events)
  BY DEF RunRecords
<1> QED
  BY <1>1, AgentAssumption DEF RunRecords

LEMMA NumberedFacts ==
  ASSUME NEW evs \in Seq(NewEvents), NEW base \in Nat
  PROVE  /\ Numbered(evs, base) \in Seq(Events)
         /\ Len(Numbered(evs, base)) = Len(evs)
         /\ \A i \in 1..Len(evs) :
              /\ Numbered(evs, base)[i].seq = base + i
              /\ Numbered(evs, base)[i].type = evs[i].type
              /\ Numbered(evs, base)[i].n = evs[i].n
<1> DEFINE num == Numbered(evs, base)
<1>1. DOMAIN evs = 1..Len(evs) /\ Len(evs) \in Nat
  OBVIOUS
<1>2. \A i \in 1..Len(evs) :
        /\ evs[i] \in NewEvents
        /\ [type |-> evs[i].type, n |-> evs[i].n, seq |-> base + i] \in Events
  <2> SUFFICES ASSUME NEW i \in 1..Len(evs)
               PROVE  /\ evs[i] \in NewEvents
                      /\ [type |-> evs[i].type, n |-> evs[i].n, seq |-> base + i] \in Events
    OBVIOUS
  <2>1. evs[i] \in NewEvents
    OBVIOUS
  <2>2. base + i \in Nat \ {0}
    BY <1>1
  <2> QED
    BY <2>1, <2>2 DEF NewEvents, Events
<1>3. num = [i \in 1..Len(evs) |-> [type |-> evs[i].type, n |-> evs[i].n, seq |-> base + i]]
  BY <1>1 DEF Numbered
<1>4. num \in [1..Len(evs) -> Events]
  BY <1>2, <1>3
<1>5. num \in Seq(Events) /\ Len(num) = Len(evs)
  BY <1>1, <1>4
<1> QED
  BY <1>3, <1>5

LEMMA FlushedTyped ==
  ASSUME NEW ar \in RunRecords
  PROVE  Flushed(ar) \in Seq(NewEvents)
<1>1. [type |-> "delta", n |-> ar.delta] \in NewEvents
  BY RunFields DEF NewEvents
<1> QED
  BY <1>1 DEF Flushed, Event

LEMMA PushRun ==
  ASSUME NEW r \in Runs, NEW ar \in RunRecords, NEW evs \in Seq(NewEvents),
         run \in [Runs -> RunRecords], Push(r, ar, evs)
  PROVE  /\ run' \in [Runs -> RunRecords]
         /\ \A q \in Runs : q # r => run'[q] = run[q]
         /\ run'[r].log = ar.log \o Numbered(evs, Len(ar.log))
         /\ run'[r].st = ar.st /\ run'[r].aborted = ar.aborted /\ run'[r].delta = ar.delta
         /\ run'[r].text = ar.text /\ run'[r].approval = ar.approval
         /\ run'[r].tool = ar.tool /\ run'[r].persist = ar.persist
<1> DEFINE log == ar.log \o Numbered(evs, Len(ar.log))
<1>1. log \in Seq(Events)
  BY RunFields, NumberedFacts
<1>2. run' = [run EXCEPT ![r] = [ar EXCEPT !.log = log]]
  BY DEF Push
<1> HIDE DEF log
<1>3. [ar EXCEPT !.log = log] \in RunRecords
  BY <1>1 DEF RunRecords
<1>4. run'[r] = [ar EXCEPT !.log = log]
  BY <1>2
<1>5. /\ run'[r].st = ar.st /\ run'[r].aborted = ar.aborted /\ run'[r].delta = ar.delta
      /\ run'[r].text = ar.text /\ run'[r].approval = ar.approval
      /\ run'[r].tool = ar.tool /\ run'[r].persist = ar.persist /\ run'[r].log = log
  BY <1>4 DEF RunRecords
<1> QED
  BY <1>2, <1>3, <1>5 DEF log

LEMMA PushConn ==
  ASSUME NEW r, NEW ar \in RunRecords, NEW evs \in Seq(NewEvents),
         conn \in ConnRecords, Push(r, ar, evs)
  PROVE  conn' \in ConnRecords
<1> DEFINE queue == conn.queue \o Numbered(evs, Len(ar.log))
<1>1. queue \in Seq(Events)
  BY RunFields, NumberedFacts DEF ConnRecords
<1> HIDE DEF queue
<1>2. \/ conn' = conn
      \/ conn' = [conn EXCEPT !.queue = queue,
                              !.listening = ~(\E i \in DOMAIN evs : evs[i].type = "end")]
  BY DEF Push, queue
<1>3. (\E i \in DOMAIN evs : evs[i].type = "end") \in BOOLEAN
  OBVIOUS
<1> QED
  BY <1>1, <1>2, <1>3 DEF ConnRecords

LEMMA EmitRun ==
  ASSUME NEW r \in Runs, NEW ar \in RunRecords, NEW evs \in Seq(NewEvents),
         run \in [Runs -> RunRecords], Emit(r, ar, evs)
  PROVE  /\ run' \in [Runs -> RunRecords]
         /\ \A q \in Runs : q # r => run'[q] = run[q]
         /\ run'[r].log = ar.log \o Numbered(Flushed(ar) \o evs, Len(ar.log))
         /\ run'[r].st = ar.st /\ run'[r].aborted = ar.aborted /\ run'[r].delta = 0
         /\ run'[r].text = ar.text /\ run'[r].approval = ar.approval
         /\ run'[r].tool = ar.tool /\ run'[r].persist = ar.persist
         /\ conn \in ConnRecords => conn' \in ConnRecords
<1> DEFINE ar0 == [ar EXCEPT !.delta = 0]
           all == Flushed(ar) \o evs
<1>1. ar0 \in RunRecords /\ ar0.log = ar.log /\ ar0.delta = 0
  <2>1. 0 \in 0..MaxText
    BY AgentAssumption
  <2> QED
    BY <2>1 DEF RunRecords
<1>2. /\ ar0.st = ar.st /\ ar0.aborted = ar.aborted /\ ar0.text = ar.text
      /\ ar0.approval = ar.approval /\ ar0.tool = ar.tool /\ ar0.persist = ar.persist
  BY DEF RunRecords
<1>3. all \in Seq(NewEvents)
  BY FlushedTyped
<1>4. Push(r, ar0, all)
  BY DEF Emit
<1> HIDE DEF ar0, all
<1>5. /\ run' \in [Runs -> RunRecords]
      /\ \A q \in Runs : q # r => run'[q] = run[q]
      /\ run'[r].log = ar0.log \o Numbered(all, Len(ar0.log))
      /\ run'[r].st = ar0.st /\ run'[r].aborted = ar0.aborted /\ run'[r].delta = ar0.delta
      /\ run'[r].text = ar0.text /\ run'[r].approval = ar0.approval
      /\ run'[r].tool = ar0.tool /\ run'[r].persist = ar0.persist
  BY <1>1, <1>3, <1>4, PushRun
<1>6. conn \in ConnRecords => conn' \in ConnRecords
  BY <1>1, <1>3, <1>4, PushConn
<1> QED
  BY <1>1, <1>2, <1>5, <1>6 DEF all

-----------------------------------------------------------------------------
(* The approvals. *)

Quiet(ar) ==
  /\ ar.st = "awaiting_approval" <=> ar.approval = "pending"
  /\ ar.st \in Ended \cup {"stuck"} => ar.tool \notin {"awaiting_approval", "running"}
  /\ ar.persist => ar.st \in {"running", "awaiting_approval"}

RunsOK == RunsTyped /\ \A r \in Runs : Quiet(run[r])

\* The events of the handlers.
LEMMA EventsTyped ==
  /\ <<>> \in Seq(NewEvents)
  /\ <<Event("started", 0)>> \in Seq(NewEvents)
  /\ <<Event("block", 0)>> \in Seq(NewEvents)
  /\ <<Event("block", 0), Event("updated", 0)>> \in Seq(NewEvents)
  /\ \A n \in 0..MaxText : <<Event("message", n), Event("end", 0)>> \in Seq(NewEvents)
<1>1. /\ Event("started", 0) \in NewEvents /\ Event("block", 0) \in NewEvents
      /\ Event("updated", 0) \in NewEvents /\ Event("end", 0) \in NewEvents
      /\ \A n \in 0..MaxText : Event("message", n) \in NewEvents
  BY AgentAssumption DEF Event, NewEvents
<1> HIDE DEF Event
<1> QED
  BY <1>1

LEMMA SettledFacts ==
  ASSUME NEW ar \in RunRecords, NEW result \in {"approved", "rejected", "cancelled"}
  PROVE  /\ Settled(ar, result) \in RunRecords
         /\ Settled(ar, result).st = "running" /\ Settled(ar, result).approval = result
         /\ Settled(ar, result).aborted = ar.aborted /\ Settled(ar, result).persist = ar.persist
         /\ Settled(ar, result).log = ar.log /\ Settled(ar, result).delta = ar.delta
         /\ Settled(ar, result).text = ar.text
<1> DEFINE tool == CASE result = "approved" -> "running"
                     [] result = "rejected" -> "rejected" [] OTHER -> ar.tool
<1>1. tool \in {"none", "awaiting_approval", "running", "rejected", "completed", "cancelled", "failed"}
  BY RunFields
<1>2. Settled(ar, result) = [ar EXCEPT !.approval = result, !.st = "running", !.tool = tool]
  BY DEF Settled
<1> HIDE DEF tool
<1> QED
  BY <1>1, <1>2 DEF RunRecords

\* A run changes by itself.
LEMMA OneRunOK ==
  ASSUME RunsOK, NEW r \in Runs, run' \in [Runs -> RunRecords],
         \A q \in Runs : q # r => run'[q] = run[q],
         Quiet(run'[r]), run'[r].delta <= run'[r].text
  PROVE  RunsOK'
<1>1. \A q \in Runs : run'[q].delta <= run'[q].text
  BY DEF RunsOK, RunsTyped
<1>2. \A q \in Runs : Quiet(run'[q])
  BY DEF RunsOK
<1> QED
  BY <1>1, <1>2 DEF RunsOK, RunsTyped, Quiet

LEMMA EmitOK ==
  ASSUME RunsOK, NEW r \in Runs, NEW ar \in RunRecords, NEW evs \in Seq(NewEvents),
         Emit(r, ar, evs), Quiet(ar)
  PROVE  RunsOK'
<1>1. /\ run' \in [Runs -> RunRecords] /\ \A q \in Runs : q # r => run'[q] = run[q]
      /\ run'[r].st = ar.st /\ run'[r].delta = 0 /\ run'[r].text = ar.text
      /\ run'[r].approval = ar.approval /\ run'[r].tool = ar.tool
      /\ run'[r].persist = ar.persist
  BY EmitRun DEF RunsOK, RunsTyped
<1>2. Quiet(run'[r])
  BY <1>1 DEF Quiet
<1>3. run'[r].delta <= run'[r].text
  BY <1>1, RunFields
<1> QED
  BY <1>1, <1>2, <1>3, OneRunOK
HasBegun(r) == run[r].st # "none"

\* No run begins or ends.
Steady ==
  \A q \in Runs : /\ Active(q)' <=> Active(q)
                  /\ Open(q)' <=> Open(q)
                  /\ HasBegun(q) => HasBegun(q)'
                  /\ run[q].st = "unstarted" => run'[q].st = "unstarted"

LEMMA OneRunSteady ==
  ASSUME NEW r \in Runs, \A q \in Runs : q # r => run'[q] = run[q],
         run'[r].st = run[r].st \/ (Active(r) /\ Active(r)')
  PROVE  Steady
  BY DEF Steady, Open, Broken, Active, HasBegun

LEMMA EmitSteady ==
  ASSUME RunsOK, NEW r \in Runs, NEW ar \in RunRecords, NEW evs \in Seq(NewEvents),
         Emit(r, ar, evs), Quiet(ar),
         ar.st = run[r].st \/ (Active(r) /\ ar.st \in {"running", "awaiting_approval"})
  PROVE  RunsOK' /\ Steady
<1>1. /\ \A q \in Runs : q # r => run'[q] = run[q]
      /\ run'[r].st = ar.st
  BY EmitRun DEF RunsOK, RunsTyped
<1>2. Steady
  BY <1>1, OneRunSteady DEF Active
<1> QED
  BY <1>2, EmitOK

LEMMA FlushTimerRuns ==
  ASSUME RunsOK, NEW r \in Runs, FlushTimer(r)
  PROVE  RunsOK' /\ Steady
<1>1. run[r] \in RunRecords /\ Quiet(run[r])
  BY DEF RunsOK, RunsTyped
<1> QED
  BY <1>1, EventsTyped, EmitSteady DEF FlushTimer

LEMMA AppendTextRuns ==
  ASSUME RunsOK, NEW r \in Runs, AppendText(r)
  PROVE  RunsOK' /\ Steady
<1> DEFINE ar == [run[r] EXCEPT !.text = @ + 1, !.delta = @ + 1, !.persist = TRUE]
<1>1. run[r] \in RunRecords /\ Quiet(run[r]) /\ run[r].delta <= run[r].text /\ run[r].text < MaxText
  BY DEF RunsOK, RunsTyped, AppendText
<1>2. run[r].text + 1 \in 0..MaxText /\ run[r].delta + 1 \in 0..MaxText
  <2>1. run[r].text \in Nat /\ run[r].delta \in Nat /\ MaxText \in Nat
    BY <1>1, RunFields, AgentAssumption
  <2> QED
    BY <1>1, <2>1
<1>3. /\ ar \in RunRecords /\ ar.st = run[r].st /\ ar.approval = run[r].approval
      /\ ar.tool = run[r].tool /\ ar.text = run[r].text + 1 /\ ar.delta = run[r].delta + 1
      /\ ar.log = run[r].log
  BY <1>1, <1>2 DEF RunRecords
<1>4. run' = [run EXCEPT ![r] = ar]
  BY DEF AppendText, RunsOK, RunsTyped
<1>5. Active(r)
  BY DEF AppendText
<1> HIDE DEF ar
<1>6. run' \in [Runs -> RunRecords] /\ run'[r] = ar /\ \A q \in Runs : q # r => run'[q] = run[q]
  BY <1>3, <1>4 DEF RunsOK, RunsTyped
<1>7. Quiet(ar)
  BY <1>1, <1>3, <1>5 DEF Quiet, Active
<1>8. ar.delta <= ar.text
  BY <1>1, <1>3, RunFields
<1> QED
  BY <1>3, <1>6, <1>7, <1>8, OneRunOK, OneRunSteady

LEMMA RequestApprovalRuns ==
  ASSUME RunsOK, NEW r \in Runs, RequestApproval(r)
  PROVE  RunsOK' /\ Steady
<1> DEFINE ar == [run[r] EXCEPT !.st = "awaiting_approval", !.approval = "pending",
                                !.tool = "awaiting_approval"]
<1>1. run[r] \in RunRecords /\ Active(r)
  BY DEF RunsOK, RunsTyped, RequestApproval, Active
<1>2. ar \in RunRecords /\ ar.st = "awaiting_approval" /\ ar.approval = "pending"
  BY <1>1 DEF RunRecords
<1>3. Emit(r, ar, <<Event("block", 0), Event("updated", 0)>>)
  BY DEF RequestApproval
<1> HIDE DEF ar
<1>4. Quiet(ar)
  BY <1>2 DEF Quiet, Ended
<1> QED
  BY <1>1, <1>2, <1>3, <1>4, EventsTyped, EmitSteady

LEMMA DecideApprovalRuns ==
  ASSUME RunsOK, NEW r \in Runs, NEW d \in {"approved", "rejected"}, DecideApproval(r, d)
  PROVE  RunsOK' /\ Steady
<1> DEFINE ar == Settled(run[r], d)
<1>1. run[r] \in RunRecords /\ Quiet(run[r]) /\ run[r].approval = "pending"
  BY DEF RunsOK, RunsTyped, DecideApproval
<1>2. ar \in RunRecords /\ ar.st = "running" /\ ar.approval = d
  BY <1>1, SettledFacts
<1>3. Emit(r, ar, <<Event("block", 0), Event("updated", 0)>>)
  BY DEF DecideApproval
<1> HIDE DEF ar
<1>4. Quiet(ar) /\ Active(r)
  BY <1>1, <1>2 DEF Quiet, Ended, Active
<1> QED
  BY <1>2, <1>3, <1>4, EventsTyped, EmitSteady

LEMMA ToolRunsRuns ==
  ASSUME RunsOK, NEW r \in Runs, ToolRuns(r)
  PROVE  RunsOK' /\ Steady
<1> DEFINE ar == [run[r] EXCEPT !.tool = "completed"]
<1>1. run[r] \in RunRecords /\ Quiet(run[r]) /\ Active(r)
  BY DEF RunsOK, RunsTyped, ToolRuns
<1>2. /\ ar \in RunRecords /\ ar.st = run[r].st /\ ar.approval = run[r].approval
      /\ ar.tool = "completed" /\ ar.persist = run[r].persist
  BY <1>1 DEF RunRecords
<1>3. Emit(r, ar, <<Event("block", 0)>>)
  BY DEF ToolRuns
<1> HIDE DEF ar
<1>4. Quiet(ar)
  BY <1>1, <1>2 DEF Quiet
<1> QED
  BY <1>1, <1>2, <1>3, <1>4, EventsTyped, EmitSteady

LEMMA CancelRuns ==
  ASSUME RunsOK, NEW r \in Runs, Cancel(r)
  PROVE  RunsOK' /\ Steady
<1> DEFINE ar == [run[r] EXCEPT !.aborted = TRUE]
<1>1. run[r] \in RunRecords /\ Quiet(run[r]) /\ run[r].delta <= run[r].text
  BY DEF RunsOK, RunsTyped
<1>2. /\ ar \in RunRecords /\ ar.st = run[r].st /\ ar.approval = run[r].approval
      /\ ar.tool = run[r].tool /\ ar.persist = run[r].persist /\ ar.delta = run[r].delta
      /\ ar.text = run[r].text /\ ar.log = run[r].log
  BY <1>1 DEF RunRecords
<1>3. IF run[r].approval = "pending"
      THEN Emit(r, Settled(ar, "cancelled"), <<Event("block", 0), Event("updated", 0)>>)
      ELSE run' = [run EXCEPT ![r] = ar]
  BY <1>2 DEF Cancel, Cancelled
<1> HIDE DEF ar
<1>4. CASE run[r].approval = "pending"
  <2> DEFINE settled == Settled(ar, "cancelled")
  <2>1. settled \in RunRecords /\ settled.st = "running" /\ settled.approval = "cancelled"
    BY <1>2, SettledFacts
  <2>2. Emit(r, settled, <<Event("block", 0), Event("updated", 0)>>)
    BY <1>3, <1>4
  <2> HIDE DEF settled
  <2>3. Quiet(settled) /\ Active(r)
    BY <1>1, <1>4, <2>1 DEF Quiet, Ended, Active
  <2> QED
    BY <1>1, <2>1, <2>2, <2>3, EventsTyped, EmitSteady
<1>5. CASE run[r].approval # "pending"
  <2>1. run' \in [Runs -> RunRecords] /\ run'[r] = ar /\ \A q \in Runs : q # r => run'[q] = run[q]
    BY <1>2, <1>3, <1>5 DEF RunsOK, RunsTyped
  <2>2. Quiet(ar) /\ ar.delta <= ar.text
    BY <1>1, <1>2 DEF Quiet
  <2> QED
    BY <1>2, <2>1, <2>2, OneRunOK, OneRunSteady
<1> QED
  BY <1>4, <1>5

LEMMA GoneFacts ==
  /\ Gone \in RunRecords /\ Gone.st = "gone" /\ Gone.delta = 0 /\ Gone.text = 0 /\ Gone.log = <<>>
  /\ NoRun \in RunRecords /\ NoRun.st = "none" /\ NoRun.delta = 0 /\ NoRun.text = 0
  /\ NoRun.log = <<>> /\ Quiet(Gone) /\ Quiet(NoRun)
<1>1. 0 \in 0..MaxText /\ <<>> \in Seq(Events)
  BY AgentAssumption
<1>2. NoRun \in RunRecords /\ Gone \in RunRecords
  BY <1>1 DEF NoRun, Gone, RunRecords
<1> QED
  BY <1>2 DEF NoRun, Gone, Quiet, Ended

LEMMA ForgetRuns ==
  ASSUME RunsOK, NEW r \in Runs, Forget(r)
  PROVE  RunsOK' /\ Steady
<1>1. run' = [run EXCEPT ![r] = Gone] /\ run[r].st \in Ended
  BY DEF Forget
<1>2. /\ run' \in [Runs -> RunRecords] /\ run'[r] = Gone /\ \A q \in Runs : q # r => run'[q] = run[q]
      /\ Quiet(Gone) /\ Gone.delta <= Gone.text
  BY <1>1, GoneFacts DEF RunsOK, RunsTyped
<1>3. RunsOK'
  BY <1>2, OneRunOK
<1>4. Steady
  BY <1>1, <1>2, GoneFacts DEF Steady, Open, Broken, Active, HasBegun, Ended
<1> QED
  BY <1>3, <1>4

LEMMA LoadRuns ==
  ASSUME RunsOK, mem.active \in Runs \cup {None}, Load
  PROVE  RunsOK' /\ Steady
<1> DEFINE r == mem.active
           evs == Flushed(run[r])
           ar == [run[r] EXCEPT !.delta = IF evs = <<>> THEN @ ELSE 0]
<1>1. r \in Runs /\ run[r] \in RunRecords /\ Quiet(run[r]) /\ run[r].delta <= run[r].text
  BY DEF RunsOK, RunsTyped, Load
<1>2. ar \in RunRecords /\ ar.st = run[r].st /\ ar.approval = run[r].approval
      /\ ar.tool = run[r].tool /\ ar.persist = run[r].persist /\ ar.delta <= ar.text
  <2>1. 0 \in 0..MaxText /\ 0 <= run[r].text
    BY <1>1, RunFields, AgentAssumption
  <2> QED
    BY <1>1, <2>1 DEF RunRecords
<1>3. evs \in Seq(NewEvents) /\ Push(r, ar, evs)
  BY <1>1, FlushedTyped DEF Load, SnapshotFlush
<1> HIDE DEF ar, evs, r
<1>4. /\ run' \in [Runs -> RunRecords] /\ \A q \in Runs : q # r => run'[q] = run[q]
      /\ run'[r].st = ar.st /\ run'[r].delta = ar.delta /\ run'[r].text = ar.text
      /\ run'[r].approval = ar.approval /\ run'[r].tool = ar.tool /\ run'[r].persist = ar.persist
  BY <1>1, <1>2, <1>3, PushRun DEF RunsOK, RunsTyped
<1>5. Quiet(run'[r]) /\ run'[r].delta <= run'[r].text
  BY <1>1, <1>2, <1>4 DEF Quiet
<1> QED
  BY <1>1, <1>2, <1>4, <1>5, OneRunOK, OneRunSteady

LEMMA SubscribeRuns ==
  ASSUME RunsOK, client.run \in Runs \cup {None}, client.run # None, Subscribe
  PROVE  RunsOK' /\ Steady
<1> DEFINE r == client.run
           log == run[r].log \o Numbered(Flushed(run[r]), Len(run[r].log))
           ar == [run[r] EXCEPT !.log = log, !.delta = 0]
<1>1. r \in Runs /\ run[r] \in RunRecords /\ Quiet(run[r])
  BY DEF RunsOK, RunsTyped
<1>2. log \in Seq(Events) /\ 0 \in 0..MaxText /\ run[r].text >= 0
  BY <1>1, RunFields, FlushedTyped, NumberedFacts, AgentAssumption
<1>3. UNCHANGED run \/ run' = [run EXCEPT ![r] = ar]
  BY <1>1 DEF Subscribe, RunsOK, RunsTyped
<1> HIDE DEF log, r
<1>4. ar \in RunRecords /\ ar.st = run[r].st /\ ar.approval = run[r].approval
      /\ ar.tool = run[r].tool /\ ar.persist = run[r].persist /\ ar.delta = 0
      /\ ar.text = run[r].text
  BY <1>1, <1>2 DEF RunRecords
<1> HIDE DEF ar
<1>5. CASE UNCHANGED run
  BY <1>5 DEF RunsOK, RunsTyped, Steady, Open, Active, HasBegun, Quiet
<1>6. CASE run' = [run EXCEPT ![r] = ar]
  <2>1. run' \in [Runs -> RunRecords] /\ run'[r] = ar /\ \A q \in Runs : q # r => run'[q] = run[q]
    BY <1>1, <1>4, <1>6 DEF RunsOK, RunsTyped
  <2>2. Quiet(ar) /\ ar.delta <= ar.text
    BY <1>1, <1>2, <1>4 DEF Quiet
  <2> QED
    BY <1>1, <1>4, <2>1, <2>2, OneRunOK, OneRunSteady
<1> QED
  BY <1>3, <1>5, <1>6

LEMMA PersistTimerRuns ==
  ASSUME RunsOK, NEW r \in Runs, PersistTimer(r)
  PROVE  RunsOK' /\ Steady /\ Active(r)
<1> DEFINE ar == [run[r] EXCEPT !.persist = FALSE]
<1>1. run[r] \in RunRecords /\ Quiet(run[r]) /\ run[r].delta <= run[r].text /\ run[r].persist
  BY DEF RunsOK, RunsTyped, PersistTimer
<1>2. ar \in RunRecords /\ ar.st = run[r].st /\ ar.approval = run[r].approval
      /\ ar.tool = run[r].tool /\ ~ar.persist /\ ar.delta = run[r].delta /\ ar.text = run[r].text
  BY <1>1 DEF RunRecords
<1>3. run' = [run EXCEPT ![r] = ar]
  BY DEF PersistTimer, RunsOK, RunsTyped
<1> HIDE DEF ar
<1>4. run' \in [Runs -> RunRecords] /\ run'[r] = ar /\ \A q \in Runs : q # r => run'[q] = run[q]
  BY <1>2, <1>3 DEF RunsOK, RunsTyped
<1>5. Quiet(ar) /\ ar.delta <= ar.text /\ Active(r)
  BY <1>1, <1>2 DEF Quiet, Active
<1> QED
  BY <1>2, <1>4, <1>5, OneRunOK, OneRunSteady

LEMMA StartedTyped == Started \in Seq(Events)
  BY EventsTyped, NumberedFacts DEF Started

\* A run begins, or fails to.
LEMMA BeginRuns ==
  ASSUME RunsOK, NEW r \in Runs, NEW log \in Seq(Events), NEW st \in {"running", "unstarted"},
         run' = [run EXCEPT ![r] = [NoRun EXCEPT !.st = st, !.log = log]]
  PROVE  /\ RunsOK' /\ run'[r].st = st /\ \A q \in Runs : q # r => run'[q] = run[q]
         /\ run'[r].log = log /\ run'[r].delta = 0 /\ run'[r].text = 0
<1> DEFINE ar == [NoRun EXCEPT !.st = st, !.log = log]
<1>1. ar \in RunRecords /\ ar.st = st /\ ar.log = log /\ ar.delta = 0 /\ ar.text = 0
  BY GoneFacts DEF RunRecords, Broken
<1>2. ar.approval = "none" /\ ~ar.persist
  BY DEF NoRun
<1>3. run' = [run EXCEPT ![r] = ar]
  OBVIOUS
<1> HIDE DEF ar
<1>4. run' \in [Runs -> RunRecords] /\ run'[r] = ar /\ \A q \in Runs : q # r => run'[q] = run[q]
  BY <1>1, <1>3 DEF RunsOK, RunsTyped
<1>5. Quiet(ar) /\ ar.delta <= ar.text
  BY <1>1, <1>2 DEF Quiet, Ended
<1> QED
  BY <1>1, <1>4, <1>5, OneRunOK

LEMMA StartRunRuns ==
  ASSUME RunsOK, NEW r \in Runs, NEW mine, StartRun(r, mine)
  PROVE  /\ RunsOK' /\ run'[r].st = "running" /\ \A q \in Runs : q # r => run'[q] = run[q]
         /\ run'[r].log = Started /\ run'[r].delta = 0 /\ run'[r].text = 0
  BY StartedTyped, BeginRuns DEF StartRun

LEMMA StartFailsRuns ==
  ASSUME RunsOK, NEW r \in Runs, NEW n \in 1..3, StartFails(r, n)
  PROVE  /\ RunsOK' /\ \A q \in Runs : q # r => run'[q] = run[q]
         /\ run'[r].st = IF n = 1 THEN "gone" ELSE "unstarted"
         /\ run'[r].log = IF n = 3 THEN Started ELSE <<>>
         /\ run'[r].delta = 0 /\ run'[r].text = 0
<1>1. CASE n = 1
  <2>1. run' = [run EXCEPT ![r] = Gone]
    BY <1>1 DEF StartFails
  <2>2. run' \in [Runs -> RunRecords] /\ run'[r] = Gone /\ \A q \in Runs : q # r => run'[q] = run[q]
    BY <2>1, GoneFacts DEF RunsOK, RunsTyped
  <2> QED
    BY <1>1, <2>2, GoneFacts, OneRunOK
<1>2. CASE n # 1
  <2> DEFINE log == IF n = 2 THEN <<>> ELSE Started
  <2>1. log \in Seq(Events)
    BY StartedTyped
  <2>2. run' = [run EXCEPT ![r] = [NoRun EXCEPT !.st = "unstarted", !.log = log]]
    BY <1>2 DEF StartFails
  <2>3. log = IF n = 3 THEN Started ELSE <<>>
    BY <1>2
  <2> HIDE DEF log
  <2>4. /\ RunsOK' /\ run'[r].st = "unstarted" /\ \A q \in Runs : q # r => run'[q] = run[q]
        /\ run'[r].log = log /\ run'[r].delta = 0 /\ run'[r].text = 0
    BY <2>1, <2>2, BeginRuns
  <2> QED
    BY <1>2, <2>3, <2>4
<1> QED
  BY <1>1, <1>2

LEMMA FinishedFacts ==
  ASSUME NEW ar \in RunRecords, NEW st \in Ended \cup {"stuck"}
  PROVE  /\ Finished(ar, st) \in RunRecords /\ Finished(ar, st).st = st
         /\ Quiet(Finished(ar, st))
         /\ Finished(ar, st).log = ar.log /\ Finished(ar, st).delta = ar.delta
         /\ Finished(ar, st).text = ar.text
<1> DEFINE settled == IF ar.approval = "pending" THEN Settled(ar, "cancelled") ELSE ar
           fin == Finished(ar, st)
<1>1. /\ settled \in RunRecords /\ settled.approval # "pending"
      /\ settled.log = ar.log /\ settled.delta = ar.delta /\ settled.text = ar.text
  BY SettledFacts
<1>2. fin = [settled EXCEPT !.st = st, !.persist = FALSE,
               !.tool = IF settled.tool \in {"running", "awaiting_approval"}
                        THEN (IF ar.aborted THEN "cancelled" ELSE "failed") ELSE settled.tool]
  BY DEF Finished
<1> DEFINE tool == IF settled.tool \in {"running", "awaiting_approval"}
                  THEN (IF ar.aborted THEN "cancelled" ELSE "failed") ELSE settled.tool
<1>5. /\ tool \in {"none", "awaiting_approval", "running", "rejected", "cancelled", "completed", "failed"}
      /\ tool \notin {"running", "awaiting_approval"}
  BY <1>1 DEF RunRecords
<1>6. fin = [settled EXCEPT !.st = st, !.persist = FALSE, !.tool = tool]
  BY <1>2
<1> HIDE DEF settled, fin, tool
<1>3. /\ fin \in RunRecords /\ fin.st = st /\ ~fin.persist /\ fin.approval = settled.approval
      /\ fin.tool \notin {"running", "awaiting_approval"}
      /\ fin.log = settled.log /\ fin.delta = settled.delta /\ fin.text = settled.text
  BY <1>1, <1>5, <1>6, RunFields DEF RunRecords, Broken, Ended
<1>4. Quiet(fin)
  BY <1>1, <1>3 DEF Quiet, Ended
<1> QED
  BY <1>1, <1>3, <1>4 DEF fin

LEMMA FinalizeRuns ==
  ASSUME RunsOK, NEW r \in Runs, NEW result \in Results, Finalize(r, result)
  PROVE  LET fin == Finished(run[r], FinalStatus(run[r], result)) IN
         /\ RunsOK' /\ run'[r].st \in Ended /\ \A q \in Runs : q # r => run'[q] = run[q]
         /\ Emit(r, fin, <<Event("message", run[r].text), Event("end", 0)>>)
         /\ fin \in RunRecords /\ fin.log = run[r].log /\ fin.st \in Ended
         /\ fin.delta = run[r].delta /\ fin.text = run[r].text
<1> DEFINE st == FinalStatus(run[r], result)
           fin == Finished(run[r], st)
           evs == <<Event("message", run[r].text), Event("end", 0)>>
<1>1. run[r] \in RunRecords /\ run[r].text \in 0..MaxText
  BY RunFields DEF RunsOK, RunsTyped
<1>2. st \in Ended
  BY DEF FinalStatus, Ended, Results
<1>3. Emit(r, fin, evs) /\ evs \in Seq(NewEvents)
  BY <1>1, EventsTyped DEF Finalize
<1> HIDE DEF st
<1>4. /\ fin \in RunRecords /\ fin.st = st /\ Quiet(fin) /\ fin.log = run[r].log
      /\ fin.delta = run[r].delta /\ fin.text = run[r].text
  BY <1>1, <1>2, FinishedFacts
<1> HIDE DEF fin, evs
<1>5. RunsOK' /\ run'[r].st = fin.st /\ \A q \in Runs : q # r => run'[q] = run[q]
  BY <1>3, <1>4, EmitOK, EmitRun DEF RunsOK, RunsTyped
<1> QED
  BY <1>2, <1>3, <1>4, <1>5 DEF fin, evs, st

LEMMA FinalizeFailsRuns ==
  ASSUME RunsOK, NEW r \in Runs, NEW result, NEW n, FinalizeFails(r, result, n)
  PROVE  LET fin == Finished(run[r], "stuck") IN
         /\ RunsOK' /\ run'[r].st = "stuck" /\ \A q \in Runs : q # r => run'[q] = run[q]
         /\ Emit(r, fin, <<>>)
         /\ fin \in RunRecords /\ fin.log = run[r].log /\ fin.st = "stuck"
         /\ fin.delta = run[r].delta /\ fin.text = run[r].text
<1> DEFINE fin == Finished(run[r], "stuck")
           evs == <<>>
<1>1. run[r] \in RunRecords
  BY DEF RunsOK, RunsTyped
<1>2. Emit(r, fin, evs) /\ evs \in Seq(NewEvents)
  BY EventsTyped DEF FinalizeFails
<1>3. /\ fin \in RunRecords /\ fin.st = "stuck" /\ Quiet(fin) /\ fin.log = run[r].log
      /\ fin.delta = run[r].delta /\ fin.text = run[r].text
  BY <1>1, FinishedFacts
<1> HIDE DEF fin, evs
<1>4. RunsOK' /\ run'[r].st = fin.st /\ \A q \in Runs : q # r => run'[q] = run[q]
  BY <1>2, <1>3, EmitOK, EmitRun DEF RunsOK, RunsTyped
<1> QED
  BY <1>2, <1>3, <1>4 DEF fin, evs

LEMMA CrashRuns ==
  ASSUME RunsOK, Crash
  PROVE  RunsOK' /\ \A q \in Runs : ~Open(q)' /\ (HasBegun(q) => HasBegun(q)')
<1>1. run' = [r \in Runs |-> IF run[r].st = "none" THEN NoRun ELSE Gone]
  BY DEF Crash
<1>2. \A q \in Runs : run'[q] \in {NoRun, Gone} /\ (run[q].st # "none" => run'[q] = Gone)
  BY <1>1
<1>3. run' \in [Runs -> RunRecords]
  BY <1>1, GoneFacts
<1>4. \A q \in Runs : Quiet(run'[q]) /\ run'[q].delta <= run'[q].text
  BY <1>2, GoneFacts
<1> QED
  BY <1>2, <1>3, <1>4, GoneFacts DEF RunsOK, RunsTyped, Open, Broken, Active, HasBegun, Quiet

-----------------------------------------------------------------------------
(* The files of the conversation. *)

FilesTyped ==
  /\ mem \in [up : BOOLEAN, count : Nat, active : Runs \cup {None}]
  /\ disk \in [journal : Seq(Messages), pending : Runs \cup {None}, saved : SUBSET Runs,
               count : Nat, active : Runs \cup {None}]
  /\ todo \in Seq(Writes)

Does(i, op) == todo[i].op = op
Same(m, n) == m.run = n.run /\ m.role = n.role
IsAnswer(m, r) == m.run = r /\ m.role = "assistant"
NoSaveAfter(i) == \A j \in 1..Len(todo) : j > i => ~Does(j, "save")

\* mem names the run that is not done.
OneActive ==
  /\ mem.up => \A r \in Runs : Open(r) <=> mem.active = r
  /\ ~mem.up => todo = <<>> /\ \A r \in Runs : ~Open(r)

\* Nothing is written for a run that has not begun.
OnlyBegun ==
  /\ \A i \in 1..Len(disk.journal) : HasBegun(disk.journal[i].run)
  /\ \A i \in 1..Len(todo) : Does(i, "append") => HasBegun(todo[i].arg.run)
  /\ \A r \in disk.saved : HasBegun(r)

\* A run that goes on has no answer yet.
NoAnswerYet ==
  \A r \in Runs : Active(r) =>
    /\ ~Answered(r)
    /\ \A i \in 1..Len(todo) : Does(i, "append") => ~IsAnswer(todo[i].arg, r)

\* A handler appends one message at most, a new one.
AppendsOnce ==
  \A i \in 1..Len(todo) : Does(i, "append") =>
    /\ \A j \in 1..Len(todo) : Does(j, "append") => i = j
    /\ \A k \in 1..Len(disk.journal) : ~Same(todo[i].arg, disk.journal[k])

\* The answer of the active run is saved by a write of its own.
SavesActive ==
  \A i \in 1..Len(todo) : Does(i, "pending") => Len(todo) = 1 /\ mem.active = todo[i].arg

\* The answer is in the conversation or about to be appended.
Answering(r) ==
  Answered(r) \/ \E i \in 1..Len(todo) : Does(i, "append") /\ IsAnswer(todo[i].arg, r)

\* pending.json is removed after the answer is appended.
ClearedLast ==
  \A i \in 1..Len(todo) : Does(i, "clear") =>
    \A j \in 1..Len(todo) : Does(j, "append") => j < i

\* And never while the run that is not done has no answer.
ClearedAnswered ==
  (\E i \in 1..Len(todo) : Does(i, "clear")) =>
    \A r \in Runs : mem.active = r => Answering(r)

\* A saved answer that is not in the conversation is in pending.json, and if the process is
\* up its run goes on or the answer is about to be appended.
SavedIsPending ==
  /\ disk.pending # None => disk.pending \in disk.saved
  /\ \A r \in disk.saved : ~Answered(r) =>
       /\ disk.pending = r
       /\ mem.up => \/ mem.active = r
                    \/ \E i \in 1..Len(todo) : Does(i, "append") /\ IsAnswer(todo[i].arg, r)

\* a is the run that is not done, or none when its start has failed.
Names(a) ==
  a = mem.active \/ (a = None /\ mem.active \in Runs /\ run[mem.active].st = "unstarted")

\* The last conversation.json of a handler names the run that is not done.
SaveIsLive ==
  mem.up =>
    /\ \A i \in 1..Len(todo) : Does(i, "save") /\ NoSaveAfter(i) => Names(todo[i].arg.active)
    /\ NoSaveAfter(0) => Names(disk.active)

FilesOK ==
  /\ FilesTyped /\ OneActive /\ OnlyBegun /\ NoAnswerYet /\ AppendsOnce /\ SavesActive
  /\ ClearedLast /\ ClearedAnswered /\ SavedIsPending /\ SaveIsLive /\ JournalOnce

LEMMA AnsweredIs ==
  ASSUME NEW r, disk.journal \in Seq(Messages)
  PROVE  Answered(r) <=> \E i \in 1..Len(disk.journal) : IsAnswer(disk.journal[i], r)
<1>1. DOMAIN disk.journal = 1..Len(disk.journal)
  OBVIOUS
<1> QED
  BY <1>1 DEF Answered, IsAnswer

LEMMA FileFields ==
  ASSUME FilesTyped
  PROVE  /\ mem.up \in BOOLEAN /\ mem.count \in Nat /\ mem.active \in Runs \cup {None}
         /\ disk.journal \in Seq(Messages) /\ disk.pending \in Runs \cup {None}
         /\ disk.saved \subseteq Runs /\ disk.count \in Nat /\ disk.active \in Runs \cup {None}
         /\ todo \in Seq(Writes) /\ Len(todo) \in Nat /\ Len(disk.journal) \in Nat
<1>1. /\ disk.journal \in Seq(Messages) /\ todo \in Seq(Writes)
  BY DEF FilesTyped
<1> QED
  BY <1>1 DEF FilesTyped

LEMMA WriteFields ==
  ASSUME FilesTyped, NEW i \in 1..Len(todo)
  PROVE  /\ todo[i] \in Writes
         /\ Does(i, "append") => todo[i].arg \in Messages /\ todo[i].arg.run \in Runs
         /\ Does(i, "save") => todo[i].arg.count \in Nat /\ todo[i].arg.active \in Runs \cup {None}
         /\ Does(i, "pending") => todo[i].arg \in Runs
         /\ Does(i, "append") \/ Does(i, "save") \/ Does(i, "pending") \/ Does(i, "clear")
<1>1. todo[i] \in Writes
  BY FileFields
<1> QED
  BY <1>1 DEF Writes, Does, Messages

LEMMA JournalFields ==
  ASSUME FilesTyped, NEW i \in 1..Len(disk.journal)
  PROVE  disk.journal[i] \in Messages /\ disk.journal[i].run \in Runs
<1>1. disk.journal[i] \in Messages
  BY FileFields
<1> QED
  BY <1>1 DEF Messages

LEMMA NewWrites ==
  /\ \A m \in Messages : Append_(m) \in Writes
  /\ \A n \in Nat, a \in Runs \cup {None} : Save(n, a) \in Writes
  /\ \A r \in Runs : Pending(r) \in Writes
  /\ ClearPending \in Writes
<1>1. \A m \in Messages : Append_(m) \in [op : {"append"}, arg : Messages]
  BY DEF Append_
<1>2. ASSUME NEW n \in Nat, NEW a \in Runs \cup {None}
      PROVE  Save(n, a) \in [op : {"save"}, arg : [count : Nat, active : Runs \cup {None}]]
  <2> DEFINE arg == [count |-> n, active |-> a]
  <2>1. arg \in [count : Nat, active : Runs \cup {None}]
    OBVIOUS
  <2> HIDE DEF arg
  <2>2. [op |-> "save", arg |-> arg]
          \in [op : {"save"}, arg : [count : Nat, active : Runs \cup {None}]]
    BY <2>1
  <2> QED
    BY <2>2 DEF Save, arg
<1>3. \A r \in Runs : Pending(r) \in [op : {"pending"}, arg : Runs]
  BY DEF Pending
<1>4. ClearPending \in [op : {"clear"}, arg : {None}]
  BY DEF ClearPending
<1> QED
  BY <1>1, <1>2, <1>3, <1>4 DEF Writes

LEMMA NoneNoRun == None \notin Runs /\ \A r \in Runs : r # None
  BY DEF None, Runs

\* A step that leaves the files alone, and no run behind, keeps them.
LEMMA QuietFiles ==
  ASSUME FilesOK, UNCHANGED <<mem, disk, todo>>,
         Steady
  PROVE  FilesOK'
<1>1. FilesTyped' /\ \A r \in Runs : Answered(r)' <=> Answered(r)
  BY DEF FilesOK, FilesTyped, Answered
<1>2. OneActive' /\ NoAnswerYet'
  BY <1>1 DEF FilesOK, OneActive, NoAnswerYet, Does, IsAnswer, Steady
<1>3. OnlyBegun'
  <2>1. /\ \A i \in 1..Len(disk.journal) : disk.journal[i].run \in Runs
        /\ \A i \in 1..Len(todo) : Does(i, "append") => todo[i].arg.run \in Runs
        /\ disk.saved \subseteq Runs
    BY FileFields, WriteFields, JournalFields DEF FilesOK
  <2> QED
    BY <2>1 DEF FilesOK, OnlyBegun, Does, Steady
<1>4. AppendsOnce' /\ SavesActive' /\ ClearedLast' /\ JournalOnce'
  BY DEF FilesOK, AppendsOnce, SavesActive, ClearedLast, JournalOnce, Does, Same
<1>6. ClearedAnswered'
  BY <1>1 DEF FilesOK, ClearedAnswered, Answering, Does, IsAnswer
<1>7. SaveIsLive'
  <2>1. \A a : Names(a) => Names(a)'
    BY DEF Names, Steady
  <2> QED
    BY <2>1 DEF FilesOK, SaveIsLive, NoSaveAfter, Does
<1>5. SavedIsPending'
  BY <1>1, FileFields DEF FilesOK, SavedIsPending, Does, IsAnswer
<1> QED
  BY <1>1, <1>2, <1>3, <1>4, <1>5, <1>6, <1>7 DEF FilesOK

LEMMA LaterWrites ==
  ASSUME FilesOK, todo # <<>>, todo' = Tail(todo)
  PROVE  /\ todo' \in Seq(Writes) /\ Len(todo') = Len(todo) - 1 /\ 1 \in 1..Len(todo)
         /\ Head(todo) = todo[1]
         /\ \A i \in 1..Len(todo') : i + 1 \in 1..Len(todo) /\ todo'[i] = todo[i + 1]
         /\ \A i \in 1..Len(todo) : i = 1 \/ (i - 1 \in 1..Len(todo') /\ todo[i] = todo'[i - 1])
         /\ todo' # <<>> => Len(todo) > 1
  BY FileFields DEF FilesOK

\* The conditions on todo alone are those of its end.
LEMMA TodoShrinks ==
  ASSUME FilesOK, todo # <<>>, todo' = Tail(todo), UNCHANGED <<run, mem>>
  PROVE  /\ \A i \in 1..Len(todo') : Does(i, "append")' => HasBegun(todo'[i].arg.run)
         /\ \A r \in Runs : Active(r) =>
              \A i \in 1..Len(todo') : Does(i, "append")' => ~IsAnswer(todo'[i].arg, r)
         /\ \A i, j \in 1..Len(todo') : Does(i, "append")' /\ Does(j, "append")' => i = j
         /\ \A i \in 1..Len(todo') : Does(i, "append")' =>
              \A k \in 1..Len(disk.journal) : ~Same(todo'[i].arg, disk.journal[k])
         /\ SavesActive' /\ ClearedLast'
<1>1. /\ \A i \in 1..Len(todo') : i + 1 \in 1..Len(todo) /\ todo'[i] = todo[i + 1]
      /\ Len(todo') = Len(todo) - 1 /\ Len(todo) \in Nat
  BY LaterWrites, FileFields DEF FilesOK
<1>2. \A i \in 1..Len(todo') : \A op : Does(i, op)' <=> Does(i + 1, op)
  BY <1>1 DEF Does
<1>3. \A i \in 1..Len(todo') : Does(i, "append")' => HasBegun(todo'[i].arg.run)
  BY <1>1, <1>2 DEF FilesOK, OnlyBegun
<1>4. \A r \in Runs : Active(r) =>
        \A i \in 1..Len(todo') : Does(i, "append")' => ~IsAnswer(todo'[i].arg, r)
  BY <1>1, <1>2 DEF FilesOK, NoAnswerYet
<1>5. \A i, j \in 1..Len(todo') : Does(i, "append")' /\ Does(j, "append")' => i = j
  <2> SUFFICES ASSUME NEW i \in 1..Len(todo'), NEW j \in 1..Len(todo'),
                      Does(i, "append")', Does(j, "append")'
               PROVE  i = j
    OBVIOUS
  <2>1. Does(i + 1, "append") /\ Does(j + 1, "append")
    BY <1>2
  <2>2. i + 1 = j + 1
    BY <1>1, <2>1 DEF FilesOK, AppendsOnce
  <2> QED
    BY <2>2
<1>6. \A i \in 1..Len(todo') : Does(i, "append")' =>
        \A k \in 1..Len(disk.journal) : ~Same(todo'[i].arg, disk.journal[k])
  BY <1>1, <1>2 DEF FilesOK, AppendsOnce
<1>7. SavesActive'
  <2> SUFFICES ASSUME NEW i \in 1..Len(todo'), Does(i, "pending")'
               PROVE  FALSE
    BY DEF SavesActive
  <2>1. Len(todo) = 1
    BY <1>1, <1>2 DEF FilesOK, SavesActive
  <2> QED
    BY <1>1, <2>1
<1>8. ClearedLast'
  <2> SUFFICES ASSUME NEW i \in 1..Len(todo'), Does(i, "clear")'
               PROVE  \A j \in 1..Len(todo') : Does(j, "append")' => j < i
    BY DEF ClearedLast
  <2>1. Does(i + 1, "clear") /\ i + 1 \in 1..Len(todo)
    BY <1>1, <1>2
  <2>2. \A j \in 1..Len(todo) : Does(j, "append") => j < i + 1
    BY <2>1 DEF FilesOK, ClearedLast
  <2>3. ASSUME NEW j \in 1..Len(todo'), Does(j, "append")' PROVE j < i
    <3>1. j + 1 < i + 1
      BY <1>1, <1>2, <2>2, <2>3
    <3> QED
      BY <3>1
  <2> QED
    BY <2>3
<1> QED
  BY <1>3, <1>4, <1>5, <1>6, <1>7, <1>8

\* Writing the head of todo keeps the answers that are in the conversation or about to be.
LEMMA AnsweringStays ==
  ASSUME FilesOK, todo # <<>>, todo' = Tail(todo), UNCHANGED mem,
         \A r \in Runs : Answered(r) => Answered(r)',
         \A r \in Runs : Does(1, "append") /\ IsAnswer(todo[1].arg, r) => Answered(r)'
  PROVE  ClearedAnswered'
<1> SUFFICES ASSUME NEW i \in 1..Len(todo'), Does(i, "clear")', NEW r \in Runs, mem.active = r
             PROVE  Answering(r)'
  BY DEF ClearedAnswered
<1>1. i + 1 \in 1..Len(todo) /\ Does(i + 1, "clear")
  BY LaterWrites DEF Does
<1>2. Answering(r)
  BY <1>1 DEF FilesOK, ClearedAnswered
<1>3. CASE Answered(r)
  BY <1>3 DEF Answering
<1>4. ASSUME NEW k \in 1..Len(todo), Does(k, "append"), IsAnswer(todo[k].arg, r)
      PROVE  Answering(r)'
  <2>1. CASE k = 1
    BY <1>4, <2>1 DEF Answering
  <2>2. CASE k # 1
    <3>1. k - 1 \in 1..Len(todo') /\ todo'[k - 1] = todo[k]
      BY <2>2, LaterWrites
    <3>2. Does(k - 1, "append")' /\ IsAnswer(todo'[k - 1].arg, r)
      BY <1>4, <3>1 DEF Does
    <3> QED
      BY <3>1, <3>2 DEF Answering, IsAnswer
  <2> QED
    BY <2>1, <2>2
<1> QED
  BY <1>2, <1>3, <1>4 DEF Answering

\* Writing what is not the last conversation.json leaves the last one last.
LEMMA SaveStays ==
  ASSUME FilesOK, todo # <<>>, todo' = Tail(todo), UNCHANGED <<run, mem>>,
         IF Does(1, "save") THEN disk'.active = todo[1].arg.active ELSE disk'.active = disk.active
  PROVE  SaveIsLive'
<1>1. /\ \A i \in 1..Len(todo') : i + 1 \in 1..Len(todo) /\ todo'[i] = todo[i + 1]
      /\ \A i \in 1..Len(todo) : i = 1 \/ (i - 1 \in 1..Len(todo') /\ todo[i] = todo'[i - 1])
      /\ Len(todo') = Len(todo) - 1 /\ Len(todo) \in Nat /\ 1 \in 1..Len(todo)
  BY LaterWrites, FileFields DEF FilesOK
<1>2. \A i \in 1..Len(todo') : \A op : Does(i, op)' <=> Does(i + 1, op)
  BY <1>1 DEF Does
<1>3. \A i \in 0..Len(todo') : NoSaveAfter(i)' => NoSaveAfter(i + 1)
  <2> SUFFICES ASSUME NEW i \in 0..Len(todo'), NoSaveAfter(i)',
                      NEW j \in 1..Len(todo), j > i + 1
               PROVE  ~Does(j, "save")
    BY DEF NoSaveAfter
  <2>1. j - 1 \in 1..Len(todo') /\ j - 1 > i
    BY <1>1
  <2>2. ~Does(j - 1, "save")'
    BY <2>1 DEF NoSaveAfter
  <2>3. Does(j - 1, "save")' <=> Does((j - 1) + 1, "save")
    BY <1>2, <2>1
  <2>4. (j - 1) + 1 = j
    OBVIOUS
  <2> QED
    BY <2>2, <2>3, <2>4
<1>4. ASSUME mem.up, NEW i \in 1..Len(todo'), Does(i, "save")', NoSaveAfter(i)'
      PROVE  Names(todo'[i].arg.active)
  BY <1>1, <1>2, <1>3, <1>4 DEF FilesOK, SaveIsLive
<1>5. ASSUME mem.up, NoSaveAfter(0)' PROVE Names(disk'.active)
  <2>1. NoSaveAfter(1)
    BY <1>1, <1>3, <1>5
  <2>2. CASE Does(1, "save")
    BY <1>1, <1>5, <2>1, <2>2 DEF FilesOK, SaveIsLive
  <2>3. CASE ~Does(1, "save")
    <3>1. NoSaveAfter(0)
      BY <1>1, <2>1, <2>3 DEF NoSaveAfter
    <3> QED
      BY <1>5, <2>3, <3>1 DEF FilesOK, SaveIsLive
  <2> QED
    BY <2>2, <2>3
<1>6. \A a : (a = mem'.active \/ (a = None /\ mem'.active \in Runs /\ run'[mem'.active].st = "unstarted"))
               <=> Names(a)
  BY DEF Names
<1> QED
  BY <1>4, <1>5, <1>6 DEF SaveIsLive, Names

\* Write.
LEMMA AppendKeeps ==
  ASSUME FilesOK, todo # <<>>, todo' = Tail(todo), UNCHANGED <<run, mem>>, mem.up,
         Does(1, "append"), disk' = [disk EXCEPT !.journal = Append(@, todo[1].arg)]
  PROVE  FilesOK'
<1> DEFINE m == todo[1].arg
           j == Append(disk.journal, m)
<1>1. m \in Messages /\ m.run \in Runs /\ 1 \in 1..Len(todo) /\ Len(todo) \in Nat
  BY LaterWrites, WriteFields, FileFields DEF FilesOK
<1>2. /\ j \in Seq(Messages) /\ Len(j) = Len(disk.journal) + 1 /\ Len(disk.journal) \in Nat
      /\ \A i \in 1..Len(disk.journal) : j[i] = disk.journal[i]
      /\ j[Len(disk.journal) + 1] = m
  BY <1>1, FileFields DEF FilesOK
<1> HIDE DEF j
<1>3. /\ disk'.journal = j /\ disk'.pending = disk.pending /\ disk'.saved = disk.saved
      /\ disk'.active = disk.active
  BY DEF FilesOK, FilesTyped, j
<1>4. FilesTyped'
  <2>1. disk' = [disk EXCEPT !.journal = j]
    BY DEF j
  <2> QED
    BY <1>2, <2>1, LaterWrites DEF FilesOK, FilesTyped
<1>5. \A i \in 1..Len(j) : i \in 1..Len(disk.journal) \/ (i = Len(disk.journal) + 1 /\ j[i] = m)
  BY <1>2
<1>6. \A r \in Runs : Answered(r)' <=> Answered(r) \/ IsAnswer(m, r)
  <2> SUFFICES ASSUME NEW r \in Runs
               PROVE  Answered(r)' <=> Answered(r) \/ IsAnswer(m, r)
    OBVIOUS
  <2>1. Answered(r) <=> \E i \in 1..Len(disk.journal) : IsAnswer(disk.journal[i], r)
    BY AnsweredIs, FileFields DEF FilesOK
  <2>2. DOMAIN j = 1..Len(j)
    BY <1>2
  <2>3. Answered(r)' <=> \E i \in 1..Len(j) : IsAnswer(j[i], r)
    BY <1>3, <2>2 DEF Answered, IsAnswer
  <2>4. (\E i \in 1..Len(j) : IsAnswer(j[i], r))
          <=> (\E i \in 1..Len(disk.journal) : IsAnswer(disk.journal[i], r)) \/ IsAnswer(m, r)
    BY <1>2, <1>5
  <2> QED
    BY <2>1, <2>3, <2>4
<1>7. \A i \in 1..Len(todo') : ~Does(i, "append")'
  <2> SUFFICES ASSUME NEW i \in 1..Len(todo'), Does(i, "append")' PROVE FALSE
    OBVIOUS
  <2>1. Does(i + 1, "append") /\ i + 1 \in 1..Len(todo)
    BY LaterWrites DEF Does
  <2> QED
    BY <1>1, <2>1 DEF FilesOK, AppendsOnce
<1>8. OneActive'
  <2>1. mem.up' /\ \A r \in Runs : Open(r)' <=> Open(r)
    BY DEF Open, Active
  <2> QED
    BY <2>1 DEF FilesOK, OneActive
<1>9. OnlyBegun'
  <2>1. HasBegun(m.run)
    BY <1>1 DEF FilesOK, OnlyBegun
  <2>2. \A r : HasBegun(r)' <=> HasBegun(r)
    BY DEF HasBegun
  <2>3. \A i \in 1..Len(j) : HasBegun(j[i].run)
    BY <1>2, <1>5, <2>1 DEF FilesOK, OnlyBegun
  <2> QED
    BY <1>3, <1>7, <2>2, <2>3 DEF FilesOK, OnlyBegun
<1>10. NoAnswerYet'
  <2>1. \A r \in Runs : Active(r) => ~Answered(r) /\ ~IsAnswer(m, r)
    BY <1>1 DEF FilesOK, NoAnswerYet
  <2> QED
    BY <1>6, <1>7, <2>1 DEF NoAnswerYet, Active
<1>11. AppendsOnce' /\ SavesActive' /\ ClearedLast'
  BY <1>7, TodoShrinks DEF AppendsOnce
<1>15. ClearedAnswered'
  BY <1>6, AnsweringStays
<1>12. SavedIsPending'
  <2>1. ASSUME NEW r \in disk.saved, ~Answered(r)'
        PROVE  disk.pending = r /\ mem.active = r
    <3>1. r \in Runs /\ ~Answered(r) /\ ~IsAnswer(m, r)
      BY <1>6, <2>1, FileFields DEF FilesOK
    <3>2. \A i \in 1..Len(todo) : Does(i, "append") => i = 1
      BY <1>1 DEF FilesOK, AppendsOnce
    <3> QED
      BY <2>1, <3>1, <3>2 DEF FilesOK, SavedIsPending
  <2> QED
    BY <1>3, <2>1 DEF FilesOK, SavedIsPending
<1>13. SaveIsLive'
  <2>1. ~Does(1, "save")
    BY DEF Does
  <2> QED
    BY <1>3, <2>1, SaveStays
<1>14. JournalOnce'
  <2>1. DOMAIN disk.journal = 1..Len(disk.journal) /\ DOMAIN j = 1..Len(j)
    BY <1>2, FileFields DEF FilesOK
  <2>2. \A i, k \in 1..Len(disk.journal) :
          i # k => ~Same(disk.journal[i], disk.journal[k])
    BY <2>1 DEF FilesOK, JournalOnce, Same
  <2>3. \A k \in 1..Len(disk.journal) : ~Same(m, disk.journal[k])
    BY <1>1 DEF FilesOK, AppendsOnce
  <2>4. \A i, k \in 1..Len(j) : i # k => ~Same(j[i], j[k])
    <3> SUFFICES ASSUME NEW i \in 1..Len(j), NEW k \in 1..Len(j), i # k PROVE ~Same(j[i], j[k])
      OBVIOUS
    <3>1. CASE i \in 1..Len(disk.journal) /\ k \in 1..Len(disk.journal)
      BY <1>2, <2>2, <3>1
    <3>2. CASE i \in 1..Len(disk.journal) /\ j[k] = m
      BY <1>2, <2>3, <3>2 DEF Same
    <3>3. CASE j[i] = m /\ k \in 1..Len(disk.journal)
      BY <1>2, <2>3, <3>3
    <3> QED
      BY <1>5, <3>1, <3>2, <3>3
  <2>5. \A i, k \in DOMAIN disk'.journal : i # k => ~Same(disk'.journal[i], disk'.journal[k])
    BY <1>3, <2>1, <2>4
  <2> QED
    BY <2>5 DEF JournalOnce, Same
<1> QED
  BY <1>4, <1>8, <1>9, <1>10, <1>11, <1>12, <1>13, <1>14, <1>15 DEF FilesOK

\* The writes that leave the messages alone.
LEMMA OtherWriteKeeps ==
  ASSUME FilesOK, todo # <<>>, todo' = Tail(todo), UNCHANGED <<run, mem>>, mem.up,
         ~Does(1, "append"), FilesTyped', disk'.journal = disk.journal,
         \A r \in disk'.saved : r \in disk.saved \/ (Does(1, "pending") /\ r = todo[1].arg),
         SaveIsLive',
         disk'.pending # None => disk'.pending \in disk'.saved,
         \A r \in disk'.saved : ~Answered(r) =>
           /\ disk'.pending = r
           /\ \/ mem.active = r
              \/ \E i \in 1..Len(todo) : Does(i, "append") /\ IsAnswer(todo[i].arg, r)
  PROVE  FilesOK'
<1>1. \A r : /\ (Answered(r)' <=> Answered(r)) /\ (HasBegun(r)' <=> HasBegun(r))
             /\ (Active(r)' <=> Active(r)) /\ (Open(r)' <=> Open(r))
  BY DEF Answered, HasBegun, Active, Open
<1>2. OneActive'
  BY <1>1 DEF FilesOK, OneActive
<1>3. OnlyBegun'
  <2>1. Does(1, "pending") => Open(todo[1].arg) /\ todo[1].arg \in Runs
    BY WriteFields, LaterWrites DEF FilesOK, SavesActive, OneActive
  <2>2. Does(1, "pending") => HasBegun(todo[1].arg)
    BY <2>1 DEF Open, Broken, Active, HasBegun
  <2> QED
    BY <1>1, <2>2, TodoShrinks DEF FilesOK, OnlyBegun
<1>4. NoAnswerYet'
  BY <1>1, TodoShrinks DEF FilesOK, NoAnswerYet
<1>5. AppendsOnce' /\ SavesActive' /\ ClearedLast'
  BY TodoShrinks DEF AppendsOnce
<1>8. ClearedAnswered'
  BY <1>1, AnsweringStays
<1>6. SavedIsPending'
  <2>1. ASSUME NEW r \in disk'.saved, NEW i \in 1..Len(todo), Does(i, "append"),
               IsAnswer(todo[i].arg, r)
        PROVE  \E k \in 1..Len(todo') : Does(k, "append")' /\ IsAnswer(todo'[k].arg, r)
    <3>1. i # 1
      BY <2>1
    <3>2. i - 1 \in 1..Len(todo') /\ todo[i] = todo'[i - 1]
      BY <3>1, LaterWrites
    <3>3. Does(i - 1, "append")' /\ IsAnswer(todo'[i - 1].arg, r)
      BY <2>1, <3>2 DEF Does
    <3> QED
      BY <3>2, <3>3
  <2> QED
    BY <1>1, <2>1 DEF SavedIsPending
<1>7. JournalOnce'
  BY DEF FilesOK, JournalOnce
<1> QED
  BY <1>2, <1>3, <1>4, <1>5, <1>6, <1>7, <1>8 DEF FilesOK

LEMMA WriteKeeps ==
  ASSUME FilesOK, Write
  PROVE  FilesOK'
<1>1. /\ mem.up /\ todo # <<>> /\ todo' = Tail(todo) /\ UNCHANGED <<run, mem>>
      /\ Head(todo) = todo[1] /\ 1 \in 1..Len(todo)
  BY LaterWrites DEF Write
<1>2. CASE Does(1, "append")
  <2>1. disk' = [disk EXCEPT !.journal = Append(@, todo[1].arg)]
    BY <1>1, <1>2 DEF Write, Does
  <2> QED
    BY <1>1, <1>2, <2>1, AppendKeeps
<1>3. CASE Does(1, "save")
  <2>1. disk' = [disk EXCEPT !.count = todo[1].arg.count, !.active = todo[1].arg.active]
    BY <1>1, <1>3 DEF Write, Does
  <2>2. FilesTyped'
    BY <1>1, <1>3, <2>1, WriteFields, LaterWrites DEF FilesOK, FilesTyped
  <2>3. /\ disk'.journal = disk.journal /\ disk'.saved = disk.saved /\ disk'.pending = disk.pending
        /\ disk'.active = todo[1].arg.active
    BY <2>1 DEF FilesOK, FilesTyped
  <2>4. SaveIsLive'
    BY <1>1, <1>3, <2>3, SaveStays
  <2>5. ~Does(1, "append")
    BY <1>3 DEF Does
  <2> QED
    BY <1>1, <2>2, <2>3, <2>4, <2>5, OtherWriteKeeps DEF FilesOK, SavedIsPending
<1>4. CASE Does(1, "pending")
  <2>1. disk' = [disk EXCEPT !.pending = todo[1].arg, !.saved = @ \cup {todo[1].arg}]
    BY <1>1, <1>4 DEF Write, Does
  <2>2. todo[1].arg \in Runs /\ mem.active = todo[1].arg /\ Len(todo) = 1
    BY <1>1, <1>4, WriteFields DEF FilesOK, SavesActive
  <2>3. FilesTyped'
    BY <1>1, <2>1, <2>2, LaterWrites DEF FilesOK, FilesTyped
  <2>4. /\ disk'.journal = disk.journal /\ disk'.saved = disk.saved \cup {todo[1].arg}
        /\ disk'.pending = todo[1].arg /\ disk'.active = disk.active
    BY <2>1 DEF FilesOK, FilesTyped
  <2>5. ~Does(1, "append") /\ ~Does(1, "save")
    BY <1>4 DEF Does
  <2>6. SaveIsLive'
    BY <1>1, <2>4, <2>5, SaveStays
  <2>7. ASSUME NEW r \in disk'.saved, ~Answered(r) PROVE r = todo[1].arg
    <3>1. ~\E i \in 1..Len(todo) : Does(i, "append")
      BY <2>2, <2>5
    <3> QED
      BY <1>1, <2>2, <2>4, <2>7, <3>1 DEF FilesOK, SavedIsPending
  <2> QED
    BY <1>1, <1>4, <2>2, <2>3, <2>4, <2>5, <2>6, <2>7, OtherWriteKeeps
<1>5. CASE Does(1, "clear")
  <2>1. disk' = [disk EXCEPT !.pending = None]
    BY <1>1, <1>5 DEF Write, Does
  <2>2. FilesTyped'
    BY <1>1, <2>1, LaterWrites DEF FilesOK, FilesTyped
  <2>3. /\ disk'.journal = disk.journal /\ disk'.saved = disk.saved /\ disk'.pending = None
        /\ disk'.active = disk.active
    BY <2>1 DEF FilesOK, FilesTyped
  <2>4. ~Does(1, "append") /\ ~Does(1, "save")
    BY <1>5 DEF Does
  <2>5. SaveIsLive'
    BY <1>1, <2>3, <2>4, SaveStays
  <2>6. ~\E i \in 1..Len(todo) : Does(i, "append")
    BY <1>1, <1>5, <2>4 DEF FilesOK, ClearedLast
  <2>8. \A r \in Runs : mem.active = r => Answered(r)
    BY <1>1, <1>5, <2>6 DEF FilesOK, ClearedAnswered, Answering
  <2>7. \A r \in disk.saved : Answered(r)
    BY <1>1, <2>6, <2>8, FileFields DEF FilesOK, SavedIsPending
  <2> QED
    BY <1>1, <2>2, <2>3, <2>4, <2>5, <2>7, OtherWriteKeeps
<1> QED
  BY <1>1, <1>2, <1>3, <1>4, <1>5, WriteFields DEF FilesOK

\* A handler begins: what it has to write is new.
LEMMA BeginKeeps ==
  ASSUME FilesOK, mem'.up, UNCHANGED disk, FilesTyped', OneActive',
         \A r \in Runs : HasBegun(r) => HasBegun(r)',
         \A r \in Runs : Active(r)' => ~Answered(r),
         \A i \in 1..Len(todo') : Does(i, "append")' =>
           /\ run'[todo'[i].arg.run].st # "none"
           /\ \A j \in 1..Len(todo') : Does(j, "append")' => i = j
           /\ \A k \in 1..Len(disk.journal) : ~Same(todo'[i].arg, disk.journal[k])
           /\ \A r \in Runs : Active(r)' => ~IsAnswer(todo'[i].arg, r),
         SavesActive', ClearedLast', ClearedAnswered', SaveIsLive',
         \A r \in disk.saved : ~Answered(r) =>
           \/ mem'.active = r
           \/ \E i \in 1..Len(todo') : Does(i, "append")' /\ IsAnswer(todo'[i].arg, r)
  PROVE  FilesOK'
<1>1. \A r : Answered(r)' <=> Answered(r)
  BY DEF Answered
<1>2. OnlyBegun'
  <2>1. \A i \in 1..Len(disk.journal) : run'[disk.journal[i].run].st # "none"
    BY JournalFields DEF FilesOK, OnlyBegun, HasBegun
  <2>2. \A r \in disk.saved : run'[r].st # "none"
    BY FileFields DEF FilesOK, OnlyBegun, HasBegun
  <2> QED
    BY <2>1, <2>2 DEF OnlyBegun, HasBegun
<1>3. NoAnswerYet'
  BY <1>1 DEF NoAnswerYet
<1>4. AppendsOnce'
  BY DEF AppendsOnce
<1>5. SavedIsPending'
  BY <1>1 DEF FilesOK, SavedIsPending
<1>6. JournalOnce'
  BY DEF FilesOK, JournalOnce
<1> QED
  BY <1>2, <1>3, <1>4, <1>5, <1>6 DEF FilesOK

LEMMA FirstItems ==
  ASSUME NEW S, NEW w \in Seq(S), NEW n \in 0..Len(w)
  PROVE  /\ SubSeq(w, 1, n) \in Seq(S) /\ Len(SubSeq(w, 1, n)) = n
         /\ \A i \in 1..n : SubSeq(w, 1, n)[i] = w[i]
  OBVIOUS

LEMMA StartWritesTyped ==
  ASSUME FilesTyped, NEW r \in Runs
  PROVE  /\ StartWrites(r) \in Seq(Writes) /\ Len(StartWrites(r)) = 3
         /\ StartWrites(r)[1].op = "append" /\ StartWrites(r)[1].arg = UserMessage(r)
         /\ StartWrites(r)[2].op = "save" /\ StartWrites(r)[2].arg.active = None
         /\ StartWrites(r)[3].op = "save" /\ StartWrites(r)[3].arg.active = r
<1> DEFINE c == mem.count + 1
           m == UserMessage(r)
<1>1. m \in Messages /\ c \in Nat
  BY FileFields DEF Messages, UserMessage, Ended
<1>2. Append_(m) \in Writes /\ Save(c, None) \in Writes /\ Save(c, r) \in Writes
  BY <1>1, NewWrites
<1>3. StartWrites(r) = <<Append_(m), Save(c, None), Save(c, r)>>
  BY DEF StartWrites
<1> HIDE DEF c, m
<1>4. /\ Append_(m).op = "append" /\ Append_(m).arg = m
      /\ Save(c, None).op = "save" /\ Save(c, None).arg.active = None
      /\ Save(c, r).op = "save" /\ Save(c, r).arg.active = r
  BY DEF Append_, Save
<1>5. /\ StartWrites(r) \in Seq(Writes) /\ Len(StartWrites(r)) = 3
      /\ StartWrites(r)[1] = Append_(m) /\ StartWrites(r)[2] = Save(c, None)
      /\ StartWrites(r)[3] = Save(c, r)
  BY <1>2, <1>3
<1> QED
  BY <1>4, <1>5 DEF m

\* The first n writes of startRun, of a run that begins (n = 3) or fails to.
LEMMA StartFiles ==
  ASSUME FilesOK, NEW r \in Runs, NEW n \in 1..3, CanStart(r), UNCHANGED disk, RunsOK',
         \A q \in Runs : q # r => run'[q] = run[q],
         todo' = SubSeq(StartWrites(r), 1, n),
         mem' = [mem EXCEPT !.count = @ + 1, !.active = IF n = 1 THEN None ELSE r],
         \/ n = 1 /\ run'[r].st = "gone"
         \/ n # 1 /\ run'[r].st = "unstarted"
         \/ n = 3 /\ run'[r].st = "running"
  PROVE  FilesOK'
<1> DEFINE c == mem.count + 1
           m == UserMessage(r)
           a == IF n = 1 THEN None ELSE r
<1>1. Ready /\ run[r].st = "none" /\ mem.active = None
  BY DEF CanStart
<1>2. m.run = r /\ m.role = "user" /\ c \in Nat
  BY FileFields DEF FilesOK, UserMessage
<1>4. /\ mem' \in [up : BOOLEAN, count : Nat, active : Runs \cup {None}] /\ mem'.active = a /\ mem'.up
  <2>1. mem \in [up : BOOLEAN, count : Nat, active : Runs \cup {None}] /\ mem.up
    BY <1>1 DEF FilesOK, FilesTyped, Ready
  <2>2. mem' = [mem EXCEPT !.count = c, !.active = a] /\ c \in Nat /\ a \in Runs \cup {None}
    BY <1>1, <1>2
  <2> HIDE DEF c, a
  <2> QED
    BY <2>1, <2>2
<1>5. /\ todo' \in Seq(Writes) /\ Len(todo') = n
      /\ todo'[1].op = "append" /\ todo'[1].arg = m
      /\ n > 1 => todo'[2].op = "save" /\ todo'[2].arg.active = None
      /\ n > 2 => todo'[3].op = "save" /\ todo'[3].arg.active = r
  <2> DEFINE w == StartWrites(r)
  <2>1. /\ w \in Seq(Writes) /\ Len(w) = 3 /\ w[1].op = "append" /\ w[1].arg = m
        /\ w[2].op = "save" /\ w[2].arg.active = None
        /\ w[3].op = "save" /\ w[3].arg.active = r
    BY StartWritesTyped DEF FilesOK
  <2> HIDE DEF w, m
  <2>5. w \in Seq(Writes) /\ n \in 0..Len(w)
    BY <2>1
  <2>2. /\ SubSeq(w, 1, n) \in Seq(Writes) /\ Len(SubSeq(w, 1, n)) = n
        /\ \A i \in 1..n : SubSeq(w, 1, n)[i] = w[i]
    BY <2>5, FirstItems
  <2>3. todo' = SubSeq(w, 1, n)
    BY DEF w
  <2>4. 1 \in 1..n /\ (n > 1 => 2 \in 1..n) /\ (n > 2 => 3 \in 1..n)
    OBVIOUS
  <2> QED
    BY <2>1, <2>2, <2>3, <2>4
<1> HIDE DEF c, m
<1>7. \A i \in 1..Len(todo') : i = 1 \/ (i = 2 /\ n > 1) \/ (i = 3 /\ n > 2)
  BY <1>5
<1>8. /\ \A i \in 1..Len(todo') : Does(i, "append")' => i = 1
      /\ \A i \in 1..Len(todo') : Does(i, "save")' => (i = 2 /\ n > 1) \/ (i = 3 /\ n > 2)
      /\ \A i \in 1..Len(todo') : ~Does(i, "pending")' /\ ~Does(i, "clear")'
  BY <1>5, <1>7 DEF Does
<1>10. \A q \in Runs : ~Open(q)
  BY <1>1, NoneNoRun DEF FilesOK, OneActive, Ready
<1>9. (r = a <=> n # 1) /\ \A q \in Runs : q # r => q # a
  BY NoneNoRun
<1> HIDE DEF a
<1>11. \A q \in Runs : /\ Open(q)' <=> q = a
                       /\ Active(q)' => q = r
  BY <1>9, <1>10 DEF Open, Active, Broken
<1>12. \A q \in Runs : HasBegun(q) => HasBegun(q)'
  BY DEF HasBegun
<1>13. \A k \in 1..Len(disk.journal) : disk.journal[k].run # r
  BY <1>1 DEF FilesOK, OnlyBegun, HasBegun
<1>14. ~Answered(r)
  BY <1>13, AnsweredIs, FileFields DEF FilesOK, IsAnswer
<1>15. FilesTyped'
  BY <1>4, <1>5 DEF FilesOK, FilesTyped
<1>16. OneActive'
  BY <1>4, <1>11 DEF OneActive
<1>17. SavesActive' /\ ClearedLast' /\ ClearedAnswered'
  BY <1>8 DEF SavesActive, ClearedLast, ClearedAnswered
<1>18. SaveIsLive'
  <2>1. CASE n = 1
    <3>1. disk.active = None
      <4>1. NoSaveAfter(0) /\ mem.up
        BY <1>1, FileFields DEF FilesOK, NoSaveAfter, Ready
      <4>2. Names(disk.active)
        BY <4>1 DEF FilesOK, SaveIsLive
      <4> QED
        BY <1>1, <4>2, NoneNoRun DEF Names
    <3>2. \A i \in 1..Len(todo') : ~Does(i, "save")'
      BY <1>8, <2>1
    <3> QED
      BY <1>4, <2>1, <3>1, <3>2 DEF SaveIsLive, Names, a
  <2>2. CASE n = 2
    <3>1. ~NoSaveAfter(0)'
      <4>1. 2 \in 1..Len(todo') /\ 2 > 0 /\ Does(2, "save")'
        BY <1>5, <2>2 DEF Does
      <4> QED
        BY <4>1 DEF NoSaveAfter
    <3>2. mem'.active = r /\ run'[r].st = "unstarted" /\ todo'[2].arg.active = None
      BY <1>4, <1>5, <2>2 DEF a
    <3>3. \A i \in 1..Len(todo') : Does(i, "save")' => i = 2
      BY <1>8, <2>2
    <3> QED
      BY <3>1, <3>2, <3>3 DEF SaveIsLive, Names
  <2>3. CASE n = 3
    <3>1. ~NoSaveAfter(0)' /\ ~NoSaveAfter(2)'
      <4>1. 3 \in 1..Len(todo') /\ 3 > 0 /\ 3 > 2 /\ Does(3, "save")'
        BY <1>5, <2>3 DEF Does
      <4> QED
        BY <4>1 DEF NoSaveAfter
    <3>2. mem'.active = r /\ todo'[3].arg.active = r
      BY <1>4, <1>5, <2>3 DEF a
    <3> QED
      BY <1>8, <3>1, <3>2 DEF SaveIsLive, Names
  <2> QED
    BY <2>1, <2>2, <2>3
<1>19. \A q \in disk.saved : Answered(q)
  BY <1>1, NoneNoRun, FileFields DEF FilesOK, SavedIsPending, Ready
<1>20. ASSUME NEW i \in 1..Len(todo'), Does(i, "append")'
       PROVE  /\ run'[todo'[i].arg.run].st # "none"
              /\ \A j \in 1..Len(todo') : Does(j, "append")' => i = j
              /\ \A k \in 1..Len(disk.journal) : ~Same(todo'[i].arg, disk.journal[k])
              /\ \A q \in Runs : Active(q)' => ~IsAnswer(todo'[i].arg, q)
  <2>1. i = 1 /\ todo'[i].arg = m
    BY <1>5, <1>8, <1>20
  <2>2. run'[r].st # "none"
    OBVIOUS
  <2> QED
    BY <1>2, <1>8, <1>13, <2>1, <2>2 DEF Same, IsAnswer
<1> QED
  BY <1>4, <1>11, <1>12, <1>14, <1>15, <1>16, <1>17, <1>18, <1>19, <1>20, BeginKeeps

LEMMA StartRunFiles ==
  ASSUME FilesOK, RunsOK, NEW r \in Runs, NEW mine, StartRun(r, mine)
  PROVE  FilesOK'
<1>1. /\ RunsOK' /\ run'[r].st = "running" /\ \A q \in Runs : q # r => run'[q] = run[q]
  BY StartRunRuns
<1>2. /\ CanStart(r) /\ UNCHANGED disk /\ todo' = StartWrites(r)
      /\ mem' = [mem EXCEPT !.count = @ + 1, !.active = IF 3 = 1 THEN None ELSE r]
  BY DEF StartRun
<1>3. StartWrites(r) \in Seq(Writes) /\ Len(StartWrites(r)) = 3
  BY StartWritesTyped DEF FilesOK
<1>4. StartWrites(r) = SubSeq(StartWrites(r), 1, 3)
  <2> DEFINE w == StartWrites(r)
  <2> HIDE DEF w
  <2>1. ASSUME w \in Seq(Writes), Len(w) = 3 PROVE w = SubSeq(w, 1, 3)
    BY <2>1, FirstItems, SameItems
  <2> QED
    BY <1>3, <2>1 DEF w
<1>5. todo' = SubSeq(StartWrites(r), 1, 3) /\ 3 \in 1..3
  BY <1>2, <1>4
<1> QED
  BY <1>1, <1>2, <1>5, StartFiles

LEMMA StartFailsFiles ==
  ASSUME FilesOK, RunsOK, NEW r \in Runs, NEW n \in 1..3, StartFails(r, n)
  PROVE  FilesOK'
<1>1. /\ RunsOK' /\ \A q \in Runs : q # r => run'[q] = run[q]
      /\ run'[r].st = IF n = 1 THEN "gone" ELSE "unstarted"
  BY StartFailsRuns
<1>2. /\ CanStart(r) /\ UNCHANGED disk /\ todo' = SubSeq(StartWrites(r), 1, n)
      /\ mem' = [mem EXCEPT !.count = @ + 1, !.active = IF n = 1 THEN None ELSE r]
  BY DEF StartFails
<1> QED
  BY <1>1, <1>2, StartFiles

LEMMA PersistTimerFiles ==
  ASSUME FilesOK, RunsOK, NEW r \in Runs, PersistTimer(r)
  PROVE  FilesOK'
<1>0. /\ Ready /\ UNCHANGED <<mem, disk>> /\ todo' \in {<<Pending(r)>>, <<>>} /\ Steady /\ Active(r)
  BY PersistTimerRuns DEF PersistTimer
<1>a. CASE todo' = <<>>
  <2>1. UNCHANGED todo
    BY <1>0, <1>a DEF Ready
  <2> QED
    BY <1>0, <2>1, QuietFiles
<1> SUFFICES ASSUME todo' = <<Pending(r)>> PROVE FilesOK'
  BY <1>0, <1>a
<1>1. /\ Ready /\ UNCHANGED <<mem, disk>> /\ todo' = <<Pending(r)>> /\ Steady /\ Active(r)
  BY <1>0
<1>2. Pending(r) \in Writes /\ Pending(r).op = "pending" /\ Pending(r).arg = r
  BY DEF Pending, Writes
<1>3. todo' \in Seq(Writes) /\ Len(todo') = 1 /\ todo'[1] = Pending(r)
  BY <1>1, <1>2
<1>4. \A i \in 1..Len(todo') : /\ todo'[i].arg = r
                              /\ ~Does(i, "append")' /\ ~Does(i, "save")' /\ ~Does(i, "clear")'
  BY <1>2, <1>3 DEF Does
<1>5. mem.up /\ mem.active = r
  BY <1>1 DEF FilesOK, OneActive, Ready, Open
<1>6. FilesTyped'
  BY <1>1, <1>3 DEF FilesOK, FilesTyped
<1>7. /\ OneActive' /\ \A q \in Runs : HasBegun(q) => HasBegun(q)'
      /\ \A q \in Runs : Active(q)' => ~Answered(q)
  BY <1>1, <1>5 DEF FilesOK, OneActive, Steady, NoAnswerYet
<1>8. SavesActive' /\ ClearedLast' /\ ClearedAnswered'
  BY <1>1, <1>3, <1>4, <1>5 DEF SavesActive, ClearedLast, ClearedAnswered
<1>9. SaveIsLive'
  <2>1. \A a : Names(a) => Names(a)'
    BY <1>1 DEF Names, Steady
  <2>2. Names(disk.active)
    BY <1>1 DEF FilesOK, SaveIsLive, NoSaveAfter, Ready
  <2> QED
    BY <1>1, <1>4, <2>1, <2>2 DEF SaveIsLive
<1>10. \A q \in disk.saved : ~Answered(q) => mem'.active = q
  BY <1>1 DEF FilesOK, SavedIsPending, Ready
<1> QED
  BY <1>1, <1>4, <1>5, <1>6, <1>7, <1>8, <1>9, <1>10, BeginKeeps

LEMMA FinalWritesTyped ==
  ASSUME FilesTyped, NEW r \in Runs, NEW st \in Ended
  PROVE  LET w == FinalWrites(r, st) IN
         /\ w \in Seq(Writes) /\ Len(w) = 4
         /\ w[1].op = "append" /\ w[1].arg = Answer(r, st)
         /\ w[2].op = "save" /\ w[2].arg.active = r /\ w[3].op = "clear"
         /\ w[4].op = "save" /\ w[4].arg.active = None
<1> DEFINE c == mem.count + 1
           m == Answer(r, st)
           w == FinalWrites(r, st)
<1>1. m \in Messages /\ c \in Nat
  BY FileFields DEF Messages, Answer
<1>2. /\ Append_(m) \in Writes /\ Save(c, None) \in Writes /\ Save(c, r) \in Writes
      /\ ClearPending \in Writes
  BY <1>1, NewWrites
<1>3. w = <<Append_(m), Save(c, r), ClearPending, Save(c, None)>>
  BY DEF FinalWrites
<1> HIDE DEF c, m, w
<1>4. /\ Append_(m).op = "append" /\ Append_(m).arg = m /\ ClearPending.op = "clear"
      /\ Save(c, None).op = "save" /\ Save(c, None).arg.active = None
      /\ Save(c, r).op = "save" /\ Save(c, r).arg.active = r
  BY DEF Append_, Save, ClearPending
<1>5. /\ w \in Seq(Writes) /\ Len(w) = 4
      /\ w[1] = Append_(m) /\ w[2] = Save(c, r) /\ w[3] = ClearPending /\ w[4] = Save(c, None)
  BY <1>2, <1>3
<1> QED
  BY <1>4, <1>5 DEF w, m

\* The first n writes of finalize, of a run that ends (n = 4) or is stuck.
LEMMA FinalFiles ==
  ASSUME FilesOK, NEW r \in Runs, NEW st \in Ended, NEW n \in 0..4, Ready, Active(r),
         UNCHANGED disk, RunsOK', \A q \in Runs : q # r => run'[q] = run[q],
         todo' = SubSeq(FinalWrites(r, st), 1, n),
         NEW c \in Nat,
         mem' = [mem EXCEPT !.count = c, !.active = IF n = 4 THEN None ELSE r],
         IF n = 4 THEN run'[r].st \in Ended ELSE run'[r].st = "stuck"
  PROVE  FilesOK'
<1> DEFINE m == Answer(r, st)
           a == IF n = 4 THEN None ELSE r
<1>2. m.run = r /\ m.role = "assistant"
  BY DEF Answer
<1>4. /\ mem' \in [up : BOOLEAN, count : Nat, active : Runs \cup {None}]
      /\ mem'.active = a /\ mem'.up
  <2>1. mem \in [up : BOOLEAN, count : Nat, active : Runs \cup {None}] /\ mem.up
    BY DEF FilesOK, FilesTyped, Ready
  <2>2. mem' = [mem EXCEPT !.count = c, !.active = a] /\ a \in Runs \cup {None}
    OBVIOUS
  <2> HIDE DEF a
  <2> QED
    BY <2>1, <2>2
<1>5. /\ todo' \in Seq(Writes) /\ Len(todo') = n
      /\ n > 0 => todo'[1].op = "append" /\ todo'[1].arg = m
      /\ n > 1 => todo'[2].op = "save" /\ todo'[2].arg.active = r
      /\ n > 2 => todo'[3].op = "clear"
      /\ n > 3 => todo'[4].op = "save" /\ todo'[4].arg.active = None
  <2> DEFINE w == FinalWrites(r, st)
  <2>1. /\ w \in Seq(Writes) /\ Len(w) = 4 /\ w[1].op = "append" /\ w[1].arg = m
        /\ w[2].op = "save" /\ w[2].arg.active = r /\ w[3].op = "clear"
        /\ w[4].op = "save" /\ w[4].arg.active = None
    BY FinalWritesTyped DEF FilesOK
  <2> HIDE DEF w, m
  <2>5. w \in Seq(Writes) /\ n \in 0..Len(w)
    BY <2>1
  <2>2. /\ SubSeq(w, 1, n) \in Seq(Writes) /\ Len(SubSeq(w, 1, n)) = n
        /\ \A i \in 1..n : SubSeq(w, 1, n)[i] = w[i]
    BY <2>5, FirstItems
  <2>3. todo' = SubSeq(w, 1, n)
    BY DEF w
  <2>4. /\ (n > 0 => 1 \in 1..n) /\ (n > 1 => 2 \in 1..n) /\ (n > 2 => 3 \in 1..n)
        /\ (n > 3 => 4 \in 1..n)
    OBVIOUS
  <2> QED
    BY <2>1, <2>2, <2>3, <2>4
<1> HIDE DEF m
<1>7. \A i \in 1..Len(todo') :
        (i = 1 /\ n > 0) \/ (i = 2 /\ n > 1) \/ (i = 3 /\ n > 2) \/ (i = 4 /\ n > 3)
  BY <1>5
<1>8. /\ \A i \in 1..Len(todo') : Does(i, "append")' => i = 1 /\ n > 0
      /\ \A i \in 1..Len(todo') : Does(i, "save")' => (i = 2 /\ n > 1) \/ (i = 4 /\ n > 3)
      /\ \A i \in 1..Len(todo') : Does(i, "clear")' => i = 3 /\ n > 2
      /\ \A i \in 1..Len(todo') : ~Does(i, "pending")'
  BY <1>5, <1>7 DEF Does
<1>10. mem.up /\ mem.active = r /\ \A q \in Runs : Open(q) => q = r
  BY DEF FilesOK, OneActive, Ready, Open
<1>9. (r = a <=> n # 4) /\ \A q \in Runs : q # r => q # a
  BY NoneNoRun
<1> HIDE DEF a
<1>11. \A q \in Runs : /\ Open(q)' <=> q = a
                       /\ ~Active(q)'
  <2>1. CASE n = 4
    BY <1>9, <1>10, <2>1 DEF Open, Active, Ended, Broken
  <2>2. CASE n # 4
    BY <1>9, <1>10, <2>2 DEF Open, Active, Broken
  <2> QED
    BY <2>1, <2>2
<1>12. \A q \in Runs : HasBegun(q) => HasBegun(q)'
  BY DEF HasBegun, Ended
<1>13. \A k \in 1..Len(disk.journal) : ~IsAnswer(disk.journal[k], r)
  BY AnsweredIs, FileFields DEF FilesOK, NoAnswerYet
<1>14. FilesTyped'
  BY <1>4, <1>5 DEF FilesOK, FilesTyped
<1>15. OneActive'
  BY <1>4, <1>11 DEF OneActive
<1>20. n > 0 => 1 \in 1..Len(todo') /\ Does(1, "append")' /\ IsAnswer(todo'[1].arg, r)
  BY <1>2, <1>5 DEF Does, IsAnswer
<1>16. SavesActive' /\ ClearedLast'
  <2>1. SavesActive'
    BY <1>5, <1>8 DEF SavesActive
  <2>2. ClearedLast'
    BY <1>5, <1>7, <1>8 DEF ClearedLast
  <2> QED
    BY <2>1, <2>2
<1>21. ClearedAnswered'
  <2> SUFFICES ASSUME NEW i \in 1..Len(todo'), Does(i, "clear")', NEW q \in Runs, mem'.active = q
               PROVE  Answering(q)'
    BY DEF ClearedAnswered
  <2>1. n > 0 /\ q = r
    BY <1>4, <1>8, <1>9
  <2> QED
    BY <1>20, <2>1 DEF Answering, IsAnswer
<1>17. SaveIsLive'
  <2>1. CASE n = 4
    <3>1. ~NoSaveAfter(0)' /\ ~NoSaveAfter(2)'
      <4>1. 4 \in 1..Len(todo') /\ 4 > 0 /\ 4 > 2 /\ Does(4, "save")'
        BY <1>5, <2>1 DEF Does
      <4> QED
        BY <4>1 DEF NoSaveAfter
    <3>2. mem'.active = None /\ todo'[4].arg.active = None
      BY <1>4, <1>5, <2>1 DEF a
    <3> QED
      BY <1>8, <3>1, <3>2 DEF SaveIsLive, Names
  <2>2. CASE n # 4
    <3>1. mem'.active = r
      BY <1>4, <1>9, <2>2
    <3>2. disk.active = r
      <4>1. NoSaveAfter(0)
        BY FileFields DEF FilesOK, NoSaveAfter, Ready
      <4>2. Names(disk.active)
        BY <1>10, <4>1 DEF FilesOK, SaveIsLive
      <4> QED
        BY <1>10, <4>2 DEF Names, Active
    <3>3. \A i \in 1..Len(todo') : Does(i, "save")' => i = 2 /\ n > 1
      BY <1>8, <2>2
    <3> QED
      BY <1>5, <3>1, <3>2, <3>3 DEF SaveIsLive, Names
  <2> QED
    BY <2>1, <2>2
<1>18. ASSUME NEW q \in disk.saved, ~Answered(q)
       PROVE  \/ mem'.active = q
              \/ \E i \in 1..Len(todo') : Does(i, "append")' /\ IsAnswer(todo'[i].arg, q)
  <2>1. q = r
    BY <1>10, <1>18 DEF FilesOK, SavedIsPending, Ready
  <2>2. CASE n = 4
    BY <1>20, <2>1, <2>2
  <2>3. CASE n # 4
    BY <1>4, <1>9, <2>1, <2>3
  <2> QED
    BY <2>2, <2>3
<1>19. ASSUME NEW i \in 1..Len(todo'), Does(i, "append")'
       PROVE  /\ run'[todo'[i].arg.run].st # "none"
              /\ \A j \in 1..Len(todo') : Does(j, "append")' => i = j
              /\ \A k \in 1..Len(disk.journal) : ~Same(todo'[i].arg, disk.journal[k])
              /\ \A q \in Runs : Active(q)' => ~IsAnswer(todo'[i].arg, q)
  <2>1. i = 1 /\ todo'[i].arg = m
    BY <1>5, <1>8, <1>19
  <2>2. run'[r].st # "none"
    BY DEF Ended
  <2> QED
    BY <1>2, <1>8, <1>11, <1>13, <2>1, <2>2 DEF Same, IsAnswer
<1> QED
  BY <1>4, <1>11, <1>12, <1>14, <1>15, <1>16, <1>17, <1>18, <1>19, <1>21, BeginKeeps

LEMMA FinalizeFiles ==
  ASSUME FilesOK, RunsOK, NEW r \in Runs, NEW result \in Results, Finalize(r, result)
  PROVE  FilesOK'
<1> DEFINE st == FinalStatus(run[r], result)
           w == FinalWrites(r, st)
           c == mem.count + 1
<1>1. /\ Ready /\ Active(r) /\ UNCHANGED disk /\ todo' = w
      /\ mem' = [mem EXCEPT !.count = @ + 1, !.active = None]
  BY DEF Finalize
<1>2. /\ RunsOK' /\ run'[r].st \in Ended /\ \A q \in Runs : q # r => run'[q] = run[q]
  BY FinalizeRuns
<1>3. st \in Ended
  BY DEF FinalStatus, Results, Ended
<1>4. c \in Nat
  BY FileFields DEF FilesOK
<1>5. mem' = [mem EXCEPT !.count = c, !.active = IF 4 = 4 THEN None ELSE r]
  BY <1>1
<1> HIDE DEF st, c
<1>6. w \in Seq(Writes) /\ Len(w) = 4
  BY <1>3, FinalWritesTyped DEF FilesOK
<1>7. w = SubSeq(w, 1, 4)
  <2> HIDE DEF w
  <2>1. 4 \in 0..Len(w)
    BY <1>6
  <2>2. /\ SubSeq(w, 1, 4) \in Seq(Writes) /\ Len(SubSeq(w, 1, 4)) = 4
        /\ \A i \in 1..4 : SubSeq(w, 1, 4)[i] = w[i]
    BY <1>6, <2>1, FirstItems
  <2> QED
    BY <1>6, <2>2, SameItems
<1>8. todo' = SubSeq(FinalWrites(r, st), 1, 4) /\ 4 \in 0..4
  BY <1>1, <1>7
<1> QED
  BY <1>1, <1>2, <1>3, <1>4, <1>5, <1>8, FinalFiles

LEMMA FinalizeFailsFiles ==
  ASSUME FilesOK, RunsOK, NEW r \in Runs, NEW result \in Results, NEW n \in 0..3,
         FinalizeFails(r, result, n)
  PROVE  FilesOK'
<1> DEFINE st == FinalStatus(run[r], result)
           c == IF n = 0 THEN mem.count ELSE mem.count + 1
<1>1. /\ Ready /\ Active(r) /\ UNCHANGED disk /\ todo' = SubSeq(FinalWrites(r, st), 1, n)
      /\ mem' = [mem EXCEPT !.count = c]
  BY DEF FinalizeFails
<1>2. /\ RunsOK' /\ run'[r].st = "stuck" /\ \A q \in Runs : q # r => run'[q] = run[q]
  BY FinalizeFailsRuns
<1>3. st \in Ended
  BY DEF FinalStatus, Results, Ended
<1>4. c \in Nat
  BY FileFields DEF FilesOK
<1> HIDE DEF st, c
<1>5. mem.active = r
  BY <1>1 DEF FilesOK, OneActive, Ready, Open
<1>6. mem' = [mem EXCEPT !.count = c, !.active = IF n = 4 THEN None ELSE r]
  <2>1. mem \in [up : BOOLEAN, count : Nat, active : Runs \cup {None}]
    BY DEF FilesOK, FilesTyped
  <2>2. n # 4
    OBVIOUS
  <2> QED
    BY <1>1, <1>5, <2>1, <2>2
<1>7. n \in 0..4 /\ n # 4
  OBVIOUS
<1> QED
  BY <1>1, <1>2, <1>3, <1>4, <1>6, <1>7, FinalFiles

\* What init writes before it clears the activeRunId: the interrupted answer of r, once.
Plan(w, r) ==
  /\ w \in Seq(Writes)
  /\ \A i \in 1..Len(w) :
       /\ w[i].op \in {"append", "save", "clear"}
       /\ w[i].op = "append" => r # None /\ ~Answered(r) /\ w[i].arg = Answer(r, "interrupted")
       /\ w[i].op = "save" => w[i].arg.active = disk.active
  /\ \A i, j \in 1..Len(w) : w[i].op = "append" /\ w[j].op = "append" => i = j
  /\ \A i, j \in 1..Len(w) : w[i].op = "clear" /\ w[j].op = "append" => j < i
  /\ r # None /\ ~Answered(r) => \E i \in 1..Len(w) : w[i].op = "append"

LEMMA PlanParts ==
  ASSUME FilesTyped, NEW n \in Nat, NEW r \in Runs
  PROVE  /\ Answered(r) => /\ Plan(<<ClearPending>>, r)
                           /\ Plan(<<Save(n, disk.active), ClearPending>>, r)
         /\ ~Answered(r) =>
              /\ Plan(<<Append_(Answer(r, "interrupted")), Save(n + 1, disk.active), ClearPending>>, r)
              /\ Plan(<<Save(n, disk.active), Append_(Answer(r, "interrupted")),
                        Save(n + 1, disk.active), ClearPending>>, r)
<1> DEFINE a == Append_(Answer(r, "interrupted"))
           s == Save(n, disk.active)
           s1 == Save(n + 1, disk.active)
           c == ClearPending
<1>1. a \in Writes /\ s \in Writes /\ s1 \in Writes /\ c \in Writes
  <2>1. Answer(r, "interrupted") \in Messages
    BY DEF Answer, Messages
  <2> QED
    BY <2>1, NewWrites, FileFields
<1>2. /\ a.op = "append" /\ a.arg = Answer(r, "interrupted") /\ s.op = "save" /\ s1.op = "save"
      /\ c.op = "clear" /\ s.arg.active = disk.active /\ s1.arg.active = disk.active
  BY DEF Append_, Save, ClearPending
<1>3. r # None
  BY NoneNoRun
<1> HIDE DEF a, s, s1, c
<1>4. ASSUME Answered(r) PROVE Plan(<<c>>, r)
  <2> DEFINE w == <<c>>
  <2>1. w \in Seq(Writes) /\ Len(w) = 1 /\ w[1] = c
    BY <1>1
  <2> HIDE DEF w
  <2>2. \A i \in 1..Len(w) : w[i] = c
    BY <2>1
  <2>3. Plan(w, r)
    BY <1>2, <1>4, <2>1, <2>2 DEF Plan
  <2> QED
    BY <2>3 DEF w
<1>5. ASSUME Answered(r) PROVE Plan(<<s, c>>, r)
  <2> DEFINE w == <<s, c>>
  <2>1. w \in Seq(Writes) /\ Len(w) = 2 /\ w[1] = s /\ w[2] = c
    BY <1>1
  <2> HIDE DEF w
  <2>2. \A i \in 1..Len(w) : w[i] = s \/ w[i] = c
    BY <2>1
  <2>3. Plan(w, r)
    BY <1>2, <1>5, <2>1, <2>2 DEF Plan
  <2> QED
    BY <2>3 DEF w
<1>6. ASSUME ~Answered(r) PROVE Plan(<<a, s1, c>>, r)
  <2> DEFINE w == <<a, s1, c>>
  <2>1. w \in Seq(Writes) /\ Len(w) = 3 /\ w[1] = a /\ w[2] = s1 /\ w[3] = c
    BY <1>1
  <2> HIDE DEF w
  <2>2. \A i \in 1..Len(w) : (i = 1 /\ w[i] = a) \/ (i = 2 /\ w[i] = s1) \/ (i = 3 /\ w[i] = c)
    BY <2>1
  <2>3. /\ \A i \in 1..Len(w) : w[i].op = "append" => i = 1
        /\ \A i \in 1..Len(w) : w[i].op = "clear" => i = 3
        /\ 1 \in 1..Len(w)
    BY <1>2, <2>1, <2>2
  <2>4. /\ \A i, j \in 1..Len(w) : w[i].op = "append" /\ w[j].op = "append" => i = j
        /\ \A i, j \in 1..Len(w) : w[i].op = "clear" /\ w[j].op = "append" => j < i
        /\ \E i \in 1..Len(w) : w[i].op = "append"
    BY <1>2, <2>1, <2>3
  <2>5. Plan(w, r)
    BY <1>2, <1>3, <1>6, <2>1, <2>2, <2>4 DEF Plan
  <2> QED
    BY <2>5 DEF w
<1>7. ASSUME ~Answered(r) PROVE Plan(<<s, a, s1, c>>, r)
  <2> DEFINE w == <<s, a, s1, c>>
  <2>1. w \in Seq(Writes) /\ Len(w) = 4 /\ w[1] = s /\ w[2] = a /\ w[3] = s1 /\ w[4] = c
    BY <1>1
  <2> HIDE DEF w
  <2>2. \A i \in 1..Len(w) :
          \/ (i = 1 /\ w[i] = s) \/ (i = 2 /\ w[i] = a)
          \/ (i = 3 /\ w[i] = s1) \/ (i = 4 /\ w[i] = c)
    BY <2>1
  <2>3. /\ \A i \in 1..Len(w) : w[i].op = "append" => i = 2
        /\ \A i \in 1..Len(w) : w[i].op = "clear" => i = 4
        /\ 2 \in 1..Len(w)
    BY <1>2, <2>1, <2>2
  <2>4. /\ \A i, j \in 1..Len(w) : w[i].op = "append" /\ w[j].op = "append" => i = j
        /\ \A i, j \in 1..Len(w) : w[i].op = "clear" /\ w[j].op = "append" => j < i
        /\ \E i \in 1..Len(w) : w[i].op = "append"
    BY <1>2, <2>1, <2>3
  <2>5. Plan(w, r)
    BY <1>2, <1>3, <1>7, <2>1, <2>2, <2>4 DEF Plan
  <2> QED
    BY <2>5 DEF w
<1> QED
  BY <1>4, <1>5, <1>6, <1>7 DEF a, s, s1, c

\* What init writes.
LEMMA RestartPlan ==
  ASSUME FilesOK, Restart
  PROVE  \E w : \E count \in Nat :
           /\ Plan(w, disk.pending)
           /\ todo' = ActiveCleared(w, count, disk.active)
           /\ mem' = [up |-> TRUE, count |-> count, active |-> None]
<1> DEFINE r == disk.pending
           n == Len(disk.journal)
           fixed == IF n = disk.count THEN <<>> ELSE <<Save(n, disk.active)>>
           appended == IF Recovered(r) = {} THEN <<>>
                       ELSE <<Append_(Answer(r, "interrupted")), Save(n + 1, disk.active)>>
           w == IF r = None THEN <<>> ELSE fixed \o appended \o <<ClearPending>>
           count == IF r = None THEN disk.count ELSE n + Cardinality(Recovered(r))
<1>1. n \in Nat /\ disk.count \in Nat /\ r \in Runs \cup {None} /\ FilesTyped
  BY FileFields DEF FilesOK
<1>2. Cardinality(Recovered(r)) \in Nat
  BY FS_EmptySet, FS_Singleton DEF Recovered
<1>3. count \in Nat
  BY <1>1, <1>2
<1>4. /\ todo' = ActiveCleared(w, count, disk.active)
      /\ mem' = [up |-> TRUE, count |-> count, active |-> None]
  BY DEF Restart
<1>5. CASE r = None
  <2>1. w = <<>>
    BY <1>5
  <2>2. <<>> \in Seq(Writes) /\ \A i \in 1..Len(<<>>) : FALSE
    OBVIOUS
  <2>3. Plan(<<>>, r)
    BY <1>5, <2>2 DEF Plan
  <2> QED
    BY <1>3, <1>4, <2>1, <2>3
<1>7. /\ ClearPending \in Writes /\ Save(n, disk.active) \in Writes
      /\ Save(n + 1, disk.active) \in Writes
  BY <1>1, NewWrites, FileFields
<1>6. CASE r # None
  <2>1. r \in Runs /\ Append_(Answer(r, "interrupted")) \in Writes
    <3>1. r \in Runs
      BY <1>1, <1>6
    <3>2. Answer(r, "interrupted") \in Messages
      BY <3>1 DEF Answer, Messages
    <3> QED
      BY <3>1, <3>2, NewWrites
  <2>2. CASE Answered(r)
    <3>1. appended = <<>>
      BY <2>2 DEF Recovered
    <3>2. w = <<ClearPending>> \/ w = <<Save(n, disk.active), ClearPending>>
      <4>1. w = fixed \o appended \o <<ClearPending>>
        BY <1>6
      <4> HIDE DEF w, appended
      <4>2. TuplesJoin(ClearPending, ClearPending, ClearPending, ClearPending)
        BY <1>7, Tuples
      <4>3. TuplesJoin(Save(n, disk.active), ClearPending, ClearPending, ClearPending)
        BY <1>7, Tuples
      <4>4. CASE n = disk.count
        BY <3>1, <4>1, <4>2, <4>4 DEF TuplesJoin
      <4>5. CASE n # disk.count
        BY <3>1, <4>1, <4>3, <4>5 DEF TuplesJoin
      <4> QED
        BY <4>4, <4>5
    <3> QED
      BY <1>1, <1>3, <1>4, <2>1, <2>2, <3>2, PlanParts
  <2>3. CASE ~Answered(r)
    <3>1. appended = <<Append_(Answer(r, "interrupted")), Save(n + 1, disk.active)>>
      BY <2>3 DEF Recovered
    <3>2. \/ w = <<Append_(Answer(r, "interrupted")), Save(n + 1, disk.active), ClearPending>>
          \/ w = <<Save(n, disk.active), Append_(Answer(r, "interrupted")),
                   Save(n + 1, disk.active), ClearPending>>
      <4>1. w = fixed \o appended \o <<ClearPending>>
        BY <1>6
      <4> HIDE DEF w, appended
      <4> DEFINE m == Append_(Answer(r, "interrupted"))
                 s == Save(n, disk.active)
                 s1 == Save(n + 1, disk.active)
                 c == ClearPending
      <4>2. /\ <<>> \o <<m, s1>> \o <<c>> = <<m, s1, c>>
            /\ <<s>> \o <<m, s1>> \o <<c>> = <<s, m, s1, c>>
        <5>1. m \in Writes /\ s \in Writes /\ s1 \in Writes /\ c \in Writes
          BY <1>7, <2>1
        <5> HIDE DEF m, s, s1, c
        <5>2. TuplesJoin(m, s1, c, c) /\ TuplesJoin(s, m, s1, c)
          BY <5>1, Tuples
        <5> QED
          BY <5>2 DEF TuplesJoin
      <4>3. fixed = <<>> \/ fixed = <<s>>
        OBVIOUS
      <4> QED
        BY <3>1, <4>1, <4>2, <4>3
    <3> QED
      BY <1>1, <1>3, <1>4, <2>1, <2>3, <3>2, PlanParts
  <2> QED
    BY <2>2, <2>3
<1> QED
  BY <1>1, <1>5, <1>6

LEMMA RestartFiles ==
  ASSUME FilesOK, Restart
  PROVE  FilesOK'
<1>0. PICK w : \E count \in Nat :
        /\ Plan(w, disk.pending)
        /\ todo' = ActiveCleared(w, count, disk.active)
        /\ mem' = [up |-> TRUE, count |-> count, active |-> None]
  BY RestartPlan
<1>1. PICK count \in Nat :
        /\ Plan(w, disk.pending)
        /\ todo' = ActiveCleared(w, count, disk.active)
        /\ mem' = [up |-> TRUE, count |-> count, active |-> None]
  BY <1>0
<1> DEFINE r == disk.pending
<1>2. /\ UNCHANGED <<run, disk>> /\ ~mem.up /\ r \in Runs \cup {None}
      /\ disk.active \in Runs \cup {None} /\ disk.journal \in Seq(Messages)
  BY FileFields DEF Restart, FilesOK
<1>3. mem'.up /\ mem'.active = None
  BY <1>1
<1>4. w \in Seq(Writes) /\ Len(w) \in Nat
  BY <1>1 DEF Plan
<1>5. /\ Save(count, None) \in Writes /\ Save(count, None).op = "save"
      /\ Save(count, None).arg.active = None
  BY NewWrites DEF Save
<1>6. /\ todo' \in Seq(Writes) /\ Len(todo') \in Nat
      /\ \A i \in 1..Len(w) : i \in 1..Len(todo') /\ todo'[i] = w[i]
      /\ \A i \in 1..Len(todo') :
           \/ i \in 1..Len(w)
           \/ i = Len(w) + 1 /\ i = Len(todo') /\ todo'[i] = Save(count, None)
      /\ disk.active # None => Len(todo') = Len(w) + 1
  <2>1. CASE disk.active = None
    BY <1>1, <1>4, <2>1 DEF ActiveCleared
  <2>2. CASE disk.active # None
    <3> DEFINE x == Save(count, None)
    <3>1. todo' = Append(w, x) /\ x \in Writes
      BY <1>1, <1>5, <2>2 DEF ActiveCleared
    <3> HIDE DEF x
    <3>2. /\ Append(w, x) \in Seq(Writes) /\ Len(Append(w, x)) = Len(w) + 1
          /\ \A i \in 1..Len(w) : Append(w, x)[i] = w[i]
          /\ Append(w, x)[Len(w) + 1] = x
      BY <1>4, <3>1
    <3> QED
      BY <1>4, <3>1, <3>2 DEF x
  <2> QED
    BY <2>1, <2>2
<1>7. \A i \in 1..Len(todo') :
        /\ ~Does(i, "pending")'
        /\ Does(i, "append")' => /\ i \in 1..Len(w) /\ w[i].op = "append"
                                 /\ todo'[i].arg = Answer(r, "interrupted")
                                 /\ r # None /\ ~Answered(r)
        /\ Does(i, "clear")' => i \in 1..Len(w) /\ w[i].op = "clear"
  BY <1>1, <1>5, <1>6 DEF Plan, Does
<1>8. FilesTyped'
  <2>1. mem' \in [up : BOOLEAN, count : Nat, active : Runs \cup {None}]
    BY <1>1
  <2> QED
    BY <1>2, <1>6, <2>1 DEF FilesOK, FilesTyped
<1>9. \A q \in Runs : ~Open(q)' /\ ~Active(q)'
  BY <1>2 DEF FilesOK, OneActive, Open, Active
<1>10. OneActive'
  BY <1>3, <1>9, NoneNoRun DEF OneActive
<1>11. SavesActive'
  BY <1>7 DEF SavesActive
<1>12. ClearedLast' /\ ClearedAnswered'
  BY <1>1, <1>3, <1>7, NoneNoRun DEF ClearedLast, ClearedAnswered, Plan
<1>13. SaveIsLive'
  <2>1. CASE disk.active = None
    <3>1. \A i \in 1..Len(todo') : Does(i, "save")' => todo'[i].arg.active = None
      BY <1>1, <1>5, <1>6, <2>1 DEF Plan, Does
    <3> QED
      BY <1>2, <1>3, <2>1, <3>1 DEF SaveIsLive, Names
  <2>2. CASE disk.active # None
    <3> DEFINE k == Len(w) + 1
    <3>1. k \in 1..Len(todo') /\ k > 0 /\ todo'[k] = Save(count, None)
      BY <1>4, <1>6, <2>2
    <3>2. Does(k, "save")'
      BY <1>5, <3>1 DEF Does
    <3>3. \A i \in 1..Len(todo') : NoSaveAfter(i)' => i = k
      <4> SUFFICES ASSUME NEW i \in 1..Len(todo'), i # k PROVE ~NoSaveAfter(i)'
        OBVIOUS
      <4>1. k > i
        BY <1>4, <1>6
      <4> QED
        BY <3>1, <3>2, <4>1 DEF NoSaveAfter
    <3>4. ~NoSaveAfter(0)'
      BY <3>1, <3>2 DEF NoSaveAfter
    <3> QED
      BY <1>3, <1>5, <3>1, <3>3, <3>4 DEF SaveIsLive, Names
  <2> QED
    BY <2>1, <2>2
<1>14. ASSUME NEW q \in disk.saved, ~Answered(q)
       PROVE  \E i \in 1..Len(todo') : Does(i, "append")' /\ IsAnswer(todo'[i].arg, q)
  <2>1. q = r /\ q \in Runs /\ r # None
    BY <1>14, FileFields, NoneNoRun DEF FilesOK, SavedIsPending
  <2>2. PICK i \in 1..Len(w) : w[i].op = "append"
    BY <1>1, <1>14, <2>1 DEF Plan
  <2>3. i \in 1..Len(todo') /\ Does(i, "append")'
    BY <1>6, <2>2 DEF Does
  <2>4. IsAnswer(todo'[i].arg, q)
    BY <1>7, <2>1, <2>3 DEF IsAnswer, Answer
  <2> QED
    BY <2>3, <2>4
<1>15. ASSUME NEW i \in 1..Len(todo'), Does(i, "append")'
       PROVE  /\ run'[todo'[i].arg.run].st # "none"
              /\ \A j \in 1..Len(todo') : Does(j, "append")' => i = j
              /\ \A k \in 1..Len(disk.journal) : ~Same(todo'[i].arg, disk.journal[k])
              /\ \A q \in Runs : Active(q)' => ~IsAnswer(todo'[i].arg, q)
  <2>1. /\ todo'[i].arg.run = r /\ todo'[i].arg.role = "assistant" /\ r # None /\ ~Answered(r)
    BY <1>7, <1>15 DEF Answer
  <2>2. run[r].st # "none"
    BY <2>1 DEF FilesOK, SavedIsPending, OnlyBegun, HasBegun
  <2>3. \A j \in 1..Len(todo') : Does(j, "append")' => i = j
    BY <1>1, <1>7, <1>15 DEF Plan
  <2>4. \A k \in 1..Len(disk.journal) : ~Same(todo'[i].arg, disk.journal[k])
    BY <1>2, <2>1, AnsweredIs DEF Same, IsAnswer
  <2> QED
    BY <1>2, <1>9, <2>1, <2>2, <2>3, <2>4
<1>16. (\A q \in Runs : HasBegun(q) => HasBegun(q)') /\ \A q \in Runs : Active(q)' => ~Answered(q)
  BY <1>2, <1>9 DEF HasBegun
<1> QED
  BY <1>2, <1>3, <1>8, <1>10, <1>11, <1>12, <1>13, <1>14, <1>15, <1>16, BeginKeeps

LEMMA CrashFiles ==
  ASSUME FilesOK, RunsOK, Crash
  PROVE  FilesOK'
<1>1. /\ UNCHANGED disk /\ mem' = [mem EXCEPT !.up = FALSE] /\ todo' = <<>>
      /\ \A q \in Runs : ~Open(q)' /\ ~Active(q)' /\ (HasBegun(q) => HasBegun(q)')
  BY CrashRuns DEF Crash, Open
<1>2. ~mem'.up /\ FilesTyped'
  <2>1. mem' \in [up : BOOLEAN, count : Nat, active : Runs \cup {None}] /\ ~mem'.up
    BY <1>1 DEF FilesOK, FilesTyped
  <2>2. todo' \in Seq(Writes)
    BY <1>1
  <2> QED
    BY <1>1, <2>1, <2>2 DEF FilesOK, FilesTyped
<1>3. \A i \in 1..Len(todo') : FALSE
  BY <1>1
<1>4. OneActive' /\ NoAnswerYet'
  BY <1>1, <1>2 DEF OneActive, NoAnswerYet
<1>5. OnlyBegun'
  <2>1. \A i \in 1..Len(disk.journal) : run'[disk.journal[i].run].st # "none"
    BY <1>1, JournalFields DEF FilesOK, OnlyBegun, HasBegun
  <2>2. \A r \in disk.saved : run'[r].st # "none"
    BY <1>1, FileFields DEF FilesOK, OnlyBegun, HasBegun
  <2> QED
    BY <1>1, <1>3, <2>1, <2>2 DEF OnlyBegun, HasBegun
<1>6. AppendsOnce' /\ SavesActive' /\ ClearedLast' /\ ClearedAnswered' /\ SaveIsLive'
  BY <1>2, <1>3 DEF AppendsOnce, SavesActive, ClearedLast, ClearedAnswered, SaveIsLive
<1>7. SavedIsPending' /\ JournalOnce'
  <2>1. \A q : Answered(q)' <=> Answered(q)
    BY <1>1 DEF Answered
  <2> QED
    BY <1>1, <1>2, <2>1 DEF FilesOK, SavedIsPending, JournalOnce
<1> QED
  BY <1>2, <1>4, <1>5, <1>6, <1>7 DEF FilesOK

LEMMA LeastNumber ==
  ASSUME NEW T \in SUBSET Nat, T # {}
  PROVE  \E n \in T : \A m \in T : n <= m
<1> DEFINE R == {ss \in Nat \X Nat : ss[1] < ss[2]}
<1>1. IsWellFoundedOn(R, Nat)
  BY NatLessThanWellFounded DEF OpToRel
<1>2. PICK x \in T : \A y \in T : ~(<<y, x>> \in R)
  BY <1>1, WFMin
<1>3. ASSUME NEW y \in T PROVE x <= y
  <2>1. <<y, x>> \in Nat \X Nat /\ ~(<<y, x>> \in R)
    BY <1>2
  <2> QED
    BY <2>1
<1> QED
  BY <1>3

LEMMA SetInduction ==
  ASSUME NEW S \in SUBSET Nat, 0 \in S, \A n \in S : n + 1 \in S
  PROVE  S = Nat
<1> SUFFICES ASSUME Nat \ S # {} PROVE FALSE
  OBVIOUS
<1>1. PICK n \in Nat \ S : \A m \in Nat \ S : n <= m
  BY LeastNumber
<1>2. n # 0 /\ n - 1 \in Nat
  OBVIOUS
<1>3. n - 1 \in S
  BY <1>1, <1>2
<1> QED
  BY <1>1, <1>2, <1>3

\* f begins with a and goes on by step, from number to number.
Iterates(f, n, a, step) == f[0] = a /\ \A i \in 1..n : f[i] = step[<<f[i - 1], i>>]

LEMMA IterationExists ==
  ASSUME NEW S, NEW N \in Nat, NEW a \in S, NEW step \in [S \X (1..N) -> S]
  PROVE  \E f \in [0..N -> S] : Iterates(f, N, a, step)
<1> DEFINE T == {n \in Nat : n <= N => \E f \in [0..n -> S] : Iterates(f, n, a, step)}
<1>1. 0 \in T
  <2> DEFINE f == [i \in 0..0 |-> a]
  <2>1. f \in [0..0 -> S] /\ Iterates(f, 0, a, step)
    BY DEF Iterates
  <2> QED
    BY <2>1
<1>2. ASSUME NEW n \in T PROVE n + 1 \in T
  <2> SUFFICES ASSUME n + 1 <= N
               PROVE  \E f \in [0..(n + 1) -> S] : Iterates(f, n + 1, a, step)
    OBVIOUS
  <2>1. PICK f \in [0..n -> S] : Iterates(f, n, a, step)
    BY <1>2
  <2> DEFINE x == step[<<f[n], n + 1>>]
             g == [i \in 0..(n + 1) |-> IF i = n + 1 THEN x ELSE f[i]]
  <2>2. x \in S
    OBVIOUS
  <2> HIDE DEF x
  <2>3. g \in [0..(n + 1) -> S]
    BY <2>2
  <2>4. g[0] = a
    BY <2>1 DEF Iterates
  <2>5. ASSUME NEW i \in 1..(n + 1) PROVE g[i] = step[<<g[i - 1], i>>]
    <3>1. i - 1 \in 0..n /\ g[i - 1] = f[i - 1]
      OBVIOUS
    <3>2. CASE i = n + 1
      <4>1. g[i] = x /\ i - 1 = n
        BY <3>2
      <4> QED
        BY <3>1, <3>2, <4>1 DEF x
    <3>3. CASE i # n + 1
      <4>1. i \in 1..n /\ g[i] = f[i]
        BY <3>3
      <4> QED
        BY <2>1, <3>1, <4>1 DEF Iterates
    <3> QED
      BY <3>2, <3>3
  <2> HIDE DEF g
  <2> QED
    BY <2>3, <2>4, <2>5 DEF Iterates
<1> HIDE DEF T
<1>3. T = Nat
  <2>1. T \in SUBSET Nat
    BY DEF T
  <2> QED
    BY <1>1, <1>2, <2>1, SetInduction
<1> QED
  BY <1>3 DEF T

\* The pieces of text of an event.
Pieces(e) == IF e.type = "delta" THEN e.n ELSE 0

LEMMA ToldFacts ==
  ASSUME NEW log \in Seq(Events)
  PROVE  /\ Told(log) \in [0..Len(log) -> Nat]
         /\ Told(log)[0] = 0
         /\ \A i \in 1..Len(log) : Told(log)[i] = Told(log)[i - 1] + Pieces(log[i])
<1> DEFINE N == Len(log)
           step == [p \in Nat \X (1..N) |-> p[1] + Pieces(log[p[2]])]
<1>1. \A i \in 1..N : Pieces(log[i]) \in Nat
  <2> SUFFICES ASSUME NEW i \in 1..N PROVE Pieces(log[i]) \in Nat
    OBVIOUS
  <2>1. log[i] \in Events
    OBVIOUS
  <2>2. log[i].n \in 0..MaxText
    BY <2>1 DEF Events
  <2> QED
    BY <2>2, AgentAssumption DEF Pieces
<1>2. step \in [Nat \X (1..N) -> Nat] /\ N \in Nat
  BY <1>1
<1>3. PICK f \in [0..N -> Nat] : Iterates(f, N, 0, step)
  BY <1>2, IterationExists
<1>4. /\ f[0] = 0
      /\ \A i \in 1..N : f[i] = f[i - 1] + Pieces(log[i])
  <2>1. \A i \in 1..N : <<f[i - 1], i>> \in Nat \X (1..N)
    BY <1>2
  <2> QED
    BY <1>3, <2>1 DEF Iterates
<1>5. f = [i \in 0..N |-> IF i = 0 THEN 0 ELSE f[i - 1] + (IF log[i].type = "delta" THEN log[i].n ELSE 0)]
  <2>1. \A i \in 0..N : i = 0 \/ i \in 1..N
    BY <1>2
  <2> QED
    BY <1>4, <2>1 DEF Pieces
<1> HIDE DEF N, step
<1>6. Told(log) = [i \in 0..N |-> IF i = 0 THEN 0
                                  ELSE Told(log)[i - 1]
                                         + (IF log[i].type = "delta" THEN log[i].n ELSE 0)]
  BY <1>5 DEF Told, N
<1>7. \A i \in 0..N : Told(log)[i] = IF i = 0 THEN 0 ELSE Told(log)[i - 1] + Pieces(log[i])
  BY <1>6 DEF Pieces
<1>8. \A i \in 0..N : Told(log)[i] \in Nat
  <2> DEFINE T == {i \in Nat : i <= N => Told(log)[i] \in Nat}
  <2>1. 0 \in T
    BY <1>2, <1>7
  <2>2. ASSUME NEW i \in T PROVE i + 1 \in T
    <3> SUFFICES ASSUME i + 1 <= N PROVE Told(log)[i + 1] \in Nat
      OBVIOUS
    <3>1. i + 1 \in 1..N /\ i + 1 \in 0..N /\ (i + 1) - 1 = i /\ i + 1 # 0 /\ i <= N
      BY <1>2, <2>2
    <3>2. Told(log)[i + 1] = Told(log)[i] + Pieces(log[i + 1])
      BY <1>7, <3>1
    <3> QED
      BY <1>1, <2>2, <3>1, <3>2 DEF N
  <2> HIDE DEF T
  <2>3. T = Nat
    <3>1. T \in SUBSET Nat
      BY DEF T
    <3> QED
      BY <2>1, <2>2, <3>1, SetInduction
  <2> QED
    BY <1>2, <2>3 DEF T
<1>9. Told(log) \in [0..N -> Nat]
  BY <1>6, <1>8
<1>10. \A i \in 1..N : i \in 0..N /\ i # 0
  BY <1>2
<1>11. 0 \in 0..N
  BY <1>2
<1> QED
  BY <1>7, <1>9, <1>10, <1>11 DEF N

\* As long as two logs agree, they tell the same.
LEMMA ToldPrefix ==
  ASSUME NEW log \in Seq(Events), NEW more \in Seq(Events), Len(log) <= Len(more),
         \A i \in 1..Len(log) : more[i] = log[i]
  PROVE  \A i \in 0..Len(log) : Told(more)[i] = Told(log)[i]
<1> DEFINE T == {i \in Nat : i <= Len(log) => Told(more)[i] = Told(log)[i]}
<1>1. Len(log) \in Nat /\ Len(more) \in Nat
  OBVIOUS
<1>2. 0 \in T
  BY ToldFacts
<1>3. ASSUME NEW i \in T PROVE i + 1 \in T
  <2> SUFFICES ASSUME i + 1 <= Len(log) PROVE Told(more)[i + 1] = Told(log)[i + 1]
    OBVIOUS
  <2>1. i + 1 \in 1..Len(log) /\ i + 1 \in 1..Len(more) /\ (i + 1) - 1 = i /\ i <= Len(log)
    BY <1>1, <1>3
  <2>2. Told(more)[i + 1] = Told(more)[i] + Pieces(more[i + 1])
    BY <2>1, ToldFacts
  <2>3. Told(log)[i + 1] = Told(log)[i] + Pieces(log[i + 1])
    BY <2>1, ToldFacts
  <2>4. Told(more)[i] = Told(log)[i]
    BY <1>3, <2>1
  <2> QED
    BY <2>1, <2>2, <2>3, <2>4
<1> HIDE DEF T
<1>4. T = Nat
  <2>1. T \in SUBSET Nat
    BY DEF T
  <2> QED
    BY <1>2, <1>3, <2>1, SetInduction
<1> QED
  BY <1>1, <1>4 DEF T

\* Events that are no deltas tell nothing.
LEMMA ToldStays ==
  ASSUME NEW log \in Seq(Events), NEW k \in 0..Len(log),
         \A i \in 1..Len(log) : i > k => log[i].type # "delta"
  PROVE  \A i \in k..Len(log) : Told(log)[i] = Told(log)[k]
<1> DEFINE T == {i \in Nat : k <= i /\ i <= Len(log) => Told(log)[i] = Told(log)[k]}
<1>1. Len(log) \in Nat /\ k \in Nat
  OBVIOUS
<1>2. 0 \in T
  BY <1>1
<1>3. ASSUME NEW i \in T PROVE i + 1 \in T
  <2> SUFFICES ASSUME k <= i + 1, i + 1 <= Len(log) PROVE Told(log)[i + 1] = Told(log)[k]
    OBVIOUS
  <2>1. CASE k = i + 1
    BY <2>1
  <2>2. CASE k # i + 1
    <3>1. i + 1 \in 1..Len(log) /\ (i + 1) - 1 = i /\ i + 1 > k /\ k <= i /\ i <= Len(log)
      BY <1>1, <1>3, <2>2
    <3>2. Told(log)[i + 1] = Told(log)[i] + 0
      BY <3>1, ToldFacts DEF Pieces
    <3>3. Told(log)[i] = Told(log)[k] /\ Told(log)[i] \in Nat
      <4>1. i \in 0..Len(log)
        BY <3>1
      <4> QED
        BY <1>3, <3>1, <4>1, ToldFacts
    <3> QED
      BY <3>2, <3>3
  <2> QED
    BY <2>1, <2>2
<1> HIDE DEF T
<1>4. T = Nat
  <2>1. T \in SUBSET Nat
    BY DEF T
  <2> QED
    BY <1>2, <1>3, <2>1, SetInduction
<1> QED
  BY <1>1, <1>4 DEF T

\* The events of a numbered log after a number, in the log's order.
RestOf(log, after, kept) ==
  /\ kept \in Seq(Events)
  /\ Len(kept) = (IF after < Len(log) THEN Len(log) - after ELSE 0)
  /\ \A i \in 1..Len(kept) : kept[i] = log[after + i]

LEMMA ReplayAfter ==
  ASSUME NEW log \in Seq(Events), NEW after \in Nat, \A i \in 1..Len(log) : log[i].seq = i
  PROVE  RestOf(log, after, Replay(log, after))
<1> DEFINE N == Len(log)
           S == Seq(Events)
           step == [p \in S \X (1..N) |->
                      IF log[p[2]].seq > after THEN Append(p[1], log[p[2]]) ELSE p[1]]
<1>1. N \in Nat /\ \A i \in 1..N : log[i] \in Events
  OBVIOUS
<1>2. step \in [S \X (1..N) -> S] /\ <<>> \in S
  <2>1. ASSUME NEW p \in S \X (1..N)
        PROVE  (IF log[p[2]].seq > after THEN Append(p[1], log[p[2]]) ELSE p[1]) \in S
    BY <1>1
  <2> QED
    BY <2>1
<1>3. PICK f \in [0..N -> S] : Iterates(f, N, <<>>, step)
  BY <1>1, <1>2, IterationExists
<1>4. /\ f[0] = <<>>
      /\ \A i \in 1..N : f[i] = IF log[i].seq > after THEN Append(f[i - 1], log[i]) ELSE f[i - 1]
  <2>1. ASSUME NEW i \in 1..N PROVE <<f[i - 1], i>> \in S \X (1..N)
    <3> HIDE DEF S, N
    <3>1. i - 1 \in 0..N
      BY <1>1
    <3>2. f[i - 1] \in S
      BY <3>1
    <3> QED
      BY <3>2
  <2> QED
    BY <1>3, <2>1 DEF Iterates
<1>5. f = [i \in 0..N |-> IF i = 0 THEN <<>>
                          ELSE IF log[i].seq > after THEN Append(f[i - 1], log[i]) ELSE f[i - 1]]
  <2>1. \A i \in 0..N : i = 0 \/ i \in 1..N
    BY <1>1
  <2> QED
    BY <1>4, <2>1
<1> HIDE DEF N, S, step
<1>6. PICK g : /\ g = [i \in 0..N |-> IF i = 0 THEN <<>>
                                      ELSE IF log[i].seq > after THEN Append(g[i - 1], log[i])
                                                                 ELSE g[i - 1]]
               /\ Replay(log, after) = g[N]
  BY <1>5 DEF Replay, N
<1> DEFINE Is(i) ==
             /\ g[i] \in Seq(Events)
             /\ Len(g[i]) = (IF after < i THEN i - after ELSE 0)
             /\ \A j \in 1..Len(g[i]) : g[i][j] = log[after + j]
           T == {i \in Nat : i <= N => Is(i)}
<1>7. 0 \in T
  <2>1. g[0] = <<>>
    BY <1>1, <1>6
  <2>2. g[0] \in Seq(Events) /\ Len(g[0]) = 0 /\ ~(after < 0)
    BY <2>1
  <2> QED
    BY <2>2
<1>8. ASSUME NEW i \in T PROVE i + 1 \in T
  <2> SUFFICES ASSUME i + 1 <= N PROVE Is(i + 1)
    OBVIOUS
  <2>1. i \in Nat /\ i + 1 \in 0..N /\ i + 1 \in 1..N /\ (i + 1) - 1 = i /\ i + 1 # 0 /\ i <= N
    BY <1>1, <1>8
  <2>2. Is(i)
    BY <1>8, <2>1
  <2>3. log[i + 1].seq = i + 1 /\ log[i + 1] \in Events
    BY <1>1, <2>1 DEF N
  <2>4. g[i + 1] = IF i + 1 > after THEN Append(g[i], log[i + 1]) ELSE g[i]
    BY <1>6, <2>1, <2>3
  <2>5. CASE i + 1 > after
    <3>1. g[i + 1] = Append(g[i], log[i + 1]) /\ Len(g[i]) = i - after
      BY <2>1, <2>2, <2>4, <2>5
    <3>2. /\ Append(g[i], log[i + 1]) \in Seq(Events)
          /\ Len(Append(g[i], log[i + 1])) = Len(g[i]) + 1
          /\ \A j \in 1..Len(g[i]) : Append(g[i], log[i + 1])[j] = g[i][j]
          /\ Append(g[i], log[i + 1])[Len(g[i]) + 1] = log[i + 1]
      BY <2>2, <2>3
    <3>3. Len(g[i]) \in Nat /\ after + (Len(g[i]) + 1) = i + 1 /\ Len(g[i]) + 1 = (i + 1) - after
      BY <2>1, <2>2, <3>1
    <3>4. \A j \in 1..(Len(g[i]) + 1) : j \in 1..Len(g[i]) \/ j = Len(g[i]) + 1
      BY <3>3
    <3> QED
      BY <2>2, <2>5, <3>1, <3>2, <3>3, <3>4
  <2>6. CASE ~(i + 1 > after)
    BY <2>1, <2>2, <2>4, <2>6
  <2> QED
    BY <2>5, <2>6
<1> HIDE DEF T
<1>9. T = Nat
  <2>1. T \in SUBSET Nat
    BY DEF T
  <2> QED
    BY <1>7, <1>8, <2>1, SetInduction
<1>10. Is(N)
  <2>1. N \in T /\ N <= N
    BY <1>1, <1>9
  <2> HIDE DEF Is
  <2> QED
    BY <2>1 DEF T
<1> QED
  BY <1>6, <1>10 DEF RestOf, N

-----------------------------------------------------------------------------
(* The events of a run. *)

\* The events are numbered, the run starts with the first, a message holds the text told so
\* far, and that is not too long.
GoodLog(log) ==
  \A i \in 1..Len(log) :
    /\ log[i].seq = i
    /\ log[i].type = "started" => i = 1
    /\ log[i].type = "message" => log[i].n = Told(log)[i]
    /\ Told(log)[i] <= MaxText

\* What the events tell and the deltas that wait make up the answer.
LogOK(ar) == GoodLog(ar.log) /\ Told(ar.log)[Len(ar.log)] + ar.delta = ar.text

LogsOK == \A r \in Runs : LogOK(run[r])

\* Events after those that flush the deltas.
Plain(e, text) == e.type \notin {"delta", "started"} /\ (e.type = "message" => e.n = text)

\* u is s and then t.
Concat(S, s, t, u) ==
  /\ u \in Seq(S) /\ Len(u) = Len(s) + Len(t) /\ Len(s) \in Nat /\ Len(t) \in Nat
  /\ \A i \in 1..Len(s) : u[i] = s[i]
  /\ \A i \in 1..Len(t) : u[Len(s) + i] = t[i]
  /\ \A i \in 1..Len(u) : i \in 1..Len(s) \/ (i - Len(s) \in 1..Len(t) /\ u[i] = t[i - Len(s)])

LEMMA Concats ==
  ASSUME NEW S, NEW s \in Seq(S), NEW t \in Seq(S)
  PROVE  Concat(S, s, t, s \o t)
<1> DEFINE u == s \o t
<1>1. /\ u \in Seq(S) /\ Len(u) = Len(s) + Len(t)
      /\ Len(s) \in Nat /\ Len(t) \in Nat
      /\ \A i \in 1..Len(s) : u[i] = s[i]
      /\ \A i \in 1..Len(t) : u[Len(s) + i] = t[i]
      /\ \A i \in 1..Len(u) : i \in 1..Len(s) \/ (i - Len(s) \in 1..Len(t) /\ u[i] = t[i - Len(s)])
  BY ConcatItems
<1> HIDE DEF u
<1>2. Concat(S, s, t, u)
  BY <1>1 DEF Concat
<1> QED
  BY <1>2 DEF u

\* evs goes on after log, with the delta first, if there is one.
Tells(log, delta, text, evs) ==
  /\ Told(log)[Len(log)] + delta = text
  /\ delta # 0 => Len(evs) > 0 /\ evs[1].type = "delta" /\ evs[1].n = delta
  /\ \A i \in 1..Len(evs) : (i = 1 /\ delta # 0) \/ Plain(evs[i], text)

LEMMA GrownLog ==
  ASSUME NEW log \in Seq(Events), GoodLog(log), NEW delta \in Nat, NEW text \in 0..MaxText,
         NEW evs \in Seq(NewEvents), Tells(log, delta, text, evs),
         NEW more, Concat(Events, log, Numbered(evs, Len(log)), more)
  PROVE  /\ more \in Seq(Events) /\ GoodLog(more) /\ Told(more)[Len(more)] = text
         /\ Len(more) = Len(log) + Len(evs)
         /\ \A i \in 1..Len(log) : more[i] = log[i]
<1> DEFINE new == Numbered(evs, Len(log))
           n == Len(log)
           k == IF delta = 0 THEN n ELSE n + 1
<1>1. n \in Nat /\ Len(evs) \in Nat /\ text \in Nat /\ text <= MaxText
  BY AgentAssumption
<1>2. /\ new \in Seq(Events) /\ Len(new) = Len(evs)
      /\ \A i \in 1..Len(evs) : new[i].seq = n + i /\ new[i].type = evs[i].type /\ new[i].n = evs[i].n
  BY <1>1, NumberedFacts
<1> HIDE DEF new
<1>4. /\ more \in Seq(Events) /\ Len(more) = n + Len(evs)
      /\ \A i \in 1..n : more[i] = log[i]
      /\ \A i \in 1..Len(more) : i \in 1..n \/ (i - n \in 1..Len(evs) /\ more[i] = new[i - n])
      /\ \A i \in 1..Len(evs) : more[n + i] = new[i]
  BY <1>2 DEF Concat, new
<1>3. /\ Told(log)[n] + delta = text
      /\ delta # 0 => Len(evs) > 0 /\ evs[1].type = "delta" /\ evs[1].n = delta
      /\ \A i \in 1..Len(evs) : (i = 1 /\ delta # 0) \/ Plain(evs[i], text)
  BY DEF Tells
<1>5. \A i \in 0..n : Told(more)[i] = Told(log)[i]
  <2>1. Len(log) <= Len(more)
    BY <1>1, <1>4
  <2> QED
    BY <1>4, <2>1, ToldPrefix
<1> HIDE DEF n
<1>6. k \in 0..Len(more) /\ Told(more)[k] = text
  <2>1. Told(more)[n] + delta = text /\ n \in 0..Len(more)
    BY <1>1, <1>3, <1>4, <1>5
  <2>2. CASE delta = 0
    <3>1. Told(more)[n] \in Nat
      BY <1>4, <2>1, ToldFacts
    <3> QED
      BY <2>1, <2>2, <3>1
  <2>3. CASE delta # 0
    <3>1. 1 \in 1..Len(evs) /\ n + 1 \in 1..Len(more) /\ (n + 1) - 1 = n
      BY <1>1, <1>3, <1>4, <2>3
    <3>2. more[n + 1].type = "delta" /\ more[n + 1].n = delta
      BY <1>2, <1>3, <1>4, <2>3, <3>1
    <3>3. Told(more)[n + 1] = Told(more)[n] + delta
      BY <1>4, <3>1, <3>2, ToldFacts DEF Pieces
    <3> QED
      BY <1>1, <2>1, <2>3, <3>1, <3>3
  <2> QED
    BY <2>2, <2>3
<1>7. \A i \in 1..Len(more) : i > k => Plain(more[i], text)
  <2> SUFFICES ASSUME NEW i \in 1..Len(more), i > k PROVE Plain(more[i], text)
    OBVIOUS
  <2>1. i \notin 1..n /\ ~(i - n = 1 /\ delta # 0)
    BY <1>1
  <2>2. i - n \in 1..Len(evs) /\ more[i] = new[i - n]
    BY <1>4, <2>1
  <2> QED
    BY <1>2, <1>3, <2>1, <2>2 DEF Plain
<1>8. \A i \in k..Len(more) : Told(more)[i] = text
  <2>1. \A i \in 1..Len(more) : i > k => more[i].type # "delta"
    BY <1>7 DEF Plain
  <2> QED
    BY <1>4, <1>6, <2>1, ToldStays
<1>9. Told(more)[Len(more)] = text
  BY <1>1, <1>4, <1>6, <1>8
<1>10. GoodLog(more)
  <2> SUFFICES ASSUME NEW i \in 1..Len(more)
               PROVE  /\ more[i].seq = i
                      /\ more[i].type = "started" => i = 1
                      /\ more[i].type = "message" => more[i].n = Told(more)[i]
                      /\ Told(more)[i] <= MaxText
    BY DEF GoodLog
  <2>1. CASE i \in 1..n
    <3>1. i \in 0..n /\ i \in 1..Len(log)
      BY <1>1, <2>1 DEF n
    <3> QED
      BY <1>4, <1>5, <2>1, <3>1 DEF GoodLog
  <2>2. CASE i \notin 1..n
    <3>1. i - n \in 1..Len(evs) /\ more[i] = new[i - n] /\ n + (i - n) = i
      BY <1>1, <1>4, <2>2
    <3>2. more[i].seq = i
      BY <1>2, <3>1
    <3>3. i \in k..Len(more) /\ (i = k => delta # 0 /\ i - n = 1)
      BY <1>1, <2>2, <1>4
    <3>4. Told(more)[i] = text
      BY <1>8, <3>3
    <3>5. CASE i > k
      BY <1>1, <1>7, <3>2, <3>4, <3>5 DEF Plain
    <3>6. CASE i = k
      <4>1. more[i].type = "delta"
        BY <1>2, <1>3, <3>1, <3>3, <3>6
      <4> QED
        BY <1>1, <3>2, <3>4, <4>1
    <3>7. i > k \/ i = k
      BY <1>1, <3>3
    <3> QED
      BY <3>5, <3>6, <3>7
  <2> QED
    BY <2>1, <2>2
<1> QED
  BY <1>4, <1>9, <1>10 DEF n

LEMMA GoodEmpty == GoodLog(<<>>) /\ Told(<<>>)[0] = 0
<1>1. <<>> \in Seq(Events) /\ Len(<<>>) = 0
  OBVIOUS
<1>2. \A i \in 1..Len(<<>>) : FALSE
  BY <1>1
<1> QED
  BY <1>1, <1>2, ToldFacts DEF GoodLog

LEMMA GoneLog == LogOK(Gone) /\ LogOK(NoRun)
<1>1. Len(<<>>) = 0
  OBVIOUS
<1> QED
  BY <1>1, GoneFacts, GoodEmpty DEF LogOK

LEMMA FlushedEvents ==
  ASSUME NEW ar \in RunRecords, LogOK(ar), NEW evs \in Seq(NewEvents),
         \A i \in 1..Len(evs) : Plain(evs[i], ar.text)
  PROVE  /\ Flushed(ar) \o evs \in Seq(NewEvents)
         /\ Tells(ar.log, ar.delta, ar.text, Flushed(ar) \o evs)
<1> DEFINE fl == Flushed(ar)
           all == fl \o evs
<1>1. fl \in Seq(NewEvents)
  BY FlushedTyped
<1>2. Told(ar.log)[Len(ar.log)] + ar.delta = ar.text
  BY DEF LogOK
<1>3. CASE ar.delta = 0
  <2>1. fl = <<>>
    BY <1>3 DEF Flushed
  <2>2. all = evs
    BY <2>1
  <2> QED
    BY <1>2, <1>3, <2>2 DEF Tells
<1>4. CASE ar.delta # 0
  <2>1. fl = <<Event("delta", ar.delta)>>
    BY <1>4 DEF Flushed
  <2>2. Len(fl) = 1 /\ fl[1] = Event("delta", ar.delta)
    BY <2>1
  <2> HIDE DEF fl
  <2>3. Concat(NewEvents, fl, evs, all)
    BY <1>1, Concats
  <2> HIDE DEF all
  <2>4. Len(all) > 0 /\ all[1] = fl[1]
    BY <2>2, <2>3 DEF Concat
  <2>5. all[1].type = "delta" /\ all[1].n = ar.delta
    BY <2>2, <2>4 DEF Event
  <2>6. \A i \in 1..Len(all) : i = 1 \/ Plain(all[i], ar.text)
    <3>1. \A i \in 1..1 : i = 1
      OBVIOUS
    <3> QED
      BY <2>2, <2>3, <3>1 DEF Concat
  <2>7. Tells(ar.log, ar.delta, ar.text, all) /\ all \in Seq(NewEvents)
    BY <1>2, <1>4, <2>3, <2>4, <2>5, <2>6 DEF Tells, Concat
  <2> QED
    BY <2>7 DEF all, fl
<1> QED
  BY <1>1, <1>3, <1>4

\* A log grows at its end.
Grown(log, more) ==
  /\ log \in Seq(Events) /\ more \in Seq(Events) /\ GoodLog(more) /\ Len(log) <= Len(more)
  /\ \A i \in 1..Len(log) : more[i] = log[i]

\* push and emit tell what is to be told.
LEMMA PushLog ==
  ASSUME run \in [Runs -> RunRecords], NEW r \in Runs, NEW ar \in RunRecords, LogOK(ar),
         NEW evs \in Seq(NewEvents), NEW delta \in Nat,
         Tells(ar.log, delta, ar.text, evs), NEW more,
         Concat(Events, ar.log, Numbered(evs, Len(ar.log)), more)
  PROVE  Grown(ar.log, more) /\ Told(more)[Len(more)] = ar.text
<1>1. ar.log \in Seq(Events) /\ ar.text \in 0..MaxText /\ Len(ar.log) \in Nat /\ GoodLog(ar.log)
  BY RunFields DEF LogOK
<1>2. /\ more \in Seq(Events) /\ GoodLog(more) /\ Told(more)[Len(more)] = ar.text
      /\ Len(more) = Len(ar.log) + Len(evs)
      /\ \A i \in 1..Len(ar.log) : more[i] = ar.log[i]
  BY <1>1, GrownLog
<1>3. Len(evs) \in Nat
  OBVIOUS
<1> QED
  BY <1>1, <1>2, <1>3 DEF Grown

LEMMA EmitLog ==
  ASSUME run \in [Runs -> RunRecords], NEW r \in Runs, NEW ar \in RunRecords, LogOK(ar),
         NEW evs \in Seq(NewEvents), \A i \in 1..Len(evs) : Plain(evs[i], ar.text),
         Emit(r, ar, evs)
  PROVE  LogOK(run'[r]) /\ Grown(ar.log, run'[r].log)
<1> DEFINE all == Flushed(ar) \o evs
           more == ar.log \o Numbered(all, Len(ar.log))
<1>1. all \in Seq(NewEvents) /\ Tells(ar.log, ar.delta, ar.text, all)
  BY FlushedEvents
<1>2. run'[r].log = more /\ run'[r].delta = 0 /\ run'[r].text = ar.text
  BY EmitRun
<1>3. ar.log \in Seq(Events) /\ ar.delta \in Nat /\ ar.text \in Nat /\ Len(ar.log) \in Nat
  BY RunFields
<1> HIDE DEF all
<1>4. Concat(Events, ar.log, Numbered(all, Len(ar.log)), more)
  BY <1>1, <1>3, NumberedFacts, Concats
<1> HIDE DEF more
<1>5. Grown(ar.log, more) /\ Told(more)[Len(more)] = ar.text
  BY <1>1, <1>3, <1>4, PushLog
<1> QED
  BY <1>2, <1>3, <1>5 DEF LogOK, Grown

-----------------------------------------------------------------------------
(* The portal that follows a run. *)

OpenStatuses == {"running", "awaiting_approval", "unstarted", "stuck"}

LEMMA OpenIs == \A r : Open(r) <=> run[r].st \in OpenStatuses
  BY DEF Open, Active, Broken, OpenStatuses

ClientRecords == [st : {"off", "loaded", "stream", "retry", "over"}, run : Runs \cup {None},
                  seq : Nat, text : 0..MaxText]

ConnOK ==
  /\ conn.on <=> client.st = "stream"
  /\ ~conn.on => conn = NoConn
  /\ conn.listening => Open(client.run)

\* What the portal has, and what is on its way, is the beginning of log.
Follows(log) ==
  /\ log \in Seq(Events) /\ GoodLog(log)
  /\ client.seq + Len(conn.queue) <= Len(log)
  /\ client.text = Told(log)[client.seq]
  /\ \A i \in 1..Len(conn.queue) : conn.queue[i] = log[client.seq + i]
  /\ conn.listening => client.seq + Len(conn.queue) = Len(log)

\* The log is the run's, or was when the run was forgotten.
FollowOK ==
  Following => /\ client.run \in Runs /\ HasBegun(client.run)
               /\ \E log : Follows(log) /\ (run[client.run].st # "gone" => log = run[client.run].log)

StreamOK == conn \in ConnRecords /\ client \in ClientRecords /\ ConnOK /\ FollowOK

\* The inductive invariant.
AgentIInv == RunsOK /\ FilesOK /\ LogsOK /\ StreamOK

LEMMA StreamFields ==
  ASSUME StreamOK
  PROVE  /\ conn.on \in BOOLEAN /\ conn.listening \in BOOLEAN /\ conn.queue \in Seq(Events)
         /\ Len(conn.queue) \in Nat /\ client.seq \in Nat /\ client.text \in 0..MaxText
         /\ client.run \in Runs \cup {None}
         /\ conn.listening => conn.on /\ Following /\ client.run \in Runs
         /\ ~conn.on => conn.queue = <<>> /\ ~conn.listening
<1>1. conn.queue \in Seq(Events)
  BY DEF StreamOK, ConnRecords
<1>2. /\ conn.on \in BOOLEAN /\ conn.listening \in BOOLEAN
      /\ client.seq \in Nat /\ client.text \in 0..MaxText /\ client.run \in Runs \cup {None}
  BY DEF StreamOK, ConnRecords, ClientRecords
<1>3. ~conn.on => conn.queue = <<>> /\ ~conn.listening
  BY DEF StreamOK, ConnOK, NoConn
<1>4. conn.listening => conn.on /\ Following /\ client.run \in Runs
  BY <1>2, <1>3 DEF StreamOK, ConnOK, FollowOK, Following
<1> QED
  BY <1>1, <1>2, <1>3, <1>4

\* push writes the events to the listener, or leaves the connection.
LEMMA ConnPushed ==
  ASSUME NEW r \in Runs, NEW ar \in RunRecords, NEW evs \in Seq(NewEvents), conn \in ConnRecords,
         Push(r, ar, evs)
  PROVE  \/ /\ conn.listening /\ client.run = r /\ conn' \in ConnRecords /\ conn'.on = conn.on
            /\ Concat(Events, conn.queue, Numbered(evs, Len(ar.log)), conn'.queue)
            /\ conn'.listening => \A i \in 1..Len(evs) : evs[i].type # "end"
         \/ ~(conn.listening /\ client.run = r) /\ conn' = conn
<1> DEFINE new == Numbered(evs, Len(ar.log))
           queue == conn.queue \o new
           last == \E i \in DOMAIN evs : evs[i].type = "end"
<1>1. CASE ~(conn.listening /\ client.run = r)
  BY <1>1 DEF Push
<1>2. CASE conn.listening /\ client.run = r
  <2>1. conn' = [conn EXCEPT !.queue = queue, !.listening = ~last]
    BY <1>2 DEF Push
  <2>2. new \in Seq(Events) /\ conn.queue \in Seq(Events)
    BY RunFields, NumberedFacts DEF ConnRecords
  <2>3. Concat(Events, conn.queue, new, queue)
    BY <2>2, Concats
  <2>4. queue \in Seq(Events)
    BY <2>3 DEF Concat
  <2>5. last \in BOOLEAN /\ (~last => \A i \in 1..Len(evs) : evs[i].type # "end")
    OBVIOUS
  <2> HIDE DEF queue, last, new
  <2>6. /\ conn' \in ConnRecords /\ conn'.on = conn.on /\ conn'.queue = queue
        /\ conn'.listening = ~last
    BY <2>1, <2>4, <2>5 DEF ConnRecords
  <2> QED
    BY <1>2, <2>3, <2>5, <2>6 DEF new
<1> QED
  BY <1>1, <1>2

LEMMA FollowsLonger ==
  ASSUME StreamOK, NEW log, Follows(log), NEW more, Grown(log, more), UNCHANGED client,
         conn'.queue = conn.queue, conn'.listening => Len(log) = Len(more) /\ conn.listening
  PROVE  Follows(more)'
<1>1. /\ client.seq \in Nat /\ Len(conn.queue) \in Nat /\ Len(log) \in Nat /\ Len(more) \in Nat
  BY StreamFields DEF Grown
<1>2. client.seq \in 0..Len(log)
  BY <1>1 DEF Follows
<1>3. Told(more)[client.seq] = Told(log)[client.seq]
  BY <1>2, ToldPrefix DEF Grown
<1>4. ASSUME NEW i \in 1..Len(conn.queue) PROVE conn.queue[i] = more[client.seq + i]
  <2>1. client.seq + i \in 1..Len(log)
    BY <1>1 DEF Follows
  <2> QED
    BY <2>1 DEF Follows, Grown
<1>5. client.seq + Len(conn.queue) <= Len(more)
  BY <1>1 DEF Follows, Grown
<1> QED
  BY <1>3, <1>4, <1>5 DEF Follows, Grown

LEMMA FollowsPushed ==
  ASSUME StreamOK, NEW log, Follows(log), NEW more, Grown(log, more), UNCHANGED client,
         conn.listening, NEW new, Concat(Events, log, new, more),
         Concat(Events, conn.queue, new, conn'.queue)
  PROVE  Follows(more)'
<1>1. /\ client.seq \in Nat /\ Len(conn.queue) \in Nat /\ Len(log) \in Nat /\ Len(more) \in Nat
      /\ Len(new) \in Nat /\ Len(more) = Len(log) + Len(new)
      /\ Len(conn'.queue) = Len(conn.queue) + Len(new)
      /\ client.seq + Len(conn.queue) = Len(log)
  BY StreamFields DEF Grown, Follows, Concat
<1>2. client.seq \in 0..Len(log)
  BY <1>1 DEF Follows
<1>3. Told(more)[client.seq] = Told(log)[client.seq]
  BY <1>2, ToldPrefix DEF Grown
<1>4. ASSUME NEW i \in 1..Len(conn'.queue) PROVE conn'.queue[i] = more[client.seq + i]
  <2>1. CASE i \in 1..Len(conn.queue)
    <3>1. client.seq + i \in 1..Len(log)
      BY <1>1, <2>1
    <3> QED
      BY <2>1, <3>1 DEF Follows, Grown, Concat
  <2>2. CASE i \notin 1..Len(conn.queue)
    <3>1. i - Len(conn.queue) \in 1..Len(new) /\ conn'.queue[i] = new[i - Len(conn.queue)]
      BY <2>2 DEF Concat
    <3>2. more[Len(log) + (i - Len(conn.queue))] = new[i - Len(conn.queue)]
      BY <3>1 DEF Concat
    <3>3. Len(log) + (i - Len(conn.queue)) = client.seq + i
      <4>1. i \in Int /\ Len(conn.queue) \in Int /\ client.seq \in Int /\ Len(log) \in Int
        BY <1>1
      <4>2. Len(log) = client.seq + Len(conn.queue)
        BY <1>1
      <4> QED
        BY <4>1, <4>2
    <3> QED
      BY <3>1, <3>2, <3>3
  <2> QED
    BY <2>1, <2>2
<1>5. client.seq + Len(conn'.queue) = Len(more)
  BY <1>1
<1> QED
  BY <1>1, <1>3, <1>4, <1>5 DEF Follows, Grown

\* A push tells the portal that follows the run, if it listens.
LEMMA PushStream ==
  ASSUME RunsOK, StreamOK, NEW r \in Runs, NEW ar \in RunRecords, NEW evs \in Seq(NewEvents),
         Push(r, ar, evs), UNCHANGED client, ar.log = run[r].log,
         Grown(run[r].log, run'[r].log),
         ar.st = "gone" <=> run[r].st = "gone", HasBegun(r) => ar.st # "none",
         \/ Open(r) => ar.st \in OpenStatuses
         \/ \E i \in 1..Len(evs) : evs[i].type = "end"
  PROVE  StreamOK'
<1> DEFINE new == Numbered(evs, Len(ar.log))
<1>0. PICK log : log = run[r].log
  OBVIOUS
<1>a. PICK more : more = run'[r].log
  OBVIOUS
<1>1. /\ \A q \in Runs : q # r => run'[q] = run[q]
      /\ run'[r].st = ar.st /\ more = ar.log \o new
  BY <1>a, PushRun DEF RunsOK, RunsTyped
<1>2. Concat(Events, log, new, more)
  <2>1. ar.log \in Seq(Events) /\ new \in Seq(Events)
    BY RunFields, NumberedFacts
  <2> HIDE DEF new
  <2>2. Concat(Events, ar.log, new, ar.log \o new)
    BY <2>1, Concats
  <2> QED
    BY <1>0, <1>1, <2>2
<1>3. Grown(log, more)
  BY <1>0, <1>a
<1>4. conn \in ConnRecords /\ client \in ClientRecords
  BY DEF StreamOK
<1> HIDE DEF new
<1>5. CASE conn.listening /\ client.run = r /\ conn' \in ConnRecords /\ conn'.on = conn.on
           /\ Concat(Events, conn.queue, new, conn'.queue)
           /\ (conn'.listening => \A i \in 1..Len(evs) : evs[i].type # "end")
  <2>1. conn.on /\ Following /\ Open(r)
    BY <1>5, StreamFields DEF StreamOK, ConnOK
  <2>2. run[r].st # "gone" /\ HasBegun(r)
    BY <2>1 DEF Open, Active, Broken, OpenStatuses, HasBegun
  <2>3. Follows(log)
    BY <1>0, <1>5, <2>1, <2>2 DEF StreamOK, FollowOK
  <2>4. Follows(more)'
    BY <1>2, <1>3, <1>5, <2>3, FollowsPushed
  <2>5. FollowOK'
    BY <1>1, <1>a, <1>5, <2>2, <2>4 DEF FollowOK, Following, HasBegun
  <2>6. conn'.listening => Open(client.run)'
    BY <1>1, <1>5, <2>1 DEF Open, Active, Broken, OpenStatuses
  <2>7. ConnOK'
    BY <1>5, <2>1, <2>6 DEF StreamOK, ConnOK
  <2> QED
    BY <1>4, <1>5, <2>5, <2>7 DEF StreamOK
<1>6. CASE ~(conn.listening /\ client.run = r) /\ conn' = conn
  <2>1. conn'.listening => Open(client.run)'
    <3>1. ASSUME conn.listening PROVE client.run \in Runs /\ client.run # r /\ Open(client.run)
      BY <1>6, <3>1, StreamFields DEF StreamOK, ConnOK
    <3> QED
      BY <1>1, <1>6, <3>1 DEF Open, Active, Broken, OpenStatuses
  <2>2. ConnOK'
    BY <1>6, <2>1 DEF StreamOK, ConnOK
  <2>3. FollowOK'
    <3> SUFFICES ASSUME Following
                 PROVE  /\ client.run \in Runs /\ run'[client.run].st # "none"
                        /\ \E l : /\ Follows(l)'
                                  /\ run'[client.run].st # "gone" => l = run'[client.run].log
      BY DEF FollowOK, Following, HasBegun
    <3>1. PICK l : Follows(l) /\ (run[client.run].st # "gone" => l = run[client.run].log)
      BY DEF StreamOK, FollowOK
    <3>2. client.run \in Runs /\ run[client.run].st # "none"
      BY DEF StreamOK, FollowOK, HasBegun
    <3>3. Follows(l)'
      BY <1>6, <3>1 DEF Follows
    <3>4. CASE client.run # r \/ run[r].st = "gone"
      <4>1. run'[client.run].st # "none"
        BY <1>1, <3>2, <3>4 DEF HasBegun
      <4>2. run'[client.run].st # "gone" => l = run'[client.run].log
        BY <1>1, <3>1, <3>2, <3>4
      <4> QED
        BY <3>2, <3>3, <4>1, <4>2
    <3>5. CASE client.run = r /\ run[r].st # "gone"
      <4>1. l = log /\ run'[r].st # "none"
        BY <1>0, <1>1, <3>1, <3>2, <3>5 DEF HasBegun
      <4>2. Follows(more)'
        BY <1>3, <1>6, <3>1, <3>5, <4>1, FollowsLonger
      <4> QED
        BY <1>a, <3>2, <3>5, <4>1, <4>2
    <3> QED
      BY <3>4, <3>5
  <2> QED
    BY <1>4, <1>6, <2>2, <2>3 DEF StreamOK
<1> QED
  BY <1>4, <1>5, <1>6, ConnPushed DEF new

LEMMA LogsPrimed ==
  ASSUME \A q \in Runs : LogOK(run'[q])
  PROVE  LogsOK'
<1> SUFFICES \A r \in Runs : LogOK(run[r])'
  BY DEF LogsOK
<1> QED
  BY DEF LogOK, GoodLog, Told

LEMMA OneLog ==
  ASSUME LogsOK, NEW r \in Runs, LogOK(run'[r]), \A q \in Runs : q # r => run'[q] = run[q]
  PROVE  LogsOK'
<1>1. \A q \in Runs : LogOK(run'[q])
  BY DEF LogsOK
<1> QED
  BY <1>1, LogsPrimed

\* emit tells the rest of the answer and evs, to the events of the run and to its portal.
LEMMA EmitStream ==
  ASSUME RunsOK, LogsOK, StreamOK, NEW r \in Runs, NEW ar \in RunRecords,
         ar.log = run[r].log, ar.delta = run[r].delta, ar.text = run[r].text,
         NEW evs \in Seq(NewEvents), \A i \in 1..Len(evs) : Plain(evs[i], ar.text),
         Emit(r, ar, evs), UNCHANGED client,
         ar.st = "gone" <=> run[r].st = "gone", HasBegun(r) => ar.st # "none",
         \/ Open(r) => ar.st \in OpenStatuses
         \/ Len(evs) > 0 /\ evs[Len(evs)].type = "end"
  PROVE  LogsOK' /\ StreamOK'
<1> DEFINE ar0 == [ar EXCEPT !.delta = 0]
           all == Flushed(ar) \o evs
<1>1. ar0 \in RunRecords /\ ar0.log = ar.log /\ ar0.st = ar.st
  <2>1. 0 \in 0..MaxText
    BY AgentAssumption
  <2> QED
    BY <2>1 DEF RunRecords
<1>2. Concat(NewEvents, Flushed(ar), evs, all)
  BY FlushedTyped, Concats
<1>3. Push(r, ar0, all)
  BY DEF Emit
<1>4. LogOK(ar)
  BY DEF LogsOK, LogOK
<1>5. LogOK(run'[r]) /\ Grown(run[r].log, run'[r].log) /\ \A q \in Runs : q # r => run'[q] = run[q]
  BY <1>4, EmitLog, EmitRun DEF RunsOK, RunsTyped
<1>6. LogsOK'
  BY <1>5, OneLog
<1> HIDE DEF ar0, all
<1>7. all \in Seq(NewEvents)
  BY <1>2 DEF Concat
<1>8. \/ Open(r) => ar0.st \in OpenStatuses
      \/ \E i \in 1..Len(all) : all[i].type = "end"
  <2>1. CASE Len(evs) > 0 /\ evs[Len(evs)].type = "end"
    <3> DEFINE k == Len(Flushed(ar)) + Len(evs)
    <3>1. Len(evs) \in 1..Len(evs)
      BY <2>1
    <3>2. k \in 1..Len(all) /\ all[k] = evs[Len(evs)]
      BY <1>2, <2>1, <3>1 DEF Concat
    <3> QED
      BY <2>1, <3>2
  <2> QED
    BY <1>1, <2>1
<1>9. StreamOK'
  BY <1>1, <1>3, <1>5, <1>7, <1>8, PushStream
<1> QED
  BY <1>6, <1>9

\* A step that tells nobody.
LEMMA CalmStream ==
  ASSUME StreamOK, UNCHANGED <<conn, client>>,
         \A q \in Runs : HasBegun(q) =>
           /\ run'[q].st # "none"
           /\ \/ run'[q].st = "gone"
              \/ run'[q].log = run[q].log /\ run[q].st # "gone"
           /\ Open(q) => run'[q].st \in OpenStatuses
  PROVE  StreamOK'
<1>1. conn' \in ConnRecords /\ client' \in ClientRecords
  BY DEF StreamOK
<1>2. ConnOK'
  <2>1. conn.listening => Open(client.run) /\ HasBegun(client.run) /\ client.run \in Runs
    BY StreamFields DEF StreamOK, ConnOK, Open, Active, Broken, OpenStatuses, HasBegun
  <2> QED
    BY <2>1 DEF StreamOK, ConnOK, Open, Active, Broken, OpenStatuses
<1>3. FollowOK'
  <2> SUFFICES ASSUME Following
               PROVE  /\ client.run \in Runs /\ run'[client.run].st # "none"
                      /\ \E l : /\ Follows(l)'
                                /\ run'[client.run].st # "gone" => l = run'[client.run].log
    BY DEF FollowOK, Following, HasBegun
  <2>1. PICK l : Follows(l) /\ (run[client.run].st # "gone" => l = run[client.run].log)
    BY DEF StreamOK, FollowOK
  <2>2. client.run \in Runs /\ HasBegun(client.run)
    BY DEF StreamOK, FollowOK
  <2>3. Follows(l)'
    BY <2>1 DEF Follows
  <2>4. run'[client.run].st # "gone" => l = run'[client.run].log
    BY <2>1, <2>2
  <2> QED
    BY <2>2, <2>3, <2>4
<1> QED
  BY <1>1, <1>2, <1>3 DEF StreamOK

\* What is told of a handler but its end.
LEMMA PlainEvents ==
  /\ \A text : \A i \in 1..Len(<<>>) : Plain(<<>>[i], text)
  /\ \A text : \A i \in 1..Len(<<Event("block", 0)>>) : Plain(<<Event("block", 0)>>[i], text)
  /\ \A text : \A i \in 1..Len(<<Event("block", 0), Event("updated", 0)>>) :
       Plain(<<Event("block", 0), Event("updated", 0)>>[i], text)
  /\ \A text : \A i \in 1..Len(<<Event("message", text), Event("end", 0)>>) :
       Plain(<<Event("message", text), Event("end", 0)>>[i], text)
<1>1. /\ \A text : Plain(Event("block", 0), text) /\ Plain(Event("updated", 0), text)
      /\ \A text : Plain(Event("message", text), text) /\ Plain(Event("end", 0), text)
  BY DEF Plain, Event
<1>2. \A a : \A i \in 1..Len(<<a>>) : <<a>>[i] = a
  OBVIOUS
<1>3. \A a, b : \A i \in 1..Len(<<a, b>>) : <<a, b>>[i] \in {a, b}
  OBVIOUS
<1>4. ASSUME NEW text, NEW i \in 1..Len(<<Event("block", 0), Event("updated", 0)>>)
      PROVE  Plain(<<Event("block", 0), Event("updated", 0)>>[i], text)
  <2>1. <<Event("block", 0), Event("updated", 0)>>[i] \in {Event("block", 0), Event("updated", 0)}
    BY <1>3
  <2> QED
    BY <1>1, <2>1
<1>5. ASSUME NEW text, NEW i \in 1..Len(<<Event("message", text), Event("end", 0)>>)
      PROVE  Plain(<<Event("message", text), Event("end", 0)>>[i], text)
  <2>1. <<Event("message", text), Event("end", 0)>>[i] \in {Event("message", text), Event("end", 0)}
    BY <1>3
  <2> QED
    BY <1>1, <2>1
<1>6. ASSUME NEW text, NEW i \in 1..Len(<<Event("block", 0)>>)
      PROVE  Plain(<<Event("block", 0)>>[i], text)
  <2>1. <<Event("block", 0)>>[i] = Event("block", 0)
    BY <1>2
  <2> QED
    BY <1>1, <2>1
<1>7. ASSUME NEW i \in 1..Len(<<>>) PROVE FALSE
  OBVIOUS
<1> QED
  BY <1>4, <1>5, <1>6, <1>7

LEMMA FlushTimerStream ==
  ASSUME RunsOK, LogsOK, StreamOK, NEW r \in Runs, FlushTimer(r)
  PROVE  LogsOK' /\ StreamOK'
<1>1. run[r] \in RunRecords /\ Emit(r, run[r], <<>>) /\ UNCHANGED client
  BY DEF RunsOK, RunsTyped, FlushTimer
<1>2. <<>> \in Seq(NewEvents) /\ \A i \in 1..Len(<<>>) : Plain(<<>>[i], run[r].text)
  OBVIOUS
<1> QED
  BY <1>1, <1>2, EmitStream DEF Open, Active, Broken, OpenStatuses, HasBegun

LEMMA RequestApprovalStream ==
  ASSUME RunsOK, LogsOK, StreamOK, NEW r \in Runs, RequestApproval(r)
  PROVE  LogsOK' /\ StreamOK'
<1> DEFINE ar == [run[r] EXCEPT !.st = "awaiting_approval", !.approval = "pending",
                                !.tool = "awaiting_approval"]
           evs == <<Event("block", 0), Event("updated", 0)>>
<1>1. run[r] \in RunRecords /\ run[r].st = "running" /\ UNCHANGED client
  BY DEF RunsOK, RunsTyped, RequestApproval
<1>2. /\ ar \in RunRecords /\ ar.st = "awaiting_approval"
      /\ ar.log = run[r].log /\ ar.delta = run[r].delta /\ ar.text = run[r].text
  BY <1>1 DEF RunRecords
<1>3. Emit(r, ar, evs) /\ evs \in Seq(NewEvents)
  BY EventsTyped DEF RequestApproval
<1>4. \A i \in 1..Len(evs) : Plain(evs[i], ar.text)
  BY PlainEvents
<1> HIDE DEF ar, evs
<1> QED
  BY <1>1, <1>2, <1>3, <1>4, EmitStream DEF OpenStatuses

LEMMA DecideApprovalStream ==
  ASSUME RunsOK, LogsOK, StreamOK, NEW r \in Runs, NEW d \in {"approved", "rejected"},
         DecideApproval(r, d)
  PROVE  LogsOK' /\ StreamOK'
<1> DEFINE ar == Settled(run[r], d)
           evs == <<Event("block", 0), Event("updated", 0)>>
<1>1. run[r] \in RunRecords /\ run[r].st = "awaiting_approval" /\ UNCHANGED client
  BY DEF RunsOK, RunsTyped, Quiet, DecideApproval
<1>2. /\ ar \in RunRecords /\ ar.st = "running"
      /\ ar.log = run[r].log /\ ar.delta = run[r].delta /\ ar.text = run[r].text
  BY <1>1, SettledFacts
<1>3. Emit(r, ar, evs) /\ evs \in Seq(NewEvents)
  BY EventsTyped DEF DecideApproval
<1>4. \A i \in 1..Len(evs) : Plain(evs[i], ar.text)
  BY PlainEvents
<1> HIDE DEF ar, evs
<1> QED
  BY <1>1, <1>2, <1>3, <1>4, EmitStream DEF OpenStatuses

LEMMA ToolRunsStream ==
  ASSUME RunsOK, LogsOK, StreamOK, NEW r \in Runs, ToolRuns(r)
  PROVE  LogsOK' /\ StreamOK'
<1> DEFINE ar == [run[r] EXCEPT !.tool = "completed"]
           evs == <<Event("block", 0)>>
<1>1. run[r] \in RunRecords /\ UNCHANGED client
  BY DEF RunsOK, RunsTyped, ToolRuns
<1>2. /\ ar \in RunRecords /\ ar.st = run[r].st
      /\ ar.log = run[r].log /\ ar.delta = run[r].delta /\ ar.text = run[r].text
  BY <1>1 DEF RunRecords
<1>3. Emit(r, ar, evs) /\ evs \in Seq(NewEvents)
  BY EventsTyped DEF ToolRuns
<1>4. \A i \in 1..Len(evs) : Plain(evs[i], ar.text)
  BY PlainEvents
<1> HIDE DEF ar, evs
<1> QED
  BY <1>1, <1>2, <1>3, <1>4, EmitStream DEF Open, Active, Broken, OpenStatuses, HasBegun

\* The events and the answer of a run stay as they are.
LEMMA OneRunStream ==
  ASSUME RunsOK, LogsOK, StreamOK, NEW r \in Runs, UNCHANGED <<conn, client>>,
         \A q \in Runs : q # r => run'[q] = run[q],
         LogOK(run'[r]), run'[r].st = run[r].st, run'[r].log = run[r].log
  PROVE  LogsOK' /\ StreamOK'
<1>1. LogsOK'
  BY OneLog
<1>2. \A q \in Runs : run'[q].st = run[q].st /\ run'[q].log = run[q].log
  OBVIOUS
<1>3. StreamOK'
  BY <1>2, CalmStream DEF HasBegun, Open, Active, Broken, OpenStatuses
<1> QED
  BY <1>1, <1>3

LEMMA CancelStream ==
  ASSUME RunsOK, LogsOK, StreamOK, NEW r \in Runs, Cancel(r)
  PROVE  LogsOK' /\ StreamOK'
<1> DEFINE ar == [run[r] EXCEPT !.aborted = TRUE]
           evs == <<Event("block", 0), Event("updated", 0)>>
<1>1. run[r] \in RunRecords /\ UNCHANGED client /\ LogOK(run[r]) /\ Quiet(run[r])
  BY DEF RunsOK, RunsTyped, LogsOK, Cancel
<1>2. /\ ar \in RunRecords /\ ar.st = run[r].st /\ ar.approval = run[r].approval
      /\ ar.log = run[r].log /\ ar.delta = run[r].delta /\ ar.text = run[r].text
  BY <1>1 DEF RunRecords
<1>3. IF run[r].approval = "pending" THEN Emit(r, Settled(ar, "cancelled"), evs)
                                     ELSE run' = [run EXCEPT ![r] = ar] /\ UNCHANGED conn
  BY <1>2 DEF Cancel, Cancelled
<1>4. evs \in Seq(NewEvents) /\ \A i \in 1..Len(evs) : Plain(evs[i], run[r].text)
  BY EventsTyped, PlainEvents
<1> HIDE DEF ar, evs
<1>5. CASE run[r].approval = "pending"
  <2> DEFINE settled == Settled(ar, "cancelled")
  <2>1. /\ settled \in RunRecords /\ settled.st = "running"
        /\ settled.log = run[r].log /\ settled.delta = run[r].delta /\ settled.text = run[r].text
    BY <1>2, SettledFacts
  <2>2. Emit(r, settled, evs)
    BY <1>3, <1>5
  <2>3. run[r].st = "awaiting_approval"
    BY <1>1, <1>5 DEF Quiet
  <2> HIDE DEF settled
  <2> QED
    BY <1>1, <1>4, <2>1, <2>2, <2>3, EmitStream DEF Open, Active, Broken, OpenStatuses
<1>6. CASE run[r].approval # "pending"
  <2>1. UNCHANGED conn /\ run'[r] = ar /\ \A q \in Runs : q # r => run'[q] = run[q]
    BY <1>3, <1>6 DEF RunsOK, RunsTyped
  <2>2. LogOK(run'[r])
    BY <1>1, <1>2, <2>1 DEF LogOK
  <2> QED
    BY <1>1, <1>2, <2>1, <2>2, OneRunStream
<1> QED
  BY <1>5, <1>6

LEMMA FinalizeStream ==
  ASSUME RunsOK, LogsOK, StreamOK, NEW r \in Runs, NEW result \in Results, Finalize(r, result)
  PROVE  LogsOK' /\ StreamOK'
<1> DEFINE fin == Finished(run[r], FinalStatus(run[r], result))
           evs == <<Event("message", run[r].text), Event("end", 0)>>
<1>1. run[r] \in RunRecords /\ Active(r) /\ UNCHANGED client /\ run[r].text \in 0..MaxText
  BY RunFields DEF RunsOK, RunsTyped, Finalize
<1>2. /\ Emit(r, fin, evs) /\ fin \in RunRecords /\ fin.log = run[r].log /\ fin.st \in Ended
      /\ fin.delta = run[r].delta /\ fin.text = run[r].text
  BY FinalizeRuns
<1>3. /\ evs \in Seq(NewEvents) /\ \A i \in 1..Len(evs) : Plain(evs[i], run[r].text)
  BY <1>1, EventsTyped, PlainEvents
<1>4. Len(evs) = 2 /\ evs[Len(evs)].type = "end"
  BY DEF Event
<1> HIDE DEF fin, evs
<1>6. run[r].st # "gone"
  BY <1>1 DEF Active
<1>7. fin.st # "gone" /\ fin.st # "none"
  BY <1>2 DEF Ended
<1>8. Len(evs) > 0
  BY <1>4
<1> QED
  BY <1>1, <1>2, <1>3, <1>4, <1>6, <1>7, <1>8, EmitStream

LEMMA FinalizeFailsStream ==
  ASSUME RunsOK, LogsOK, StreamOK, NEW r \in Runs, NEW result, NEW n, FinalizeFails(r, result, n)
  PROVE  LogsOK' /\ StreamOK'
<1> DEFINE fin == Finished(run[r], "stuck")
           evs == <<>>
<1>1. run[r].st # "gone" /\ UNCHANGED client
  BY DEF FinalizeFails, Active
<1>2. /\ Emit(r, fin, evs) /\ fin \in RunRecords /\ fin.log = run[r].log /\ fin.st = "stuck"
      /\ fin.delta = run[r].delta /\ fin.text = run[r].text
  BY FinalizeFailsRuns
<1>3. evs \in Seq(NewEvents) /\ \A i \in 1..Len(evs) : Plain(evs[i], run[r].text)
  BY EventsTyped, PlainEvents
<1> HIDE DEF fin, evs
<1> QED
  BY <1>1, <1>2, <1>3, EmitStream DEF OpenStatuses

LEMMA AppendTextStream ==
  ASSUME RunsOK, LogsOK, StreamOK, NEW r \in Runs, AppendText(r)
  PROVE  LogsOK' /\ StreamOK'
<1>1. /\ run[r] \in RunRecords /\ LogOK(run[r]) /\ UNCHANGED <<conn, client>>
      /\ run' = [run EXCEPT ![r].text = @ + 1, ![r].delta = @ + 1, ![r].persist = TRUE]
  BY DEF RunsOK, RunsTyped, LogsOK, AppendText
<1>2. /\ run'[r].st = run[r].st /\ run'[r].log = run[r].log
      /\ run'[r].text = run[r].text + 1 /\ run'[r].delta = run[r].delta + 1
      /\ \A q \in Runs : q # r => run'[q] = run[q]
  BY <1>1 DEF RunsOK, RunsTyped, RunRecords
<1>3. LogOK(run'[r])
  <2>1. /\ run[r].delta \in Nat /\ run[r].text \in Nat /\ run[r].log \in Seq(Events)
        /\ Len(run[r].log) \in 0..Len(run[r].log)
    BY <1>1, RunFields
  <2>2. Told(run[r].log)[Len(run[r].log)] \in Nat
    BY <2>1, ToldFacts
  <2>3. /\ GoodLog(run[r].log)
        /\ Told(run[r].log)[Len(run[r].log)] + run[r].delta = run[r].text
    BY <1>1 DEF LogOK
  <2>4. Told(run[r].log)[Len(run[r].log)] + (run[r].delta + 1) = run[r].text + 1
    <3>1. \A a, b, c \in Nat : a + b = c => a + (b + 1) = c + 1
      OBVIOUS
    <3> QED
      BY <2>1, <2>2, <2>3, <3>1
  <2> QED
    BY <1>2, <2>3, <2>4 DEF LogOK
<1> QED
  BY <1>1, <1>2, <1>3, OneRunStream

LEMMA PersistTimerStream ==
  ASSUME RunsOK, LogsOK, StreamOK, NEW r \in Runs, PersistTimer(r)
  PROVE  LogsOK' /\ StreamOK'
<1>1. /\ run[r] \in RunRecords /\ LogOK(run[r]) /\ UNCHANGED <<conn, client>>
      /\ run' = [run EXCEPT ![r].persist = FALSE]
  BY DEF RunsOK, RunsTyped, LogsOK, PersistTimer
<1>2. /\ run'[r].st = run[r].st /\ run'[r].log = run[r].log
      /\ run'[r].text = run[r].text /\ run'[r].delta = run[r].delta
      /\ \A q \in Runs : q # r => run'[q] = run[q]
  BY <1>1 DEF RunsOK, RunsTyped, RunRecords
<1>3. LogOK(run'[r])
  BY <1>1, <1>2 DEF LogOK
<1> QED
  BY <1>1, <1>2, <1>3, OneRunStream

LEMMA ForgetStream ==
  ASSUME RunsOK, LogsOK, StreamOK, NEW r \in Runs, Forget(r)
  PROVE  LogsOK' /\ StreamOK'
<1>1. /\ run[r].st \in Ended /\ UNCHANGED <<conn, client>>
      /\ run'[r] = Gone /\ \A q \in Runs : q # r => run'[q] = run[q]
  BY DEF RunsOK, RunsTyped, Forget
<1>2. LogsOK'
  BY <1>1, GoneLog, OneLog
<1>3. StreamOK'
  BY <1>1, GoneFacts, CalmStream DEF HasBegun, Open, Active, Broken, OpenStatuses, Ended
<1> QED
  BY <1>2, <1>3

LEMMA StartedLog ==
  LET log == Started IN
  /\ log \in Seq(Events) /\ Len(log) = 1 /\ GoodLog(log)
  /\ Told(log)[0] = 0 /\ Told(log)[1] = 0
<1> DEFINE evs == <<Event("started", 0)>>
           log == Numbered(evs, 0)
<1>0. log = Started
  BY DEF Started
<1>1. evs \in Seq(NewEvents) /\ Len(evs) = 1 /\ evs[1] = Event("started", 0)
  BY EventsTyped
<1> HIDE DEF evs
<1>2. /\ log \in Seq(Events) /\ Len(log) = 1
      /\ log[1].seq = 1 /\ log[1].type = "started"
  BY <1>1, NumberedFacts DEF Event
<1> HIDE DEF log
<1>3. Told(log)[0] = 0 /\ Told(log)[1] = 0
  <2>1. Told(log)[0] = 0 /\ Told(log)[1] = Told(log)[1 - 1] + Pieces(log[1])
    BY <1>2, ToldFacts
  <2> QED
    BY <1>2, <2>1 DEF Pieces
<1>4. GoodLog(log)
  <2>1. \A i \in 1..Len(log) : i = 1
    BY <1>2
  <2>2. 0 <= MaxText
    BY AgentAssumption
  <2> QED
    BY <1>2, <1>3, <2>1, <2>2 DEF GoodLog
<1> QED
  BY <1>0, <1>2, <1>3, <1>4

\* A portal that begins to follow has all that was told.
LEMMA BeginsToFollow ==
  ASSUME NEW r \in Runs, NEW log \in Seq(Events), GoodLog(log), NEW seq \in 0..Len(log),
         client' = [st |-> "loaded", run |-> r, seq |-> seq, text |-> Told(log)[seq]],
         conn' = NoConn, Told(log)[seq] \in 0..MaxText,
         run'[r].st # "none", run'[r].st # "gone" => log = run'[r].log
  PROVE  StreamOK'
<1>1. Len(log) \in Nat /\ seq \in Nat /\ seq <= Len(log)
  OBVIOUS
<1>2. /\ client'.st = "loaded" /\ client'.run = r /\ client'.seq = seq
      /\ client'.text = Told(log)[seq] /\ client' \in ClientRecords
  BY <1>1 DEF ClientRecords
<1>3. ~conn'.on /\ ~conn'.listening /\ conn'.queue = <<>> /\ conn' \in ConnRecords
  <2>1. <<>> \in Seq(Events)
    OBVIOUS
  <2> QED
    BY <2>1 DEF NoConn, ConnRecords
<1>4. Len(conn'.queue) = 0 /\ \A i \in 1..Len(conn'.queue) : FALSE
  BY <1>3
<1>5. Follows(log)'
  BY <1>1, <1>2, <1>3, <1>4 DEF Follows
<1>6. FollowOK'
  BY <1>2, <1>5 DEF FollowOK, HasBegun
<1>7. ConnOK'
  BY <1>2, <1>3 DEF ConnOK, NoConn
<1> QED
  BY <1>2, <1>3, <1>6, <1>7 DEF StreamOK

LEMMA StartRunStream ==
  ASSUME RunsOK, LogsOK, StreamOK, NEW r \in Runs, NEW mine \in BOOLEAN, StartRun(r, mine)
  PROVE  LogsOK' /\ StreamOK'
<1>0. PICK log : log = Started
  OBVIOUS
<1>1. /\ run'[r].st = "running" /\ run'[r].log = log /\ run'[r].delta = 0 /\ run'[r].text = 0
      /\ \A q \in Runs : q # r => run'[q] = run[q]
  BY <1>0, StartRunRuns
<1>2. log \in Seq(Events) /\ Len(log) = 1 /\ GoodLog(log) /\ Told(log)[0] = 0 /\ Told(log)[1] = 0
  BY <1>0, StartedLog
<1>3. LogsOK'
  <2>1. LogOK(run'[r])
    BY <1>1, <1>2 DEF LogOK
  <2> QED
    BY <1>1, <2>1, OneLog
<1>4. StreamOK'
  <2>1. CASE mine
    <3>1. client' = [st |-> "loaded", run |-> r, seq |-> 0, text |-> 0] /\ UNCHANGED conn
          /\ client.st = "off"
      BY <2>1 DEF StartRun
    <3>2. conn' = NoConn
      BY <3>1 DEF StreamOK, ConnOK
    <3>3. 0 \in 0..MaxText /\ 0 \in 0..Len(log)
      BY <1>2, AgentAssumption
    <3>4. run'[r].st # "none"
      BY <1>1
    <3>5. client' = [st |-> "loaded", run |-> r, seq |-> 0, text |-> Told(log)[0]]
      BY <1>2, <3>1
    <3> QED
      BY <1>1, <1>2, <3>2, <3>3, <3>4, <3>5, BeginsToFollow
  <2>2. CASE ~mine
    <3>1. UNCHANGED <<conn, client>> /\ run[r].st = "none"
      BY <2>2 DEF StartRun, CanStart
    <3>2. \A q \in Runs : HasBegun(q) => run'[q] = run[q]
      BY <1>1, <3>1 DEF HasBegun
    <3> QED
      BY <3>1, <3>2, CalmStream DEF HasBegun, Open, Active, Broken, OpenStatuses
  <2> QED
    BY <2>1, <2>2
<1> QED
  BY <1>3, <1>4

LEMMA StartFailsStream ==
  ASSUME RunsOK, LogsOK, StreamOK, NEW r \in Runs, NEW n \in 1..3, StartFails(r, n)
  PROVE  LogsOK' /\ StreamOK'
<1>0. PICK log : log = Started
  OBVIOUS
<1>7. log \in Seq(Events) /\ Len(log) = 1 /\ GoodLog(log) /\ Told(log)[0] = 0 /\ Told(log)[1] = 0
  BY <1>0, StartedLog
<1>1. /\ run'[r].log = IF n = 3 THEN Started ELSE <<>>
      /\ run'[r].delta = 0 /\ run'[r].text = 0 /\ \A q \in Runs : q # r => run'[q] = run[q]
  BY StartFailsRuns
<1>2. UNCHANGED <<conn, client>> /\ run[r].st = "none"
  BY DEF StartFails, CanStart
<1>3. LogOK(run'[r])
  <2>1. CASE n = 3
    <3>1. run'[r].log = Started
      BY <1>1, <2>1
    <3>2. run'[r].log = log /\ run'[r].delta = 0 /\ run'[r].text = 0
      BY <1>0, <1>1, <3>1
    <3>3. GoodLog(run'[r].log) /\ Told(run'[r].log)[Len(run'[r].log)] = 0
      BY <1>7, <3>2, Zenon
    <3> QED
      BY <3>2, <3>3 DEF LogOK
  <2>2. CASE n # 3
    BY <1>1, <2>2, GoodEmpty DEF LogOK
  <2> QED
    BY <2>1, <2>2
<1>4. LogsOK'
  BY <1>1, <1>3, OneLog
<1>5. \A q \in Runs : HasBegun(q) => run'[q] = run[q]
  BY <1>1, <1>2 DEF HasBegun
<1>6. StreamOK'
  BY <1>2, <1>5, CalmStream DEF HasBegun, Open, Active, Broken, OpenStatuses
<1> QED
  BY <1>4, <1>6

\* The portal has lost its connection.
LEMMA LostConnection ==
  ASSUME StreamOK, Following, client' = [client EXCEPT !.st = "retry"], conn' = NoConn,
         LET r == client.run IN
         /\ run'[r].st # "none"
         /\ run'[r].st = "gone" \/ (run'[r].log = run[r].log /\ run[r].st # "gone")
              \/ run'[r] = run[r]
  PROVE  StreamOK'
<1> DEFINE r == client.run
<1>1. PICK l : Follows(l) /\ (run[r].st # "gone" => l = run[r].log)
  BY DEF StreamOK, FollowOK
<1>2. /\ client'.st = "retry" /\ client'.run = r /\ client'.seq = client.seq
      /\ client'.text = client.text /\ client' \in ClientRecords
  BY DEF StreamOK, ClientRecords
<1>3. ~conn'.on /\ ~conn'.listening /\ conn'.queue = <<>> /\ conn' \in ConnRecords
  <2>1. <<>> \in Seq(Events)
    OBVIOUS
  <2> QED
    BY <2>1 DEF NoConn, ConnRecords
<1>4. Len(conn'.queue) = 0 /\ \A i \in 1..Len(conn'.queue) : FALSE
  BY <1>3
<1>5. client.seq + 0 <= Len(l)
  <2>1. Len(conn.queue) \in Nat /\ client.seq \in Nat /\ Len(l) \in Nat
    BY <1>1, StreamFields DEF Follows
  <2> QED
    BY <1>1, <2>1 DEF Follows
<1>6. Follows(l)'
  BY <1>1, <1>2, <1>3, <1>4, <1>5 DEF Follows
<1>7. r \in Runs
  BY DEF StreamOK, FollowOK
<1>8. FollowOK'
  BY <1>1, <1>2, <1>6, <1>7 DEF FollowOK, HasBegun
<1>9. ConnOK'
  BY <1>2, <1>3 DEF ConnOK, NoConn
<1> QED
  BY <1>2, <1>3, <1>8, <1>9 DEF StreamOK

\* The portal follows nothing any more, or not yet.
LEMMA NotFollowing ==
  ASSUME StreamOK, client' \in ClientRecords, client'.st \in {"off", "over"}, conn' = NoConn
  PROVE  StreamOK'
<1>1. ~conn'.on /\ ~conn'.listening /\ conn' \in ConnRecords
  <2>1. <<>> \in Seq(Events)
    OBVIOUS
  <2> QED
    BY <2>1 DEF NoConn, ConnRecords
<1>2. FollowOK' /\ ConnOK'
  BY <1>1 DEF FollowOK, Following, ConnOK
<1> QED
  BY <1>1, <1>2 DEF StreamOK

LEMMA DropStream ==
  ASSUME RunsOK, LogsOK, StreamOK, Drop
  PROVE  LogsOK' /\ StreamOK'
<1>1. /\ UNCHANGED run /\ Following /\ client' = [client EXCEPT !.st = "retry"] /\ conn' = NoConn
  BY DEF Drop, Following
<1>2. HasBegun(client.run)
  BY <1>1 DEF StreamOK, FollowOK
<1>3. StreamOK'
  BY <1>1, <1>2, LostConnection DEF HasBegun
<1>4. LogsOK'
  <2>1. \A q \in Runs : LogOK(run'[q])
    BY <1>1 DEF LogsOK
  <2> QED
    BY <2>1, LogsPrimed
<1> QED
  BY <1>3, <1>4

LEMMA CrashStream ==
  ASSUME RunsOK, LogsOK, StreamOK, Crash
  PROVE  LogsOK' /\ StreamOK'
<1>1. /\ conn' = NoConn
      /\ client' = [client EXCEPT !.st = IF client.st \in {"loaded", "stream"} THEN "retry" ELSE client.st]
      /\ run' = [r \in Runs |-> IF run[r].st = "none" THEN NoRun ELSE Gone]
  BY DEF Crash
<1>2. LogsOK'
  <2>1. \A q \in Runs : run'[q] \in {NoRun, Gone}
    BY <1>1
  <2>2. \A q \in Runs : LogOK(run'[q])
    BY <2>1, GoneLog
  <2> QED
    BY <2>2, LogsPrimed
<1>3. CASE Following
  <2>1. client' = [client EXCEPT !.st = "retry"]
    BY <1>1, <1>3 DEF Following, StreamOK, ClientRecords
  <2>2. client.run \in Runs /\ run[client.run].st # "none"
    BY <1>3 DEF StreamOK, FollowOK, HasBegun
  <2>3. run'[client.run].st = "gone"
    BY <1>1, <2>2, GoneFacts
  <2>4. StreamOK'
    BY <1>1, <1>3, <2>1, <2>3, LostConnection
  <2> QED
    BY <1>2, <2>4
<1>4. CASE ~Following
  <2>1. client' = client /\ client.st \in {"off", "over"}
    BY <1>1, <1>4 DEF Following, StreamOK, ClientRecords
  <2>2. StreamOK'
    BY <1>1, <2>1, NotFollowing DEF StreamOK
  <2> QED
    BY <1>2, <2>2
<1> QED
  BY <1>3, <1>4

LEMMA LoadStream ==
  ASSUME RunsOK, FilesOK, LogsOK, StreamOK, Load
  PROVE  LogsOK' /\ StreamOK'
<1> DEFINE evs == Flushed(run[mem.active])
           ar == [run[mem.active] EXCEPT !.delta = IF evs = <<>> THEN @ ELSE 0]
<1>0. PICK r : r = mem.active
  OBVIOUS
<1>1. r \in Runs /\ run[r] \in RunRecords /\ LogOK(run[r]) /\ Open(r) /\ mem.active = r
  BY <1>0, FileFields DEF RunsOK, RunsTyped, Load, FilesOK, OneActive, Ready, LogsOK
<1>2. evs \in Seq(NewEvents) /\ Flushed(run[r]) \o <<>> = evs
  BY <1>1, FlushedTyped
<1>3. <<>> \in Seq(NewEvents) /\ \A i \in 1..Len(<<>>) : Plain(<<>>[i], run[r].text)
  OBVIOUS
<1>4. Tells(run[r].log, run[r].delta, run[r].text, evs)
  <2>1. Tells(run[r].log, run[r].delta, run[r].text, Flushed(run[r]) \o <<>>)
    BY <1>1, <1>3, FlushedEvents
  <2> QED
    BY <1>2, <2>1
<1>5. /\ ar \in RunRecords /\ ar.st = run[r].st /\ ar.log = run[r].log /\ ar.text = run[r].text
      /\ ar.delta = 0
  <2>1. 0 \in 0..MaxText
    BY AgentAssumption
  <2>2. evs = <<>> => run[r].delta = 0
    BY <1>1 DEF Flushed, Event
  <2> QED
    BY <1>1, <2>1, <2>2 DEF RunRecords
<1>6. /\ Push(r, ar, evs)
      /\ client' = [st |-> IF run[r].st = "stuck" THEN "over" ELSE "loaded", run |-> r,
                    seq |-> Len(run[r].log) + Len(evs), text |-> run[r].text]
      /\ client.st \in {"off", "over"}
  BY <1>1 DEF Load, SnapshotFlush
<1> HIDE DEF evs, ar
<1>7. PICK more : more = run'[r].log
  OBVIOUS
<1>8. /\ more = ar.log \o Numbered(evs, Len(ar.log)) /\ run'[r].st = ar.st /\ run'[r].delta = ar.delta
      /\ run'[r].text = ar.text /\ \A q \in Runs : q # r => run'[q] = run[q]
  BY <1>1, <1>2, <1>5, <1>6, <1>7, PushRun DEF RunsOK, RunsTyped
<1>9. /\ ar.log \in Seq(Events) /\ Len(ar.log) \in Nat /\ Numbered(evs, Len(ar.log)) \in Seq(Events)
      /\ Len(Numbered(evs, Len(ar.log))) = Len(evs)
  BY <1>2, <1>5, RunFields, NumberedFacts
<1>10. Concat(Events, run[r].log, Numbered(evs, Len(run[r].log)), more)
  <2>1. Concat(Events, ar.log, Numbered(evs, Len(ar.log)), ar.log \o Numbered(evs, Len(ar.log)))
    BY <1>9, Concats
  <2> QED
    BY <1>5, <1>8, <2>1
<1>11. run[r].delta \in Nat /\ run[r].text \in 0..MaxText /\ run[r].text \in Nat
  BY <1>1, RunFields
<1>12. Grown(run[r].log, more) /\ Told(more)[Len(more)] = run[r].text
  BY <1>1, <1>2, <1>4, <1>10, <1>11, PushLog DEF RunsOK, RunsTyped
<1>13. LogsOK'
  <2>1. LogOK(run'[r])
    BY <1>5, <1>7, <1>8, <1>11, <1>12 DEF LogOK, Grown
  <2> QED
    BY <1>1, <1>8, <2>1, OneLog
<1>14. conn' = NoConn
  <2>1. ~conn.listening /\ conn = NoConn
    BY <1>6, StreamFields DEF StreamOK, ConnOK
  <2> QED
    BY <1>6, <2>1 DEF Push
<1>15. Len(more) = Len(run[r].log) + Len(evs) /\ Len(more) \in Nat
  <2>1. Len(Numbered(evs, Len(run[r].log))) = Len(evs)
    BY <1>5, <1>9
  <2>2. Len(more) = Len(run[r].log) + Len(Numbered(evs, Len(run[r].log)))
    BY <1>10 DEF Concat
  <2>3. more \in Seq(Events)
    BY <1>12 DEF Grown
  <2> QED
    BY <2>1, <2>2, <2>3
<1>16. client' = [st |-> IF run[r].st = "stuck" THEN "over" ELSE "loaded", run |-> r,
                   seq |-> Len(more), text |-> Told(more)[Len(more)]]
  BY <1>6, <1>12, <1>15
<1>17. /\ more \in Seq(Events) /\ GoodLog(more) /\ Len(more) \in 0..Len(more)
       /\ Told(more)[Len(more)] \in 0..MaxText
  BY <1>11, <1>12, <1>15 DEF Grown
<1>18. run'[r].st # "none"
  BY <1>1, <1>5, <1>8 DEF Open, Active, Broken, OpenStatuses
<1>19. StreamOK'
  <2>1. CASE run[r].st = "stuck"
    <3>1. client'.st = "over" /\ client' \in ClientRecords
      BY <1>1, <1>15, <1>16, <1>17, <2>1 DEF ClientRecords
    <3> QED
      BY <1>14, <3>1, NotFollowing
  <2>2. CASE run[r].st # "stuck"
    <3>1. client' = [st |-> "loaded", run |-> r, seq |-> Len(more), text |-> Told(more)[Len(more)]]
      BY <1>16, <2>2
    <3> QED
      BY <1>1, <1>7, <1>14, <1>17, <1>18, <3>1, BeginsToFollow
  <2> QED
    BY <2>1, <2>2
<1> QED
  BY <1>13, <1>19

LEMMA SubscribeStream ==
  ASSUME RunsOK, LogsOK, StreamOK, Subscribe
  PROVE  LogsOK' /\ StreamOK'
<1>0. PICK r : r = client.run
  OBVIOUS
<1>1. /\ r \in Runs /\ run[r] \in RunRecords /\ LogOK(run[r]) /\ Following /\ HasBegun(r)
      /\ client.st \in {"loaded", "retry"}
  BY <1>0 DEF RunsOK, RunsTyped, LogsOK, StreamOK, FollowOK, Subscribe, Following
<1> DEFINE evs == Flushed(run[r])
           new == Numbered(evs, Len(run[r].log))
           replay == Replay(run[r].log \o new, client.seq)
<1>2. conn = NoConn /\ ~conn.on /\ conn.queue = <<>>
  BY <1>1 DEF StreamOK, ConnOK, NoConn
<1>3. evs \in Seq(NewEvents) /\ Tells(run[r].log, run[r].delta, run[r].text, evs)
  <2>1. <<>> \in Seq(NewEvents) /\ \A i \in 1..Len(<<>>) : Plain(<<>>[i], run[r].text)
    OBVIOUS
  <2>2. Flushed(run[r]) \o <<>> = evs
    BY <1>1, FlushedTyped
  <2>3. Tells(run[r].log, run[r].delta, run[r].text, Flushed(run[r]) \o <<>>)
    BY <1>1, <2>1, FlushedEvents
  <2> QED
    BY <1>1, <2>2, <2>3, FlushedTyped
<1>4. /\ run[r].log \in Seq(Events) /\ Len(run[r].log) \in Nat /\ new \in Seq(Events)
      /\ run[r].delta \in Nat /\ run[r].text \in 0..MaxText
  BY <1>1, <1>3, RunFields, NumberedFacts
<1>5. PICK more : more = run[r].log \o new
  OBVIOUS
<1>6. Concat(Events, run[r].log, new, more)
  BY <1>4, <1>5, Concats
<1>7. Grown(run[r].log, more) /\ Told(more)[Len(more)] = run[r].text
  BY <1>1, <1>3, <1>4, <1>6, PushLog DEF RunsOK, RunsTyped
<1>8. RestOf(more, client.seq, replay)
  <2>1. more \in Seq(Events) /\ client.seq \in Nat /\ \A i \in 1..Len(more) : more[i].seq = i
    BY <1>7, StreamFields DEF Grown, GoodLog
  <2> QED
    BY <1>5, <2>1, ReplayAfter
<1>9. \/ client' = [client EXCEPT !.st = "over"] /\ UNCHANGED <<run, conn>>
      \/ /\ Open(r) \/ run[r].st \in Ended
         /\ run' = [run EXCEPT ![r].log = more, ![r].delta = 0]
         /\ conn' = [on |-> TRUE, listening |-> Open(r), queue |-> replay]
         /\ client' = [client EXCEPT !.st = "stream"]
  BY <1>0, <1>5 DEF Subscribe
<1> HIDE DEF evs, new, replay
<1>10. CASE client' = [client EXCEPT !.st = "over"] /\ UNCHANGED <<run, conn>>
  <2>1. client' \in ClientRecords /\ client'.st = "over" /\ conn' = NoConn
    BY <1>2, <1>10 DEF StreamOK, ClientRecords
  <2>2. StreamOK'
    BY <2>1, NotFollowing
  <2>3. \A q \in Runs : LogOK(run'[q])
    BY <1>10 DEF LogsOK
  <2> QED
    BY <2>2, <2>3, LogsPrimed
<1>11. ASSUME /\ Open(r) \/ run[r].st \in Ended
              /\ run' = [run EXCEPT ![r].log = more, ![r].delta = 0]
              /\ conn' = [on |-> TRUE, listening |-> Open(r), queue |-> replay]
              /\ client' = [client EXCEPT !.st = "stream"]
       PROVE  LogsOK' /\ StreamOK'
  <2>1. /\ run'[r].log = more /\ run'[r].delta = 0 /\ run'[r].text = run[r].text
        /\ run'[r].st = run[r].st /\ \A q \in Runs : q # r => run'[q] = run[q]
    BY <1>1, <1>11 DEF RunsOK, RunsTyped, RunRecords
  <2>2. LogsOK'
    <3>1. run[r].text + 0 = run[r].text /\ Told(more)[Len(more)] + 0 = Told(more)[Len(more)]
      BY <1>4, <1>7, AgentAssumption
    <3>2. LogOK(run'[r])
      BY <1>7, <2>1, <3>1 DEF LogOK, Grown
    <3> QED
      BY <1>1, <2>1, <3>2, OneLog
  <2>3. Open(r) \in BOOLEAN
    BY DEF Open, Active, Broken, OpenStatuses
  <2>4. /\ conn'.on = TRUE /\ conn'.listening = Open(r) /\ conn'.queue = replay
        /\ conn' \in ConnRecords
    <3>1. replay \in Seq(Events)
      BY <1>8 DEF RestOf
    <3> QED
      BY <1>11, <2>3, <3>1 DEF ConnRecords
  <2>5. /\ client'.st = "stream" /\ client'.run = r /\ client'.seq = client.seq
        /\ client'.text = client.text /\ client' \in ClientRecords
    BY <1>0, <1>11 DEF StreamOK, ClientRecords
  <2>6. PICK l : Follows(l) /\ (run[r].st # "gone" => l = run[r].log)
    BY <1>0, <1>1 DEF StreamOK, FollowOK
  <2>7. run[r].st # "gone" /\ run[r].st # "none"
    BY <1>11 DEF Open, Active, Broken, OpenStatuses, Ended
  <2>8. /\ client.seq \in Nat /\ client.seq <= Len(run[r].log)
        /\ client.text = Told(run[r].log)[client.seq]
    <3>1. client.seq \in Nat /\ Len(conn.queue) = 0
      BY <1>2, StreamFields
    <3> QED
      BY <1>4, <2>6, <2>7, <3>1 DEF Follows
  <2>9. client.text = Told(more)[client.seq]
    <3>1. client.seq \in 0..Len(run[r].log)
      BY <1>4, <2>8
    <3> QED
      BY <1>7, <2>8, <3>1, ToldPrefix DEF Grown
  <2>10. client.seq <= Len(more) /\ Len(more) \in Nat
    BY <1>4, <1>7, <2>8 DEF Grown
  <2>11. client.seq + Len(replay) = Len(more) /\ \A i \in 1..Len(replay) : replay[i] = more[client.seq + i]
    BY <1>8, <2>8, <2>10 DEF RestOf
  <2>12. Follows(more)'
    <3>1. client.seq + Len(replay) <= Len(more)
      BY <2>10, <2>11
    <3> QED
      BY <1>7, <2>4, <2>5, <2>9, <2>11, <3>1 DEF Follows, Grown
  <2>13. FollowOK'
    BY <1>1, <2>1, <2>5, <2>7, <2>12 DEF FollowOK, HasBegun
  <2>14. ConnOK'
    BY <2>1, <2>4, <2>5 DEF ConnOK, Open, Active, Broken, OpenStatuses
  <2> QED
    BY <2>2, <2>4, <2>5, <2>13, <2>14 DEF StreamOK
<1> QED
  BY <1>9, <1>10, <1>11

LEMMA ReceiveStream ==
  ASSUME RunsOK, LogsOK, StreamOK, Receive
  PROVE  LogsOK' /\ StreamOK'
<1>1. UNCHANGED run /\ client.st = "stream" /\ conn.queue # <<>> /\ Following
  BY DEF Receive, Following
<1>2. LogsOK'
  <2>1. \A q \in Runs : LogOK(run'[q])
    BY <1>1 DEF LogsOK
  <2> QED
    BY <2>1, LogsPrimed
<1>3. PICK l : Follows(l) /\ (run[client.run].st # "gone" => l = run[client.run].log)
  BY <1>1 DEF StreamOK, FollowOK
<1>4. /\ client.run \in Runs /\ HasBegun(client.run) /\ conn.queue \in Seq(Events)
      /\ client.seq \in Nat /\ client.text \in 0..MaxText /\ client.text \in Nat /\ conn.on
  BY <1>1, StreamFields, AgentAssumption DEF StreamOK, FollowOK, ConnOK
<1> DEFINE e == Head(conn.queue)
           n == client.seq + 1
           text == CASE e.type = "started" -> 0
                     [] e.type = "delta"   -> client.text + e.n
                     [] e.type = "message" -> e.n
                     [] OTHER              -> client.text
<1>5. /\ Len(conn.queue) \in Nat /\ Len(conn.queue) > 0 /\ e = conn.queue[1]
      /\ Tail(conn.queue) \in Seq(Events) /\ Len(Tail(conn.queue)) = Len(conn.queue) - 1
      /\ \A i \in 1..Len(Tail(conn.queue)) : Tail(conn.queue)[i] = conn.queue[i + 1]
  BY <1>1, <1>4
<1>6. /\ l \in Seq(Events) /\ Len(l) \in Nat /\ n \in 1..Len(l) /\ e = l[n] /\ e.seq = n
      /\ client.text = Told(l)[client.seq]
  BY <1>3, <1>4, <1>5 DEF Follows, GoodLog
<1>7. text = Told(l)[n] /\ text \in 0..MaxText
  <2>1. e \in Events
    BY <1>6
  <2>2. e.n \in Nat
    BY <2>1, AgentAssumption DEF Events
  <2>3. Told(l)[n] = Told(l)[client.seq] + Pieces(e)
    <3>1. n - 1 = client.seq
      BY <1>4
    <3> QED
      BY <1>6, <3>1, ToldFacts
  <2>4. Told(l)[n] <= MaxText /\ Told(l)[n] \in Nat
    <3>1. n \in 0..Len(l)
      BY <1>6
    <3> QED
      BY <1>3, <1>6, <3>1, ToldFacts DEF Follows, GoodLog
  <2>5. CASE e.type = "started"
    <3>1. n = 1
      BY <1>3, <1>6, <2>5 DEF Follows, GoodLog
    <3>2. client.text = 0
      BY <1>4, <1>6, <3>1, ToldFacts
    <3> QED
      BY <1>6, <2>3, <2>4, <2>5, <3>2, AgentAssumption DEF Pieces
  <2>6. CASE e.type = "delta"
    BY <1>6, <2>3, <2>4, <2>6, AgentAssumption DEF Pieces
  <2>7. CASE e.type = "message"
    BY <1>3, <1>6, <2>4, <2>7, AgentAssumption DEF Follows, GoodLog
  <2>8. CASE e.type \notin {"started", "delta", "message"}
    <3>1. text = client.text /\ Pieces(e) = 0
      BY <2>8 DEF Pieces
    <3> QED
      BY <1>4, <1>6, <2>3, <3>1
  <2> QED
    BY <2>5, <2>6, <2>7, <2>8
<1>8. Applied(client, e) = [client EXCEPT !.seq = n, !.text = text]
  <2>1. ~(e.seq <= client.seq)
    BY <1>4, <1>6
  <2> QED
    BY <1>6, <2>1 DEF Applied
<1>9. \/ client' = [Applied(client, e) EXCEPT !.st = "over"] /\ conn' = NoConn
      \/ client' = Applied(client, e) /\ conn' = [conn EXCEPT !.queue = Tail(@)]
  BY DEF Receive
<1>10. n \in Nat
  BY <1>4
<1> HIDE DEF e, n, text
<1>11. CASE client' = [Applied(client, e) EXCEPT !.st = "over"] /\ conn' = NoConn
  <2>1. client' \in ClientRecords /\ client'.st = "over"
    BY <1>7, <1>8, <1>10, <1>11 DEF StreamOK, ClientRecords
  <2> QED
    BY <1>2, <1>11, <2>1, NotFollowing
<1>12. CASE client' = Applied(client, e) /\ conn' = [conn EXCEPT !.queue = Tail(@)]
  <2>1. /\ client' \in ClientRecords /\ client'.st = "stream" /\ client'.run = client.run
        /\ client'.seq = n /\ client'.text = text
    BY <1>1, <1>7, <1>8, <1>10, <1>12 DEF StreamOK, ClientRecords
  <2>2. /\ conn' \in ConnRecords /\ conn'.on = conn.on /\ conn'.listening = conn.listening
        /\ conn'.queue = Tail(conn.queue)
    BY <1>5, <1>12 DEF StreamOK, ConnRecords
  <2>3. /\ n + Len(conn'.queue) = client.seq + Len(conn.queue)
        /\ \A i \in 1..Len(conn'.queue) : conn'.queue[i] = l[n + i]
    <3>1. n + Len(conn'.queue) = client.seq + Len(conn.queue)
      <4>1. Len(conn'.queue) = Len(conn.queue) - 1
        BY <1>5, <2>2
      <4>2. n = client.seq + 1
        BY DEF n
      <4>3. Len(conn.queue) \in Int /\ client.seq \in Int
        BY <1>4, <1>5
      <4> QED
        BY <4>1, <4>2, <4>3
    <3>2. ASSUME NEW i \in 1..Len(conn'.queue) PROVE conn'.queue[i] = l[n + i]
      <4>1. i + 1 \in 1..Len(conn.queue) /\ conn'.queue[i] = conn.queue[i + 1]
        BY <1>5, <2>2
      <4>2. client.seq + (i + 1) = n + i
        BY <1>4 DEF n
      <4> QED
        BY <1>3, <4>1, <4>2 DEF Follows
    <3> QED
      BY <3>1, <3>2
  <2>4. Follows(l)'
    BY <1>3, <1>7, <2>1, <2>2, <2>3 DEF Follows
  <2>5. FollowOK'
    BY <1>1, <1>3, <1>4, <2>1, <2>4 DEF FollowOK, HasBegun
  <2>6. ConnOK'
    BY <1>1, <1>4, <2>1, <2>2 DEF StreamOK, ConnOK, Open, Active, Broken, OpenStatuses
  <2> QED
    BY <1>2, <2>1, <2>2, <2>5, <2>6 DEF StreamOK
<1> QED
  BY <1>9, <1>11, <1>12

\* The conversation's files change alone.
LEMMA FilesOnlyStream ==
  ASSUME RunsOK, LogsOK, StreamOK, UNCHANGED <<run, conn, client>>
  PROVE  RunsOK' /\ LogsOK' /\ StreamOK'
<1>1. RunsOK'
  BY DEF RunsOK, RunsTyped, Quiet
<1>2. LogsOK'
  <2>1. \A q \in Runs : LogOK(run'[q])
    BY DEF LogsOK
  <2> QED
    BY <2>1, LogsPrimed
<1>3. StreamOK'
  BY DEF StreamOK, ConnOK, FollowOK, Follows, Following, HasBegun, Open, Active, Broken, OpenStatuses
<1> QED
  BY <1>1, <1>2, <1>3

LEMMA SteadyFiles ==
  ASSUME FilesOK, UNCHANGED <<mem, disk, todo>>, Steady
  PROVE  FilesOK'
  BY QuietFiles DEF Steady

LEMMA AgentStarts ==
  ASSUME AgentInit
  PROVE  AgentIInv
<1>1. /\ run = [r \in Runs |-> NoRun] /\ conn = NoConn /\ todo = <<>>
      /\ mem = [up |-> TRUE, count |-> 0, active |-> None]
      /\ disk = [journal |-> <<>>, pending |-> None, saved |-> {}, count |-> 0, active |-> None]
      /\ client = [st |-> "off", run |-> None, seq |-> 0, text |-> 0]
  BY DEF AgentInit
<1>2. \A r \in Runs : run[r] = NoRun /\ ~Active(r) /\ ~Open(r) /\ r # None
  BY <1>1, GoneFacts, NoneNoRun DEF Open, Active, Broken
<1>3. RunsOK
  BY <1>1, <1>2, GoneFacts DEF RunsOK, RunsTyped
<1>4. LogsOK
  BY <1>2, GoneLog DEF LogsOK
<1>5. \A i \in 1..Len(todo) : FALSE
  BY <1>1
<1>6. /\ disk.journal = <<>> /\ disk.pending = None /\ disk.saved = {} /\ disk.active = None
      /\ mem.active = None /\ mem.up
  BY <1>1
<1>7. DOMAIN disk.journal = {} /\ \A i \in 1..Len(disk.journal) : FALSE
  BY <1>6
<1>8. FilesTyped
  <2>1. /\ todo \in Seq(Writes) /\ disk.journal \in Seq(Messages)
    BY <1>1, <1>6
  <2>2. disk \in [journal : Seq(Messages), pending : Runs \cup {None}, saved : SUBSET Runs,
                  count : Nat, active : Runs \cup {None}]
    BY <1>1, <2>1
  <2>3. mem \in [up : BOOLEAN, count : Nat, active : Runs \cup {None}]
    BY <1>1
  <2> QED
    BY <2>1, <2>2, <2>3 DEF FilesTyped
<1>9. OneActive /\ NoAnswerYet /\ SaveIsLive
  BY <1>2, <1>5, <1>6 DEF OneActive, NoAnswerYet, SaveIsLive, Names
<1>10. /\ OnlyBegun /\ AppendsOnce /\ SavesActive /\ ClearedLast /\ ClearedAnswered
       /\ SavedIsPending /\ JournalOnce
  BY <1>5, <1>6, <1>7 DEF OnlyBegun, AppendsOnce, SavesActive, ClearedLast, ClearedAnswered,
     SavedIsPending, JournalOnce
<1>11. StreamOK
  <2>1. 0 \in 0..MaxText /\ 0 \in Nat /\ <<>> \in Seq(Events)
    BY AgentAssumption
  <2>2. client \in ClientRecords /\ conn \in ConnRecords
    BY <1>1, <2>1 DEF ClientRecords, ConnRecords, NoConn
  <2>3. ConnOK /\ FollowOK
    BY <1>1 DEF ConnOK, FollowOK, Following, NoConn
  <2> QED
    BY <2>2, <2>3 DEF StreamOK
<1> QED
  BY <1>3, <1>4, <1>8, <1>9, <1>10, <1>11 DEF AgentIInv, FilesOK

\* What one run does.
LEMMA OneRunKeeps ==
  ASSUME AgentIInv, NEW r \in Runs,
         \/ \E mine \in BOOLEAN : StartRun(r, mine)
         \/ \E n \in 1..3 : StartFails(r, n)
         \/ \E x \in Results, n \in 0..3 : FinalizeFails(r, x, n)
         \/ Backend(r) \/ FlushTimer(r) \/ PersistTimer(r)
         \/ \E d \in {"approved", "rejected"} : DecideApproval(r, d)
         \/ Cancel(r) \/ Forget(r)
  PROVE  AgentIInv'
<1> USE DEF AgentIInv
<1>1. ASSUME NEW mine \in BOOLEAN, StartRun(r, mine) PROVE AgentIInv'
  BY <1>1, StartRunRuns, StartRunFiles, StartRunStream
<1>11. ASSUME NEW n \in 1..3, StartFails(r, n) PROVE AgentIInv'
  BY <1>11, StartFailsRuns, StartFailsFiles, StartFailsStream
<1>12. ASSUME NEW x \in Results, NEW n \in 0..3, FinalizeFails(r, x, n) PROVE AgentIInv'
  BY <1>12, FinalizeFailsRuns, FinalizeFailsFiles, FinalizeFailsStream
<1>2. CASE AppendText(r)
  <2>1. UNCHANGED <<mem, disk, todo>>
    BY <1>2 DEF AppendText
  <2> QED
    BY <1>2, <2>1, AppendTextRuns, SteadyFiles, AppendTextStream
<1>3. CASE RequestApproval(r)
  <2>1. UNCHANGED <<mem, disk, todo>>
    BY <1>3 DEF RequestApproval
  <2> QED
    BY <1>3, <2>1, RequestApprovalRuns, SteadyFiles, RequestApprovalStream
<1>4. CASE ToolRuns(r)
  <2>1. UNCHANGED <<mem, disk, todo>>
    BY <1>4 DEF ToolRuns
  <2> QED
    BY <1>4, <2>1, ToolRunsRuns, SteadyFiles, ToolRunsStream
<1>5. ASSUME NEW x \in Results, Finalize(r, x) PROVE AgentIInv'
  BY <1>5, FinalizeRuns, FinalizeFiles, FinalizeStream
<1>6. CASE FlushTimer(r)
  <2>1. UNCHANGED <<mem, disk, todo>>
    BY <1>6 DEF FlushTimer
  <2> QED
    BY <1>6, <2>1, FlushTimerRuns, SteadyFiles, FlushTimerStream
<1>7. CASE PersistTimer(r)
  BY <1>7, PersistTimerRuns, PersistTimerFiles, PersistTimerStream
<1>8. ASSUME NEW d \in {"approved", "rejected"}, DecideApproval(r, d) PROVE AgentIInv'
  <2>1. UNCHANGED <<mem, disk, todo>>
    BY <1>8 DEF DecideApproval
  <2> QED
    BY <1>8, <2>1, DecideApprovalRuns, SteadyFiles, DecideApprovalStream
<1>9. CASE Cancel(r)
  <2>1. UNCHANGED <<mem, disk, todo>>
    BY <1>9 DEF Cancel
  <2> QED
    BY <1>9, <2>1, CancelRuns, SteadyFiles, CancelStream
<1>10. CASE Forget(r)
  <2>1. UNCHANGED <<mem, disk, todo>>
    BY <1>10 DEF Forget
  <2> QED
    BY <1>10, <2>1, ForgetRuns, SteadyFiles, ForgetStream
<1> QED
  BY <1>1, <1>2, <1>3, <1>4, <1>5, <1>6, <1>7, <1>8, <1>9, <1>10, <1>11, <1>12
     DEF Backend

LEMMA AgentKeeps ==
  ASSUME AgentIInv, [AgentNext]_agentVars
  PROVE  AgentIInv'
<1> USE DEF AgentIInv
<1>1. CASE Write
  <2>1. UNCHANGED <<run, conn, client>>
    BY <1>1 DEF Write
  <2> QED
    BY <1>1, <2>1, WriteKeeps, FilesOnlyStream
<1>2. CASE Crash
  BY <1>2, CrashRuns, CrashFiles, CrashStream
<1>3. CASE Restart
  <2>1. UNCHANGED <<run, conn, client>>
    BY <1>3 DEF Restart
  <2> QED
    BY <1>3, <2>1, RestartFiles, FilesOnlyStream
<1>4. CASE Load
  <2>1. UNCHANGED <<mem, disk, todo>> /\ mem.active \in Runs \cup {None}
    BY <1>4, FileFields DEF Load, FilesOK
  <2> QED
    BY <1>4, <2>1, LoadRuns, SteadyFiles, LoadStream
<1>5. CASE Subscribe
  <2>1. UNCHANGED <<mem, disk, todo>> /\ client.run \in Runs \cup {None} /\ client.run # None
    BY <1>5, NoneNoRun DEF Subscribe, StreamOK, FollowOK, Following
  <2> QED
    BY <1>5, <2>1, SubscribeRuns, SteadyFiles, SubscribeStream
<1>6. CASE Receive \/ Drop
  <2>1. UNCHANGED <<run, mem, disk, todo>>
    BY <1>6 DEF Receive, Drop
  <2>2. Steady /\ RunsOK'
    BY <2>1 DEF Steady, Open, Active, HasBegun, RunsOK, RunsTyped, Quiet
  <2> QED
    BY <1>6, <2>1, <2>2, SteadyFiles, ReceiveStream, DropStream
<1>7. ASSUME NEW r \in Runs,
             \/ \E mine \in BOOLEAN : StartRun(r, mine)
             \/ \E n \in 1..3 : StartFails(r, n)
             \/ \E x \in Results, n \in 0..3 : FinalizeFails(r, x, n)
             \/ Backend(r) \/ FlushTimer(r) \/ PersistTimer(r)
             \/ \E d \in {"approved", "rejected"} : DecideApproval(r, d)
             \/ Cancel(r) \/ Forget(r)
      PROVE  AgentIInv'
  BY <1>7, OneRunKeeps
<1>8. CASE UNCHANGED agentVars
  <2>1. UNCHANGED <<run, mem, disk, todo, conn, client>>
    BY <1>8 DEF agentVars
  <2>2. Steady
    BY <2>1 DEF Steady, Open, Active, HasBegun
  <2> QED
    BY <2>1, <2>2, SteadyFiles, FilesOnlyStream
<1> QED
  BY <1>1, <1>2, <1>3, <1>4, <1>5, <1>6, <1>7, <1>8 DEF AgentNext

\* The answer, the events and the approvals.
LEMMA RunFollows ==
  ASSUME AgentIInv
  PROVE  RunInv
<1> USE DEF AgentIInv
<1>1. AgentTypeOK
  BY DEF RunsOK, RunsTyped, FilesOK, FilesTyped, StreamOK, ConnRecords, ClientRecords, AgentTypeOK
<1>2. TextAgrees
  <2> SUFFICES ASSUME Following, run[client.run].st # "gone"
               PROVE  LET ar == run[client.run]
                          told == Told(ar.log)
                      IN client.text + told[Len(ar.log)] + ar.delta = ar.text + told[client.seq]
    BY DEF TextAgrees
  <2>1. PICK r : r = client.run
    OBVIOUS
  <2>2. r \in Runs /\ Follows(run[r].log) /\ LogOK(run[r]) /\ run[r] \in RunRecords
    BY <2>1 DEF StreamOK, FollowOK, LogsOK, RunsOK, RunsTyped
  <2>3. /\ run[r].delta \in Nat /\ run[r].text \in Nat /\ run[r].log \in Seq(Events)
        /\ Len(run[r].log) \in Nat /\ client.seq \in Nat /\ Len(conn.queue) \in Nat
    BY <2>2, RunFields, StreamFields
  <2>4. client.seq \in 0..Len(run[r].log) /\ Len(run[r].log) \in 0..Len(run[r].log)
    BY <2>2, <2>3 DEF Follows
  <2>5. /\ Told(run[r].log)[client.seq] \in Nat /\ Told(run[r].log)[Len(run[r].log)] \in Nat
    BY <2>3, <2>4, ToldFacts
  <2>6. /\ client.text = Told(run[r].log)[client.seq]
        /\ Told(run[r].log)[Len(run[r].log)] + run[r].delta = run[r].text
    BY <2>2 DEF Follows, LogOK
  <2>7. client.text + Told(run[r].log)[Len(run[r].log)] + run[r].delta
          = run[r].text + Told(run[r].log)[client.seq]
    BY <2>3, <2>5, <2>6
  <2> QED
    BY <2>1, <2>7
<1>3. StreamGapless
  <2> SUFFICES ASSUME conn.on
               PROVE  /\ \A i \in DOMAIN conn.queue : conn.queue[i].seq = client.seq + i
                      /\ conn.listening => client.seq + Len(conn.queue) = Len(run[client.run].log)
    BY DEF StreamGapless
  <2>1. Following
    BY DEF StreamOK, ConnOK, Following
  <2>2. PICK l : Follows(l) /\ (run[client.run].st # "gone" => l = run[client.run].log)
    BY <2>1 DEF StreamOK, FollowOK
  <2>3. /\ DOMAIN conn.queue = 1..Len(conn.queue) /\ client.seq \in Nat /\ Len(conn.queue) \in Nat
        /\ Len(l) \in Nat
    BY <2>2, StreamFields DEF Follows
  <2>4. ASSUME NEW i \in DOMAIN conn.queue PROVE conn.queue[i].seq = client.seq + i
    <3>1. client.seq + i \in 1..Len(l) /\ conn.queue[i] = l[client.seq + i]
      BY <2>2, <2>3 DEF Follows
    <3> QED
      BY <2>2, <3>1 DEF Follows, GoodLog
  <2>5. conn.listening => run[client.run].st # "gone"
    BY DEF StreamOK, ConnOK, Open, Active, Broken
  <2> QED
    BY <2>2, <2>4, <2>5 DEF Follows
<1>4. ApprovalsSettled
  BY DEF RunsOK, Quiet, ApprovalsSettled
<1> QED
  BY <1>1, <1>2, <1>3, <1>4 DEF RunInv

\* The files of the conversation.
LEMMA FilesFollow ==
  ASSUME AgentIInv
  PROVE  ConversationInv
<1> USE DEF AgentIInv
<1>1. JournalOnce
  BY DEF FilesOK
<1>2. Ready => \A i \in 1..Len(todo) : FALSE
  BY DEF Ready
<1>3. SavedIsKept
  BY <1>2 DEF FilesOK, SavedIsPending, SavedIsKept, Ready
<1>4. ActiveIsLive
  <2> SUFFICES ASSUME Ready
               PROVE  IF mem.active = None THEN disk.active = None
                      ELSE /\ Open(mem.active)
                           /\ \/ disk.active = mem.active
                              \/ disk.active = None /\ run[mem.active].st = "unstarted"
    BY DEF ActiveIsLive
  <2>1. NoSaveAfter(0)
    BY <1>2 DEF NoSaveAfter
  <2>2. Names(disk.active)
    BY <2>1 DEF FilesOK, SaveIsLive, Ready
  <2>3. mem.active # None => Open(mem.active)
    BY FileFields DEF FilesOK, OneActive, Ready
  <2> QED
    BY <2>2, <2>3, NoneNoRun DEF Names
<1> QED
  BY <1>1, <1>3, <1>4 DEF ConversationInv

LEMMA AgentHolds == AgentSpec => []AgentIInv
<1>1. AgentInit => AgentIInv
  BY AgentStarts
<1>2. AgentIInv /\ [AgentNext]_agentVars => AgentIInv'
  BY AgentKeeps
<1> QED
  BY <1>1, <1>2, PTL DEF AgentSpec

THEOREM RunCorrect == AgentSpec => []RunInv
<1>1. AgentIInv => RunInv
  BY RunFollows
<1> QED
  BY <1>1, AgentHolds, PTL

THEOREM ConversationKept == AgentSpec => []ConversationInv
<1>1. AgentIInv => ConversationInv
  BY FilesFollow
<1> QED
  BY <1>1, AgentHolds, PTL

-----------------------------------------------------------------------------
(* The supervisor. *)

USE SupervisorAssumption, NoStatusAssumption

LEMMA StepNames ==
  /\ \A step \in {"start", "image", "runtime", "starting", "container", "ready", "prepare",
                   "events", "failed", "guess", "signal", "done", "on", "dial", "got", "recv",
                   "wait", "waiting", "podman", "podmanWait", "ack", "drain", "off", "exited"} :
       step \in Steps
  /\ \A g \in {"main", "api", "init", "sync", "events", "health"} : g \in Goroutines
  /\ Starters \subseteq Writers /\ Writers \subseteq Goroutines
  /\ \A g \in {"main", "api", "init", "sync"} : g \in Writers
  BY DEF Steps, Goroutines, Writers, Starters

LEMMA StatusNames ==
  /\ \A st \in {"INITIALIZING", "PULLING_IMAGE", "STARTING_RUNTIME", "PREPARING", "RUNNING",
                 "STOPPING"} : st \in Reported
  /\ "STOPPED" \in Statuses /\ "STOPPED" \notin Reported
  /\ Reported \subseteq Statuses
  BY DEF Statuses, Reported

LEMMA EmptySeq == \A S : <<>> \in Seq(S) /\ Len(<<>>) = 0
  OBVIOUS

\* AgentSet, on the record of the agent.
LEMMA ToldStep ==
  ASSUME NEW a \in AgentRecords, NEW st \in Reported
  PROVE  [a EXCEPT !.state = st,
                   !.told = IF a.states = "on" THEN Append(@, st) ELSE @] \in AgentRecords
<1>1. a.told \in Seq(Reported)
  BY DEF AgentRecords
<1>2. (IF a.states = "on" THEN Append(a.told, st) ELSE a.told) \in Seq(Reported)
  BY <1>1
<1> DEFINE t == IF a.states = "on" THEN Append(a.told, st) ELSE a.told
<1>3. t \in Seq(Reported)
  BY <1>2
<1> HIDE DEF t
<1>4. [a EXCEPT !.state = st, !.told = t] \in AgentRecords
  BY <1>3 DEF AgentRecords
<1> QED
  BY <1>4 DEF t

\* SyncDial passes the agent's state on: StatusBeforeAgent says that there is one.
LEMMA TypeNext == TypeOK /\ StatusBeforeAgent /\ [Next]_vars => TypeOK'
<1> SUFFICES ASSUME TypeOK, StatusBeforeAgent, [Next]_vars
             PROVE  TypeOK'
  OBVIOUS
<1> USE StepNames, StatusNames DEF TypeOK
<1>1. CASE Initialize
  <2>1. pc' \in [Goroutines -> Steps]
    BY <1>1 DEF Initialize, At, Goto, Exited
  <2> QED
    BY <1>1, <2>1 DEF Initialize, At, Goto, Exited
<1>2. CASE ListenState
  <2>1. listener' \in ListenerRecords /\ Len(listener'.chan) <= StatusCh
    <3>1. sup.status \in Statuses
      BY DEF SupervisorRecords
    <3> QED
      BY <1>2, <3>1 DEF ListenState, ListenerRecords
  <2> QED
    BY <1>2, <2>1 DEF ListenState, Exited
<1>3. CASE StreamBreaks
  <2>1. listener' \in ListenerRecords /\ Len(listener'.chan) <= StatusCh
    <3>1. listener' = [listener EXCEPT !.st = "none", !.chan = <<>>]
      BY <1>3 DEF StreamBreaks
    <3>8. listener' \in ListenerRecords
      BY <3>1, EmptySeq DEF ListenerRecords
    <3>9. listener'.chan = <<>>
      BY <3>1, EmptySeq DEF ListenerRecords
    <3> QED
      BY <3>8, <3>9, EmptySeq DEF ListenerRecords
  <2>2. faults' \in Nat
    BY <1>3 DEF StreamBreaks, Fault, Exited
  <2> QED
    BY <1>3, <2>1, <2>2 DEF StreamBreaks, Fault, Exited
<1>4. CASE InitFails
  <2>1. faults' \in Nat
    BY <1>4 DEF InitFails, At, Goto, Fault, Live, Exited
  <2>2. pc' \in [Goroutines -> Steps]
    BY <1>4 DEF InitFails, At, Goto, Fault, Live, Exited
  <2>3. sup' \in SupervisorRecords
    BY <1>4 DEF InitFails, At, Goto, Fault, Live, Exited, SupervisorRecords
  <2> QED
    BY <1>4, <2>1, <2>2, <2>3 DEF InitFails, At, Goto, Fault, Live, Exited
<1>5. CASE HealthFails
  <2>1. faults' \in Nat
    BY <1>5 DEF HealthFails, At, Goto, Fault, Live, Exited
  <2>2. sup' \in SupervisorRecords
    BY <1>5 DEF HealthFails, At, Goto, Fault, Live, Exited, SupervisorRecords
  <2>3. chans' \in [Channels -> Nat]
    <3>1. chans' = [chans EXCEPT !["health"] = chans["health"] + 1]
      BY <1>5 DEF HealthFails
    <3>2. "health" \in Channels
      BY DEF Channels
    <3>3. chans["health"] + 1 \in Nat
      BY <3>2
    <3> QED
      BY <3>1, <3>3
  <2>4. pc' \in [Goroutines -> Steps]
    BY <1>5 DEF HealthFails, At, Goto, Fault, Live, Exited
  <2> QED
    BY <1>5, <2>1, <2>2, <2>3, <2>4 DEF HealthFails, At, Goto, Fault, Live, Exited
<1>6. CASE AgentTaskFails
  <2>1. faults' \in Nat
    BY <1>6 DEF AgentTaskFails, Fault, AgentOnly, Exited
  <2>2. agent' \in AgentRecords
    <3> DEFINE f == IF agent.events THEN agent.failures + 1 ELSE agent.failures
    <3>1. f \in Nat
      BY DEF AgentRecords
    <3>2. agent' = [agent EXCEPT !.failed = TRUE, !.failures = f]
      BY <1>6 DEF AgentTaskFails
    <3> HIDE DEF f
    <3> QED
      BY <3>1, <3>2 DEF AgentRecords
  <2> QED
    BY <1>6, <2>1, <2>2 DEF AgentTaskFails, Fault, AgentOnly, Exited
<1>7. CASE OuterTerm
  <2>1. outer' \in {"select", "stop", "exited"}
    BY <1>7 DEF OuterTerm, Exited
  <2>2. chans' \in [Channels -> Nat]
    BY <1>7 DEF OuterTerm, Exited, Channels
  <2> QED
    BY <1>7, <2>1, <2>2 DEF OuterTerm, Exited
<1>8. CASE InitImage
  <2>1. sup' \in SupervisorRecords
    BY <1>8 DEF InitImage, At, Goto, Live, SetStatus, Exited, SupervisorRecords
  <2>2. publishing' \in [Writers -> Statuses \cup {NoStatus}]
    BY <1>8 DEF InitImage, At, Goto, Live, SetStatus, Exited
  <2>3. pc' \in [Goroutines -> Steps]
    BY <1>8 DEF InitImage, At, Goto, Live, SetStatus, Exited
  <2> QED
    BY <1>8, <2>1, <2>2, <2>3 DEF InitImage, At, Goto, Live, SetStatus, Exited
<1>9. CASE InitRuntime
  <2>1. sup' \in SupervisorRecords
    BY <1>9 DEF InitRuntime, At, Goto, Live, SetStatus, Exited, SupervisorRecords
  <2>2. publishing' \in [Writers -> Statuses \cup {NoStatus}]
    BY <1>9 DEF InitRuntime, At, Goto, Live, SetStatus, Exited
  <2>3. pc' \in [Goroutines -> Steps]
    BY <1>9 DEF InitRuntime, At, Goto, Live, SetStatus, Exited
  <2> QED
    BY <1>9, <2>1, <2>2, <2>3 DEF InitRuntime, At, Goto, Live, SetStatus, Exited
<1>10. CASE InitRun
  <2>1. pc' \in [Goroutines -> Steps]
    BY <1>10 DEF InitRun, At, Goto, Live, Exited
  <2> QED
    BY <1>10, <2>1 DEF InitRun, At, Goto, Live, Exited
<1>11. CASE InitContainer
  <2>1. pc' \in [Goroutines -> Steps]
    BY <1>11 DEF InitContainer, At, Goto, Exited
  <2>2. agent' \in AgentRecords
    BY <1>11 DEF InitContainer, At, Goto, Exited, AgentRecords
  <2> QED
    BY <1>11, <2>1, <2>2 DEF InitContainer, At, Goto, Exited
<1>12. CASE InitExec
  <2>1. pc' \in [Goroutines -> Steps]
    BY <1>12 DEF InitExec, At, Goto, Live, Exited
  <2>2. agent' \in AgentRecords
    BY <1>12 DEF InitExec, At, Goto, Live, Exited, AgentRecords
  <2> QED
    BY <1>12, <2>1, <2>2 DEF InitExec, At, Goto, Live, Exited
<1>13. CASE InitReady
  <2>1. pc' \in [Goroutines -> Steps]
    BY <1>13 DEF InitReady, At, Live, Exited
  <2> QED
    BY <1>13, <2>1 DEF InitReady, At, Live, Exited
<1>14. CASE InitPrepare
  <2>1. agent' \in AgentRecords
    BY <1>14 DEF InitPrepare, At, Goto, Live, Exited, AgentRecords
  <2>2. pc' \in [Goroutines -> Steps]
    BY <1>14 DEF InitPrepare, At, Goto, Live, Exited
  <2> QED
    BY <1>14, <2>1, <2>2 DEF InitPrepare, At, Goto, Live, Exited
<1>15. CASE InitEvents
  <2>1. pc' \in [Goroutines -> Steps]
    BY <1>15 DEF InitEvents, At, Exited
  <2> QED
    BY <1>15, <2>1 DEF InitEvents, At, Exited
<1>16. CASE InitGuess
  <2>1. pc' \in [Goroutines -> Steps]
    BY <1>16 DEF InitGuess, At, Goto, Exited
  <2> QED
    BY <1>16, <2>1 DEF InitGuess, At, Goto, Exited
<1>17. CASE InitSetGuess
  <2>1. sup' \in SupervisorRecords
    BY <1>17 DEF InitSetGuess, At, Goto, Exited, SupervisorRecords
  <2>2. pc' \in [Goroutines -> Steps]
    BY <1>17 DEF InitSetGuess, At, Goto, Exited
  <2> QED
    BY <1>17, <2>1, <2>2 DEF InitSetGuess, At, Goto, Exited
<1>18. CASE InitSignal
  <2>1. chans' \in [Channels -> Nat]
    BY <1>18 DEF InitSignal, At, Goto, Exited, Channels
  <2>2. pc' \in [Goroutines -> Steps]
    BY <1>18 DEF InitSignal, At, Goto, Exited
  <2> QED
    BY <1>18, <2>1, <2>2 DEF InitSignal, At, Goto, Exited
<1>19. CASE SyncDial
  <2>1. agent' \in AgentRecords
    <3> DEFINE st == IF agent.state = "prepare" THEN "STARTING_RUNTIME" ELSE agent.state
    <3>1. CASE agent' = [agent EXCEPT !.states = "sent", !.told = <<st>>]
               /\ agent.state \notin {"none", "exited"}
      <4>1. st \in Reported
        BY <3>1 DEF AgentRecords
      <4> HIDE DEF st
      <4>2. <<st>> \in Seq(Reported)
        BY <4>1
      <4> QED
        BY <3>1, <4>2 DEF AgentRecords
    <3>2. agent.state # "none"
      BY <1>19 DEF SyncDial, At, StatusBeforeAgent
    <3> QED
      BY <1>19, <3>1, <3>2 DEF SyncDial
  <2>2. pc' \in [Goroutines -> Steps]
    BY <1>19 DEF SyncDial, At, Goto, Live, Exited
  <2> QED
    BY <1>19, <2>1, <2>2 DEF SyncDial, At, Goto, Live, Exited
<1>20. CASE SyncSubscribed
  <2>1. agent' \in AgentRecords
    BY <1>20 DEF SyncSubscribed, Exited, AgentRecords
  <2> QED
    BY <1>20, <2>1 DEF SyncSubscribed, Exited
<1>21. CASE SyncRecv
  <2>1. local' \in LocalRecords
    <3>1. agent.told \in Seq(Reported)
      BY DEF AgentRecords
    <3>2. agent.told # <<>> => Head(agent.told) \in Reported
      BY <3>1
    <3> DEFINE told == Head(agent.told)
    <3>3. local' = local \/ (told \in Reported /\ local' = [local EXCEPT !.msg = told])
      BY <1>21, <3>2 DEF SyncRecv
    <3> HIDE DEF told
    <3> QED
      BY <3>3 DEF LocalRecords
  <2>2. agent' \in AgentRecords
    <3>1. agent.told \in Seq(Reported)
      BY DEF AgentRecords
    <3>2. agent.told # <<>> => Tail(agent.told) \in Seq(Reported)
      BY <3>1
    <3> DEFINE rest == Tail(agent.told)
    <3>3. agent' = agent \/ (rest \in Seq(Reported) /\ agent' = [agent EXCEPT !.told = rest])
      BY <1>21, <3>2 DEF SyncRecv
    <3> HIDE DEF rest
    <3> QED
      BY <3>3 DEF AgentRecords
  <2>3. pc' \in [Goroutines -> Steps]
    <3>1. \E step \in {"got", "off"} : pc' = [pc EXCEPT !["sync"] = step]
      BY <1>21 DEF SyncRecv, Goto
    <3> QED
      BY <3>1
  <2> QED
    BY <1>21, <2>1, <2>2, <2>3 DEF SyncRecv, At, Goto, Live, Exited
<1>22. CASE SyncSet
  <2>1. sup' \in SupervisorRecords
    <3>1. local.msg \in Statuses
      BY DEF LocalRecords
    <3> QED
      BY <1>22, <3>1 DEF SyncSet, SetStatus, SupervisorRecords
  <2>2. publishing' \in [Writers -> Statuses \cup {NoStatus}]
    <3>1. local.msg \in Statuses
      BY DEF LocalRecords
    <3> QED
      BY <1>22, <3>1 DEF SyncSet, SetStatus
  <2>3. pc' \in [Goroutines -> Steps]
    BY <1>22 DEF SyncSet, At, Goto, Live, SetStatus, Exited
  <2> QED
    BY <1>22, <2>1, <2>2, <2>3 DEF SyncSet, At, Goto, Live, SetStatus, Exited
<1>23. CASE EventsDial
  <2>1. agent' \in AgentRecords
    <3>1. agent' \in {agent, [agent EXCEPT !.events = TRUE]}
      BY <1>23 DEF EventsDial
    <3> QED
      BY <3>1 DEF AgentRecords
  <2>2. pc' \in [Goroutines -> Steps]
    BY <1>23 DEF EventsDial, At, Goto, Live, Exited
  <2> QED
    BY <1>23, <2>1, <2>2 DEF EventsDial, At, Goto, Live, Exited
<1>24. CASE HandleEvent
  <2>1. agent' \in AgentRecords
    <3>1. agent.failures \in Nat
      BY DEF AgentRecords
    <3>2. CASE agent.failures > 0 /\ agent' = [agent EXCEPT !.failures = @ - 1]
      <4>1. agent.failures - 1 \in Nat
        BY <3>1, <3>2
      <4> QED
        BY <3>2, <4>1 DEF AgentRecords
    <3> QED
      BY <1>24, <3>2 DEF HandleEvent
  <2>2. sup' \in SupervisorRecords
    BY <1>24 DEF HandleEvent, At, Goto, Live, Exited, SupervisorRecords
  <2>3. pc' \in [Goroutines -> Steps]
    BY <1>24 DEF HandleEvent, At, Goto, Live, Exited
  <2> QED
    BY <1>24, <2>1, <2>2, <2>3 DEF HandleEvent, At, Goto, Live, Exited
<1>25. CASE AgentPreparing
  <2>1. agent' \in AgentRecords
    BY <1>25, ToldStep DEF AgentPreparing, AgentSet
  <2>2. faults' \in Nat
    BY <1>25 DEF AgentPreparing, AgentSet, AgentOnly, Exited
  <2> QED
    BY <1>25, <2>1, <2>2 DEF AgentPreparing, AgentSet, AgentOnly, Exited
<1>26. CASE AgentRunning
  <2>1. agent' \in AgentRecords
    BY <1>26, ToldStep DEF AgentRunning, AgentSet
  <2>2. faults' \in Nat
    BY <1>26 DEF AgentRunning, AgentSet, AgentOnly, Exited
  <2> QED
    BY <1>26, <2>1, <2>2 DEF AgentRunning, AgentSet, AgentOnly, Exited
<1>27. CASE AgentStopping
  <2>1. agent' \in AgentRecords
    BY <1>27, ToldStep DEF AgentStopping, AgentSet
  <2>2. faults' \in Nat
    BY <1>27 DEF AgentStopping, AgentSet, AgentOnly, Exited
  <2> QED
    BY <1>27, <2>1, <2>2 DEF AgentStopping, AgentSet, AgentOnly, Exited
<1>28. CASE AgentExits
  <2>1. agent' \in AgentRecords
    BY <1>28 DEF AgentExits, ExitSignal, Exited, AgentRecords
  <2>2. chans' \in [Channels -> Nat]
    BY <1>28 DEF AgentExits, ExitSignal, Exited, Channels
  <2> QED
    BY <1>28, <2>1, <2>2 DEF AgentExits, ExitSignal, Exited
<1>29. CASE SubscribeStatusListener
  <2>1. listener' \in ListenerRecords /\ Len(listener'.chan) <= StatusCh
    BY <1>29 DEF SubscribeStatusListener, Exited, ListenerRecords
  <2> QED
    BY <1>29, <2>1 DEF SubscribeStatusListener, Exited
<1>30. CASE SendStatus
  <2>1. listener' \in ListenerRecords /\ Len(listener'.chan) <= StatusCh
    <3> DEFINE sent == {listener.chan[i] : i \in 1..Len(listener.chan)}
    <3>1. listener.chan \in Seq(Statuses)
      BY DEF ListenerRecords
    <3>2. sent \subseteq Statuses
      BY <3>1
    <3>3. listener' = [listener EXCEPT !.chan = <<>>, !.heard = @ \cup sent]
      BY <1>30 DEF SendStatus
    <3> HIDE DEF sent
    <3>8. listener' \in ListenerRecords
      BY <3>2, <3>3, EmptySeq DEF ListenerRecords
    <3>9. listener'.chan = <<>>
      BY <3>2, <3>3, EmptySeq DEF ListenerRecords
    <3> QED
      BY <3>8, <3>9, EmptySeq DEF ListenerRecords
  <2> QED
    BY <1>30, <2>1 DEF SendStatus, Exited
<1>31. CASE ShutdownAck
  <2>1. chans' \in [Channels -> Nat]
    BY <1>31 DEF ShutdownAck, Exited, Channels
  <2> QED
    BY <1>31, <2>1 DEF ShutdownAck, Exited
<1>32. CASE ApiRecv
  <2>1. chans' \in [Channels -> Nat]
    BY <1>32 DEF ApiRecv, At, DoShutdown, Goto, Begun, Exited, Channels
  <2>2. sup' \in SupervisorRecords
    BY <1>32 DEF ApiRecv, At, DoShutdown, Goto, Begun, Exited, SupervisorRecords
  <2>3. pc' \in [Goroutines -> Steps]
    BY <1>32 DEF ApiRecv, At, DoShutdown, Goto, Begun, Exited
  <2> QED
    BY <1>32, <2>1, <2>2, <2>3 DEF ApiRecv, At, DoShutdown, Goto, Begun, Exited
<1>33. CASE MainSelect
  <2>1. chans' \in [Channels -> Nat]
    <3>1. PICK ch \in {"term", "init", "exit", "health"} :
             chans[ch] > 0 /\ chans' = [chans EXCEPT ![ch] = chans[ch] - 1]
      BY <1>33 DEF MainSelect
    <3>2. ch \in Channels
      BY DEF Channels
    <3>3. chans[ch] - 1 \in Nat
      BY <3>1, <3>2
    <3> QED
      BY <3>1, <3>3
  <2>2. local' \in LocalRecords
    BY <1>33 DEF MainSelect, At, DoShutdown, Goto, Begun, Exited, LocalRecords
  <2>3. sup' \in SupervisorRecords
    BY <1>33 DEF MainSelect, At, DoShutdown, Goto, Begun, Exited, SupervisorRecords
  <2>4. pc' \in [Goroutines -> Steps]
    BY <1>33 DEF MainSelect, At, DoShutdown, Goto, Begun, Exited
  <2> QED
    BY <1>33, <2>1, <2>2, <2>3, <2>4 DEF MainSelect, At, DoShutdown, Goto, Begun, Exited
<1>34. CASE MainAck
  <2>1. pc' \in [Goroutines -> Steps]
    BY <1>34 DEF MainAck, At, Goto, Exited
  <2>2. chans' \in [Channels -> Nat]
    BY <1>34 DEF MainAck, At, Goto, Exited, Channels
  <2> QED
    BY <1>34, <2>1, <2>2 DEF MainAck, At, Goto, Exited
<1>35. CASE MainExit
  <2>1. pc' \in [Goroutines -> Steps]
    BY <1>35 DEF MainExit, At, Exited
  <2>2. publishing' \in [Writers -> Statuses \cup {NoStatus}]
    BY <1>35 DEF MainExit, At, Exited
  <2>3. chans' \in [Channels -> Nat]
    BY <1>35 DEF MainExit, At, Exited, Channels
  <2>4. callers' \in [Callers -> {"idle", "send", "done"}]
    BY <1>35 DEF MainExit, At, Exited
  <2>5. agent' \in AgentRecords
    <3>1. <<>> \in Seq(Reported)
      OBVIOUS
    <3> QED
      BY <1>35, <3>1 DEF MainExit, AgentRecords
  <2>6. listener' \in ListenerRecords /\ Len(listener'.chan) <= StatusCh
    <3>8. listener' \in ListenerRecords
      BY <1>35, EmptySeq DEF MainExit, ListenerRecords
    <3>9. listener'.chan = <<>>
      BY <1>35, EmptySeq DEF MainExit, ListenerRecords
    <3> QED
      BY <3>8, <3>9, EmptySeq DEF ListenerRecords
  <2> QED
    BY <1>35, <2>1, <2>2, <2>3, <2>4, <2>5, <2>6 DEF MainExit, At, Exited
<1>36. CASE OuterExit
  <2>1. outer' \in {"select", "stop", "exited"}
    BY <1>36 DEF OuterExit, Exited
  <2> QED
    BY <1>36, <2>1 DEF OuterExit, Exited
<1>37. ASSUME NEW c \in Callers, Shutdown(c)
      PROVE  TypeOK'
  <2>1. callers' \in [Callers -> {"idle", "send", "done"}]
    BY <1>37 DEF Shutdown, Exited
  <2> QED
    BY <1>37, <2>1 DEF Shutdown, Exited
<1>38. ASSUME NEW c \in Callers, ShutdownSend(c)
      PROVE  TypeOK'
  <2>1. callers' \in [Callers -> {"idle", "send", "done"}]
    BY <1>38 DEF ShutdownSend, Exited
  <2>2. chans' \in [Channels -> Nat]
    BY <1>38 DEF ShutdownSend, Exited, Channels
  <2> QED
    BY <1>38, <2>1, <2>2 DEF ShutdownSend, Exited
<1>39. ASSUME NEW g \in Writers, Publish(g)
      PROVE  TypeOK'
  <2>1. publishing' \in [Writers -> Statuses \cup {NoStatus}]
    BY <1>39 DEF Publish, Exited, Enqueued
  <2>2. listener' \in ListenerRecords /\ Len(listener'.chan) <= StatusCh
    <3> DEFINE sent == Enqueued(listener.chan, publishing[g])
    <3>1. publishing[g] \in Statuses /\ listener.chan \in Seq(Statuses)
      BY <1>39 DEF Publish, ListenerRecords
    <3>2. sent \in Seq(Statuses) /\ Len(sent) <= StatusCh
      BY <3>1 DEF Enqueued
    <3>3. listener' \in {listener, [listener EXCEPT !.chan = sent]}
      BY <1>39 DEF Publish
    <3> HIDE DEF sent
    <3> QED
      BY <3>2, <3>3 DEF ListenerRecords
  <2> QED
    BY <1>39, <2>1, <2>2 DEF Publish, Exited, Enqueued
<1>40. ASSUME NEW g \in Starters, DownWait(g)
      PROVE  TypeOK'
  <2>1. pc' \in [Goroutines -> Steps]
    BY <1>40 DEF DownWait, At, Goto, Good, Exited
  <2> QED
    BY <1>40, <2>1 DEF DownWait, At, Goto, Good, Exited
<1>41. ASSUME NEW g \in Starters, DownStopping(g)
      PROVE  TypeOK'
  <2>1. local' \in LocalRecords
    <3>1. sup.status \in Statuses
      BY DEF SupervisorRecords
    <3>2. local' = [local EXCEPT !.lastStatus = sup.status]
      BY <1>41 DEF DownStopping
    <3> QED
      BY <3>1, <3>2 DEF LocalRecords
  <2>2. sup' \in SupervisorRecords
    BY <1>41 DEF DownStopping, At, Goto, SetStatus, Good, WaitOver, Exited,
               SupervisorRecords
  <2>3. publishing' \in [Writers -> Statuses \cup {NoStatus}]
    BY <1>41 DEF DownStopping, At, Goto, SetStatus, Good, WaitOver, Exited
  <2>4. pc' \in [Goroutines -> Steps]
    BY <1>41 DEF DownStopping, At, Goto, SetStatus, Good, WaitOver, Exited
  <2> QED
    BY <1>41, <2>1, <2>2, <2>3, <2>4 DEF DownStopping, At, Goto, SetStatus, Good, WaitOver, Exited
<1>42. ASSUME NEW g \in Starters, PodmanStop(g)
      PROVE  TypeOK'
  <2>1. pc' \in [Goroutines -> Steps]
    BY <1>42 DEF PodmanStop, At, Goto, Exited
  <2>2. agent' \in AgentRecords
    BY <1>42 DEF PodmanStop, At, Goto, Exited, AgentRecords
  <2>3. local' \in LocalRecords
    BY <1>42 DEF PodmanStop, LocalRecords
  <2> QED
    BY <1>42, <2>1, <2>2, <2>3 DEF PodmanStop, At, Goto, Exited
<1>43. ASSUME NEW g \in Starters, DownStopped(g)
      PROVE  TypeOK'
  <2>1. sup' \in SupervisorRecords
    BY <1>43 DEF DownStopped, At, Goto, SetStatus, PodmanStopped, After, Exited,
               SupervisorRecords
  <2>2. publishing' \in [Writers -> Statuses \cup {NoStatus}]
    BY <1>43 DEF DownStopped, At, Goto, SetStatus, PodmanStopped, After, Exited
  <2>3. pc' \in [Goroutines -> Steps]
    BY <1>43 DEF DownStopped, At, Goto, SetStatus, PodmanStopped, After, Exited
  <2> QED
    BY <1>43, <2>1, <2>2, <2>3 DEF DownStopped, At, Goto, SetStatus, PodmanStopped, After, Exited
<1>44. CASE UNCHANGED vars
  BY <1>44 DEF vars
<1>45. ASSUME NEW g \in Starters, PodmanFails(g)
      PROVE  TypeOK'
  <2>1. pc' \in [Goroutines -> Steps]
    BY <1>45 DEF PodmanFails, Goto
  <2>2. local' \in LocalRecords
    BY <1>45 DEF PodmanFails, LocalRecords
  <2>3. faults' \in Nat
    BY <1>45 DEF PodmanFails, Fault
  <2> QED
    BY <1>45, <2>1, <2>2, <2>3 DEF PodmanFails
<1> QED
  BY <1>1, <1>2, <1>3, <1>4, <1>5, <1>6, <1>7, <1>8, <1>9, <1>10, <1>11, <1>12,
         <1>13, <1>14, <1>15, <1>16, <1>17, <1>18, <1>19, <1>20, <1>21, <1>22, <1>23,
         <1>24, <1>25, <1>26, <1>27, <1>28, <1>29, <1>30, <1>31, <1>32, <1>33, <1>34,
         <1>35, <1>36, <1>37, <1>38, <1>39, <1>40, <1>41, <1>42, <1>43, <1>44, <1>45
     DEF Next, Initialization, Streams, Agent, Listening, ShutdownSteps

-----------------------------------------------------------------------------
(* The inductive invariant. *)
\* A dial changes nothing of the agent but its stream.
LEMMA SyncDialAgent ==
  ASSUME TypeOK, SyncDial
  PROVE  /\ agent'.container = agent.container /\ agent'.state = agent.state
         /\ agent'.stop = agent.stop
<1> DEFINE t == <<IF agent.state = "prepare" THEN "STARTING_RUNTIME" ELSE agent.state>>
<1>1. agent' = agent \/ agent' = [agent EXCEPT !.states = "sent", !.told = t]
  BY DEF SyncDial
<1> HIDE DEF t
<1>2. agent \in AgentRecords
  BY DEF TypeOK
<1> QED
  BY <1>1, <1>2 DEF AgentRecords

\* waitForTermInner takes a signal from its channel and begins the shutdown, if nobody has.
LEMMA MainSelectMoves ==
  ASSUME TypeOK, MainSelect
  PROVE  /\ chans'["init"] > 0 \/ local'.cause = "init" => chans["init"] > 0
         /\ local'.lastStatus = local.lastStatus /\ local'.podman = local.podman
         /\ sup'.status = sup.status /\ sup'.failure = sup.failure
         /\ pc["main"] = "select"
         /\ \/ sup' = sup /\ sup.isShuttingDown /\ pc' = [pc EXCEPT !["main"] = "ack"]
            \/ sup'.isShuttingDown /\ ~sup.isShuttingDown /\ pc' = [pc EXCEPT !["main"] = "wait"]
<1>1. /\ sup \in SupervisorRecords /\ local \in LocalRecords /\ chans \in [Channels -> Nat]
  BY DEF TypeOK
<1>2. PICK ch \in {"term", "init", "exit", "health"} :
         /\ chans[ch] > 0 /\ chans' = [chans EXCEPT ![ch] = chans[ch] - 1]
         /\ local' = [local EXCEPT !.cause = ch]
  BY DEF MainSelect
<1>3. "init" \in Channels /\ ch \in Channels
  BY DEF Channels
<1>4. chans'["init"] > 0 \/ local'.cause = "init" => chans["init"] > 0
  BY <1>1, <1>2, <1>3 DEF LocalRecords
<1>5. local'.lastStatus = local.lastStatus /\ local'.podman = local.podman
  BY <1>1, <1>2 DEF LocalRecords
<1>6. \/ sup' = sup /\ sup.isShuttingDown /\ pc' = [pc EXCEPT !["main"] = "ack"]
      \/ /\ sup' = [sup EXCEPT !.isShuttingDown = TRUE] /\ ~sup.isShuttingDown
         /\ pc' = [pc EXCEPT !["main"] = "wait"]
  BY DEF MainSelect, DoShutdown, Begun, Goto
<1> QED
  BY <1>1, <1>4, <1>5, <1>6 DEF SupervisorRecords, MainSelect, At

LEMMA InvNext == SupervisorIInv /\ [Next]_vars => SupervisorIInv'
<1> SUFFICES ASSUME SupervisorIInv, [Next]_vars
             PROVE  SupervisorIInv'
  OBVIOUS
<1>0. TypeOK'
  BY TypeNext DEF SupervisorIInv
<1> DEFINE Rest == /\ ShutdownFlagged /\ OneShutdown /\ FailureBeforeSignal
                   /\ StatusBeforeAgent /\ AgentAfterContainer
                   /\ StopIsAwaited /\ StoppedMeansStopped
<1> SUFFICES Rest'
  BY <1>0 DEF SupervisorIInv
<1> USE StepNames, StatusNames DEF SupervisorIInv, TypeOK, Starters, EarlyStatuses, ShuttingDown,
       ShutdownFlagged, OneShutdown, FailureBeforeSignal, StatusBeforeAgent, AgentAfterContainer,
       StopIsAwaited, StoppedMeansStopped
<1>1. CASE Initialize
  BY <1>1 DEF Initialize, At, Goto, Exited
<1>2. CASE ListenState
  BY <1>2 DEF ListenState, Exited, ListenerRecords
<1>3. CASE StreamBreaks
  BY <1>3 DEF StreamBreaks, Fault, Exited, ListenerRecords
<1>4. CASE InitFails
  BY <1>4 DEF InitFails, At, Goto, Fault, Live, Exited, SupervisorRecords
<1>5. CASE HealthFails
  BY <1>5 DEF HealthFails, At, Goto, Fault, Live, Exited, SupervisorRecords, Channels
<1>6. CASE AgentTaskFails
  BY <1>6 DEF AgentTaskFails, Fault, AgentOnly, Exited, AgentRecords
<1>7. CASE OuterTerm
  BY <1>7 DEF OuterTerm, Exited, Channels
<1>8. CASE InitImage
  BY <1>8 DEF InitImage, At, Goto, Live, SetStatus, Exited, SupervisorRecords
<1>9. CASE InitRuntime
  BY <1>9 DEF InitRuntime, At, Goto, Live, SetStatus, Exited, SupervisorRecords
<1>10. CASE InitRun
  BY <1>10 DEF InitRun, At, Goto, Live, Exited
<1>11. CASE InitContainer
  <2>1. /\ UNCHANGED <<sup, local, chans>> /\ pc["init"] = "starting"
        /\ pc' = [pc EXCEPT !["init"] = "container"]
        /\ agent'.container = "up" /\ agent'.state = agent.state
    BY <1>11 DEF InitContainer, At, Goto, AgentRecords
  <2>2. agent.container = "none" /\ local.podman # "told"
    BY <2>1
  <2>3. ShutdownFlagged' /\ OneShutdown' /\ FailureBeforeSignal'
    BY <2>1
  <2>4. StatusBeforeAgent' /\ AgentAfterContainer' /\ StopIsAwaited'
    BY <2>1, <2>2
  <2>5. StoppedMeansStopped'
    BY <2>1, <2>2 DEF LocalRecords
  <2> QED
    BY <2>3, <2>4, <2>5
<1>12. CASE InitExec
  BY <1>12 DEF InitExec, At, Goto, Live, Exited, AgentRecords
<1>13. CASE InitReady
  BY <1>13 DEF InitReady, At, Live, Exited
<1>14. CASE InitPrepare
  BY <1>14 DEF InitPrepare, At, Goto, Live, Exited, AgentRecords
<1>15. CASE InitEvents
  BY <1>15 DEF InitEvents, At, Exited
<1>16. CASE InitGuess
  BY <1>16 DEF InitGuess, At, Goto, Exited
<1>17. CASE InitSetGuess
  BY <1>17 DEF InitSetGuess, At, Goto, Exited, SupervisorRecords
<1>18. CASE InitSignal
  BY <1>18 DEF InitSignal, At, Goto, Exited, Channels
<1>19. CASE SyncDial
  <2>1. ShutdownFlagged'
    BY <1>19 DEF SyncDial, At, Goto, Live, Exited
  <2>2. OneShutdown'
    BY <1>19 DEF SyncDial, At, Goto, Live, Exited
  <2>3. FailureBeforeSignal'
    BY <1>19 DEF SyncDial, At, Goto, Live, Exited
  <2>4. StatusBeforeAgent'
    <3>1. pc["sync"] = "dial" /\ agent.state # "none"
      BY <1>19 DEF SyncDial, At
    <3>2. agent'.state # "none"
      BY <1>19, <3>1, SyncDialAgent
    <3> QED
      BY <3>2
  <2>5. AgentAfterContainer'
    <3>1. agent'.container = agent.container /\ agent'.state = agent.state
      BY <1>19, SyncDialAgent
    <3>2. pc'["init"] = pc["init"]
      BY <1>19 DEF SyncDial, Goto
    <3> QED
      BY <3>1, <3>2
  <2>6. StopIsAwaited'
    <3>1. agent'.container = agent.container /\ agent'.stop = agent.stop
      BY <1>19, SyncDialAgent
    <3>2. local' = local /\ sup' = sup
      BY <1>19 DEF SyncDial
    <3>3. \A g \in Starters : pc'[g] = pc[g]
      BY <1>19 DEF SyncDial, Goto
    <3> QED
      BY <3>1, <3>2, <3>3
  <2>7. StoppedMeansStopped'
    BY <1>19 DEF SyncDial, At, Goto, Live, Exited, AgentRecords
  <2> QED
    BY <1>19, <2>1, <2>2, <2>3, <2>4, <2>5, <2>6, <2>7 DEF SyncDial, At, Goto, Live, Exited
<1>20. CASE SyncSubscribed
  BY <1>20 DEF SyncSubscribed, Exited, AgentRecords
<1>21. CASE SyncRecv
  <2>1. ShutdownFlagged'
    BY <1>21 DEF SyncRecv, At, Goto, Live, Exited
  <2>2. OneShutdown'
    BY <1>21 DEF SyncRecv, At, Goto, Live, Exited
  <2>3. FailureBeforeSignal'
    BY <1>21 DEF SyncRecv, At, Goto, Live, Exited, LocalRecords
  <2>4. StatusBeforeAgent'
    BY <1>21 DEF SyncRecv, At, Goto, Live, Exited, AgentRecords, LocalRecords
  <2>5. AgentAfterContainer'
    BY <1>21 DEF SyncRecv, At, Goto, Live, Exited, AgentRecords
  <2>6. StopIsAwaited'
    <3>1. agent'.container = agent.container /\ agent'.stop = agent.stop
      BY <1>21 DEF SyncRecv, AgentRecords
    <3>2. local'.lastStatus = local.lastStatus /\ local'.podman = local.podman /\ sup' = sup
      BY <1>21 DEF SyncRecv, LocalRecords
    <3>3. \A g \in Starters : pc'[g] = pc[g]
      BY <1>21 DEF SyncRecv, Goto
    <3> QED
      BY <3>1, <3>2, <3>3
  <2>7. StoppedMeansStopped'
    BY <1>21 DEF SyncRecv, At, Goto, Live, Exited, AgentRecords, LocalRecords
  <2> QED
    BY <1>21, <2>1, <2>2, <2>3, <2>4, <2>5, <2>6, <2>7 DEF SyncRecv, At, Goto, Live, Exited
<1>22. CASE SyncSet
  <2>1. ShutdownFlagged'
    BY <1>22 DEF SyncSet, At, Goto, Live, SetStatus, Exited, SupervisorRecords
  <2>2. OneShutdown'
    BY <1>22 DEF SyncSet, At, Goto, Live, SetStatus, Exited, SupervisorRecords
  <2>3. FailureBeforeSignal'
    BY <1>22 DEF SyncSet, At, Goto, Live, SetStatus, Exited, SupervisorRecords
  <2>4. StatusBeforeAgent'
    BY <1>22 DEF SyncSet, At, Goto, Live, SetStatus, Exited, SupervisorRecords
  <2>5. AgentAfterContainer'
    BY <1>22 DEF SyncSet, At, Goto, Live, SetStatus, Exited
  <2>6. StopIsAwaited'
    <3>1. /\ UNCHANGED <<local, agent>> /\ \A g \in Starters : pc'[g] = pc[g]
          /\ sup'.isShuttingDown = sup.isShuttingDown
      BY <1>22 DEF SyncSet, Goto, SetStatus, SupervisorRecords
    <3>2. sup'.status # "STOPPED"
      BY <1>22 DEF SyncSet, SetStatus, SupervisorRecords, LocalRecords
    <3> QED
      BY <3>1, <3>2
  <2>7. StoppedMeansStopped'
    <3>1. local.msg # "STOPPED"
      BY DEF LocalRecords
    <3>2. sup'.status # "STOPPED"
      BY <1>22, <3>1 DEF SyncSet, SetStatus, SupervisorRecords
    <3> QED
      BY <3>2
  <2> QED
    BY <1>22, <2>1, <2>2, <2>3, <2>4, <2>5, <2>6, <2>7 DEF SyncSet, At, Goto, Live, SetStatus, Exited
<1>23. CASE EventsDial
  BY <1>23 DEF EventsDial, At, Goto, Live, Exited, AgentRecords
<1>24. CASE HandleEvent
  <2>1. CASE agent.failures > 0 /\ agent' = [agent EXCEPT !.failures = @ - 1]
             /\ sup' = [sup EXCEPT !.failure = "Task"] /\ UNCHANGED pc
    <3>1. /\ agent'.container = agent.container /\ agent'.state = agent.state
          /\ agent'.stop = agent.stop
      BY <2>1 DEF AgentRecords
    <3>2. /\ sup'.status = sup.status /\ sup'.isShuttingDown = sup.isShuttingDown
          /\ sup'.failure # "none"
      BY <2>1 DEF SupervisorRecords
    <3>3. UNCHANGED <<pc, local, chans>>
      BY <1>24, <2>1 DEF HandleEvent
    <3> QED
      BY <3>1, <3>2, <3>3
  <2>2. CASE Goto("events", "off") /\ UNCHANGED <<sup, agent>>
    <3>1. \A g \in Goroutines \ {"events"} : pc'[g] = pc[g]
      BY <2>2 DEF Goto
    <3>2. UNCHANGED <<sup, agent, local, chans>>
      BY <1>24, <2>2 DEF HandleEvent
    <3> QED
      BY <3>1, <3>2
  <2> QED
    BY <1>24, <2>1, <2>2 DEF HandleEvent
<1>25. CASE AgentPreparing
  BY <1>25 DEF AgentPreparing, AgentSet, AgentOnly, Exited, AgentRecords
<1>26. CASE AgentRunning
  BY <1>26 DEF AgentRunning, AgentSet, AgentOnly, Exited, AgentRecords
<1>27. CASE AgentStopping
  BY <1>27 DEF AgentStopping, AgentSet, AgentOnly, Exited, AgentRecords
<1>28. CASE AgentExits
  BY <1>28 DEF AgentExits, ExitSignal, Exited, AgentRecords, Channels
<1>29. CASE SubscribeStatusListener
  BY <1>29 DEF SubscribeStatusListener, Exited, ListenerRecords
<1>30. CASE SendStatus
  BY <1>30 DEF SendStatus, Exited, ListenerRecords
<1>31. CASE ShutdownAck
  BY <1>31 DEF ShutdownAck, Exited, Channels
<1>32. CASE ApiRecv
  BY <1>32 DEF ApiRecv, At, DoShutdown, Goto, Begun, Exited, SupervisorRecords, Channels
<1>33. CASE MainSelect
  <2>1. /\ chans'["init"] > 0 \/ local'.cause = "init" => chans["init"] > 0
        /\ local'.lastStatus = local.lastStatus /\ local'.podman = local.podman
        /\ sup'.status = sup.status /\ sup'.failure = sup.failure /\ pc["main"] = "select"
        /\ \/ sup' = sup /\ sup.isShuttingDown /\ pc' = [pc EXCEPT !["main"] = "ack"]
           \/ sup'.isShuttingDown /\ ~sup.isShuttingDown /\ pc' = [pc EXCEPT !["main"] = "wait"]
    BY <1>33, MainSelectMoves
  <2>2. UNCHANGED agent /\ \A g \in Goroutines \ {"main"} : pc'[g] = pc[g]
    BY <1>33, <2>1 DEF MainSelect
  <2>3. sup'.isShuttingDown /\ pc'["main"] \in {"ack", "wait"}
    BY <2>1
  <2>4. ShutdownFlagged' /\ OneShutdown' /\ FailureBeforeSignal'
    BY <2>1, <2>2, <2>3
  <2>5. StatusBeforeAgent' /\ AgentAfterContainer'
    BY <2>1, <2>2, <2>3
  <2>6. StopIsAwaited' /\ StoppedMeansStopped'
    BY <2>1, <2>2, <2>3
  <2> QED
    BY <2>4, <2>5, <2>6
<1>34. CASE MainAck
  BY <1>34 DEF MainAck, At, Goto, Exited, Channels
<1>35. CASE MainExit
  <2>1. ShutdownFlagged'
    BY <1>35 DEF MainExit, At, Exited
  <2>2. OneShutdown'
    BY <1>35 DEF MainExit, At, Exited
  <2>3. FailureBeforeSignal'
    BY <1>35 DEF MainExit, At, Exited, Channels
  <2>4. StatusBeforeAgent'
    BY <1>35 DEF MainExit, At, Exited, AgentRecords
  <2>5. AgentAfterContainer'
    BY <1>35 DEF MainExit, At, Exited, AgentRecords
  <2>6. StopIsAwaited'
    BY <1>35 DEF MainExit, At, Exited, AgentRecords
  <2>7. StoppedMeansStopped'
    BY <1>35 DEF MainExit, At, Exited, AgentRecords
  <2> QED
    BY <1>35, <2>1, <2>2, <2>3, <2>4, <2>5, <2>6, <2>7 DEF MainExit, At, Exited
<1>36. CASE OuterExit
  BY <1>36 DEF OuterExit, Exited
<1>37. ASSUME NEW c \in Callers, Shutdown(c)
      PROVE  Rest'
  BY <1>37 DEF Shutdown, Exited
<1>38. ASSUME NEW c \in Callers, ShutdownSend(c)
      PROVE  Rest'
  BY <1>38 DEF ShutdownSend, Exited, Channels
<1>39. ASSUME NEW g \in Writers, Publish(g)
      PROVE  Rest'
  BY <1>39 DEF Publish, Exited, Enqueued, ListenerRecords
<1>40. ASSUME NEW g \in Starters, DownWait(g)
      PROVE  Rest'
  BY <1>40 DEF DownWait, At, Goto, Good, Exited
<1>41. ASSUME NEW g \in Starters, DownStopping(g)
      PROVE  Rest'
  <2>1. ShutdownFlagged'
    BY <1>41 DEF DownStopping, At, Goto, SetStatus, Good, WaitOver, Exited,
               SupervisorRecords
  <2>2. OneShutdown'
    BY <1>41 DEF DownStopping, At, Goto, SetStatus, Good, WaitOver, Exited,
               SupervisorRecords
  <2>3. FailureBeforeSignal'
    BY <1>41 DEF DownStopping, At, Goto, SetStatus, Good, WaitOver, Exited, LocalRecords,
               SupervisorRecords
  <2>4. StatusBeforeAgent'
    BY <1>41 DEF DownStopping, At, Goto, SetStatus, Good, WaitOver, Exited, LocalRecords,
               SupervisorRecords
  <2>5. AgentAfterContainer'
    BY <1>41 DEF DownStopping, At, Goto, SetStatus, Good, WaitOver, Exited
  <2>6. StopIsAwaited'
    BY <1>41 DEF DownStopping, At, Goto, SetStatus, Good, WaitOver, Exited, LocalRecords,
               SupervisorRecords
  <2>7. StoppedMeansStopped'
    BY <1>41 DEF DownStopping, At, Goto, SetStatus, Good, WaitOver, Exited, LocalRecords,
               SupervisorRecords
  <2> QED
    BY <1>41, <2>1, <2>2, <2>3, <2>4, <2>5, <2>6, <2>7 DEF DownStopping, At, Goto, SetStatus, Good, WaitOver, Exited
<1>42. ASSUME NEW g \in Starters, PodmanStop(g)
      PROVE  Rest'
  <2>1. ShutdownFlagged'
    BY <1>42 DEF PodmanStop, At, Goto, Exited
  <2>2. OneShutdown'
    BY <1>42 DEF PodmanStop, At, Goto, Exited
  <2>3. FailureBeforeSignal'
    BY <1>42 DEF PodmanStop, At, Goto, Exited
  <2>4. StatusBeforeAgent'
    BY <1>42 DEF PodmanStop, At, Goto, Exited, AgentRecords
  <2>5. AgentAfterContainer'
    BY <1>42 DEF PodmanStop, At, Goto, Exited, AgentRecords
  <2>6. StopIsAwaited'
    BY <1>42 DEF PodmanStop, At, Goto, Exited, AgentRecords, LocalRecords
  <2>7. StoppedMeansStopped'
    BY <1>42 DEF PodmanStop, At, Goto, Exited, AgentRecords, LocalRecords
  <2> QED
    BY <1>42, <2>1, <2>2, <2>3, <2>4, <2>5, <2>6, <2>7 DEF PodmanStop, At, Goto, Exited
<1>43. ASSUME NEW g \in Starters, DownStopped(g)
      PROVE  Rest'
  <2>1. ShutdownFlagged'
    BY <1>43 DEF DownStopped, At, Goto, SetStatus, PodmanStopped, After, Exited,
               SupervisorRecords
  <2>2. OneShutdown'
    BY <1>43 DEF DownStopped, At, Goto, SetStatus, PodmanStopped, After, Exited,
               SupervisorRecords
  <2>3. FailureBeforeSignal'
    BY <1>43 DEF DownStopped, At, Goto, SetStatus, PodmanStopped, After, Exited,
               SupervisorRecords
  <2>4. StatusBeforeAgent'
    BY <1>43 DEF DownStopped, At, Goto, SetStatus, PodmanStopped, After, Exited,
               SupervisorRecords
  <2>5. AgentAfterContainer'
    BY <1>43 DEF DownStopped, At, Goto, SetStatus, PodmanStopped, After, Exited
  <2>6. StopIsAwaited'
    BY <1>43 DEF DownStopped, At, Goto, SetStatus, PodmanStopped, After, Exited,
               SupervisorRecords
  <2>7. StoppedMeansStopped'
    <3>1. UNCHANGED <<agent, local>> /\ pc[g] = "podmanWait"
      BY <1>43 DEF DownStopped, At
    <3>2. agent.container = "up" => local.podman \in {"absent", "failed"}
      BY <1>43, <3>1 DEF DownStopped, PodmanStopped, LocalRecords
    <3> QED
      BY <3>1, <3>2
  <2> QED
    BY <1>43, <2>1, <2>2, <2>3, <2>4, <2>5, <2>6, <2>7 DEF DownStopped, At, Goto, SetStatus, PodmanStopped, After, Exited
<1>44. CASE UNCHANGED vars
  BY <1>44 DEF vars
<1>45. ASSUME NEW g \in Starters, PodmanFails(g)
      PROVE  Rest'
  <2>1. /\ local'.podman = "failed" /\ local'.lastStatus = local.lastStatus
        /\ local'.cause = local.cause
    BY <1>45 DEF PodmanFails, LocalRecords
  <2>2. /\ UNCHANGED <<sup, chans, agent>> /\ agent.container = "up"
        /\ pc[g] \in {"podman", "podmanWait"} /\ pc' = [pc EXCEPT ![g] = "podmanWait"]
    BY <1>45 DEF PodmanFails, At, Goto
  <2>3. ShutdownFlagged' /\ OneShutdown' /\ FailureBeforeSignal'
    BY <2>1, <2>2
  <2>4. StatusBeforeAgent' /\ AgentAfterContainer'
    BY <2>1, <2>2
  <2>5. StopIsAwaited' /\ StoppedMeansStopped'
    BY <2>1, <2>2
  <2> QED
    BY <2>3, <2>4, <2>5
<1> HIDE DEF Rest
<1> QED
  BY <1>1, <1>2, <1>3, <1>4, <1>5, <1>6, <1>7, <1>8, <1>9, <1>10, <1>11, <1>12,
         <1>13, <1>14, <1>15, <1>16, <1>17, <1>18, <1>19, <1>20, <1>21, <1>22, <1>23,
         <1>24, <1>25, <1>26, <1>27, <1>28, <1>29, <1>30, <1>31, <1>32, <1>33, <1>34,
         <1>35, <1>36, <1>37, <1>38, <1>39, <1>40, <1>41, <1>42, <1>43, <1>44, <1>45
     DEF Next, Initialization, Streams, Agent, Listening, ShutdownSteps

LEMMA InitPc == Init => pc \in [Goroutines -> Steps]
<1> SUFFICES ASSUME Init
             PROVE  pc \in [Goroutines -> Steps]
  OBVIOUS
<1> DEFINE First(g) == CASE g = "main" -> "select" [] g = "api" -> "recv"
                         [] g = "init" -> "idle" [] OTHER -> "off"
<1>1. \A g \in Goroutines : First(g) \in {"select", "recv", "idle", "off"}
  BY DEF Goroutines, Writers, Starters
<1>2. pc = [g \in Goroutines |-> First(g)]
  BY DEF Init
<1> HIDE DEF First
<1>3. {"select", "recv", "idle", "off"} \subseteq Steps
  BY DEF Steps
<1> QED
  BY <1>1, <1>2, <1>3

LEMMA InitInv == Init => SupervisorIInv
<1> SUFFICES ASSUME Init
             PROVE  SupervisorIInv
  OBVIOUS
<1> USE StepNames, StatusNames DEF Init
<1>1. TypeOK
  <2>1. sup \in SupervisorRecords /\ local \in LocalRecords
    BY DEF SupervisorRecords, LocalRecords
  <2>2. agent \in AgentRecords
    BY EmptySeq DEF AgentRecords
  <2>3. listener \in ListenerRecords /\ listener.chan = <<>>
    BY EmptySeq DEF ListenerRecords
  <2>4. pc \in [Goroutines -> Steps]
    BY InitPc
  <2>5. Len(listener.chan) <= StatusCh
    BY <2>3, EmptySeq
  <2> QED
    BY <2>1, <2>2, <2>3, <2>4, <2>5 DEF TypeOK, Channels
<1>2. /\ pc["main"] = "select" /\ pc["api"] = "recv" /\ pc["init"] = "idle" /\ pc["sync"] = "off"
      /\ chans["init"] = 0
  BY DEF Goroutines, Writers, Starters, Channels
<1>3. ShutdownFlagged /\ OneShutdown /\ StopIsAwaited
  BY <1>2 DEF ShutdownFlagged, OneShutdown, StopIsAwaited, ShuttingDown, Starters
<1>4. FailureBeforeSignal /\ StatusBeforeAgent /\ AgentAfterContainer /\ StoppedMeansStopped
  BY <1>2 DEF FailureBeforeSignal, StatusBeforeAgent, AgentAfterContainer, StoppedMeansStopped,
              EarlyStatuses
<1> QED
  BY <1>1, <1>3, <1>4 DEF SupervisorIInv

LEMMA SupervisorIInvHolds == Spec => []SupervisorIInv
BY InitInv, InvNext, PTL DEF Spec

\* Whatever triggers the shutdown (several calls of Shutdown, TERM, a failed
\* initialization, health checks, the end of the agent), and with any number of faults:
\* one goroutine of the inner supervisor shuts down, STOPPED is not the status while the
\* container runs unless podman stop failed or the container has come up after it
\* (shutdown.go, doShutdown), and STOPPED after a failed initialization comes with its
\* Failure (initialization.go, initialize).
THEOREM SupervisorSafe == Spec => []SupervisorInv
<1>1. SupervisorIInv => SupervisorInv
  BY DEF SupervisorIInv, SupervisorInv, FailureBeforeSignal, InitFailureReported
<1> QED
  BY <1>1, SupervisorIInvHolds, PTL

-----------------------------------------------------------------------------
(* The refinement of ShutdownContract. *)

\* The phase is decided by the two goroutines that may shut down and by isShuttingDown.
LEMMA PhaseFrame ==
  ASSUME pc'["main"] = pc["main"], pc'["api"] = pc["api"],
         sup'.isShuttingDown = sup.isShuttingDown
  PROVE  Phase' = Phase
BY DEF Phase, Exited, ShuttingDown, Starters

\* doShutdown begins the shutdown, or returns because it is begun.
LEMMA DoShutdownPhase ==
  ASSUME SupervisorIInv, NEW g \in Starters, NEW after, after \in {"ack", "off"},
         pc[g] \in {"select", "recv"}, ~Exited, DoShutdown(g, after)
  PROVE  Contract!Begin \/ Phase' = Phase
<1> USE StepNames DEF SupervisorIInv, TypeOK, Starters, ShuttingDown
<1>1. CASE Begun
  <2>1. sup' = sup /\ pc'[g] = after /\ \A h \in Starters : h # g => pc'[h] = pc[h]
    BY <1>1 DEF DoShutdown, Goto
  <2> QED
    BY <2>1 DEF Phase, Exited
<1>2. CASE ~Begun
  <2>1. sup'.isShuttingDown /\ pc'[g] = "wait" /\ \A h \in Starters : h # g => pc'[h] = pc[h]
    BY <1>2 DEF DoShutdown, Goto, SupervisorRecords
  <2>2. Phase = "up"
    BY <1>2 DEF Phase, Begun, Exited
  <2>3. ~Exited'
    BY <2>1 DEF Exited
  <2>4. Phase' = "asked"
    BY <2>1, <2>3 DEF Phase
  <2> QED
    BY <2>2, <2>4 DEF Contract!Begin
<1> QED
  BY <1>1, <1>2

\* Every step of the supervisor is one of the contract, or leaves the phase alone.
LEMMA PhaseNext == SupervisorIInv /\ [Next]_vars => [Contract!Next]_Phase
<1> SUFFICES ASSUME SupervisorIInv, [Next]_vars
             PROVE  Contract!Next \/ Phase' = Phase
  OBVIOUS
<1> USE StepNames DEF SupervisorIInv, TypeOK
<1>1. CASE Initialize
  BY <1>1, PhaseFrame DEF Initialize, Goto
<1>2. CASE ListenState
  BY <1>2, PhaseFrame DEF ListenState
<1>3. CASE StreamBreaks
  BY <1>3, PhaseFrame DEF StreamBreaks
<1>4. CASE InitFails
  BY <1>4, PhaseFrame DEF InitFails, Goto, SupervisorRecords
<1>5. CASE HealthFails
  BY <1>5, PhaseFrame DEF HealthFails, Goto, SupervisorRecords
<1>6. CASE AgentTaskFails
  BY <1>6, PhaseFrame DEF AgentTaskFails, AgentOnly
<1>7. CASE OuterTerm
  BY <1>7, PhaseFrame DEF OuterTerm
<1>8. CASE InitImage
  BY <1>8, PhaseFrame DEF InitImage, Goto, SetStatus, SupervisorRecords
<1>9. CASE InitRuntime
  BY <1>9, PhaseFrame DEF InitRuntime, Goto, SetStatus, SupervisorRecords
<1>10. CASE InitRun
  BY <1>10, PhaseFrame DEF InitRun, Goto
<1>11. CASE InitContainer
  BY <1>11, PhaseFrame DEF InitContainer, Goto
<1>12. CASE InitExec
  BY <1>12, PhaseFrame DEF InitExec, Goto
<1>13. CASE InitReady
  BY <1>13, PhaseFrame DEF InitReady
<1>14. CASE InitPrepare
  BY <1>14, PhaseFrame DEF InitPrepare, Goto
<1>15. CASE InitEvents
  BY <1>15, PhaseFrame DEF InitEvents
<1>16. CASE InitGuess
  BY <1>16, PhaseFrame DEF InitGuess, Goto
<1>17. CASE InitSetGuess
  BY <1>17, PhaseFrame DEF InitSetGuess, Goto, SupervisorRecords
<1>18. CASE InitSignal
  BY <1>18, PhaseFrame DEF InitSignal, Goto
<1>19. CASE SyncDial
  BY <1>19, PhaseFrame DEF SyncDial, Goto
<1>20. CASE SyncSubscribed
  BY <1>20, PhaseFrame DEF SyncSubscribed
<1>21. CASE SyncRecv
  BY <1>21, PhaseFrame DEF SyncRecv, Goto
<1>22. CASE SyncSet
  BY <1>22, PhaseFrame DEF SyncSet, Goto, SetStatus, SupervisorRecords
<1>23. CASE EventsDial
  BY <1>23, PhaseFrame DEF EventsDial, Goto
<1>24. CASE HandleEvent
  BY <1>24, PhaseFrame DEF HandleEvent, Goto, SupervisorRecords
<1>25. CASE AgentPreparing
  BY <1>25, PhaseFrame DEF AgentPreparing, AgentOnly
<1>26. CASE AgentRunning
  BY <1>26, PhaseFrame DEF AgentRunning, AgentOnly
<1>27. CASE AgentStopping
  BY <1>27, PhaseFrame DEF AgentStopping, AgentOnly
<1>28. CASE AgentExits
  BY <1>28, PhaseFrame DEF AgentExits
<1>29. CASE SubscribeStatusListener
  BY <1>29, PhaseFrame DEF SubscribeStatusListener
<1>30. CASE SendStatus
  BY <1>30, PhaseFrame DEF SendStatus
<1>31. CASE ShutdownAck
  BY <1>31, PhaseFrame DEF ShutdownAck
<1>32. CASE ApiRecv
  BY <1>32, DoShutdownPhase DEF ApiRecv, At, Contract!Next, Starters, StatusBeforeAgent
<1>33. CASE MainSelect
  BY <1>33, DoShutdownPhase DEF MainSelect, At, Contract!Next, Starters
<1>34. CASE MainAck
  BY <1>34 DEF MainAck, At, Goto, Phase, Exited, ShuttingDown, Starters
<1>35. CASE MainExit
  <2>1. ~Exited /\ Exited' /\ sup.isShuttingDown
    BY <1>35 DEF MainExit, At, Exited, ShutdownFlagged
  <2>2. Phase \in {"asked", "down"} /\ Phase' = "gone"
    BY <2>1 DEF Phase
  <2> QED
    BY <2>2 DEF Contract!Exit, Contract!Next
<1>36. CASE OuterExit
  BY <1>36, PhaseFrame DEF OuterExit
<1>37. ASSUME NEW c \in Callers, Shutdown(c)
      PROVE  Contract!Next \/ Phase' = Phase
  BY <1>37, PhaseFrame DEF Shutdown
<1>38. ASSUME NEW c \in Callers, ShutdownSend(c)
      PROVE  Contract!Next \/ Phase' = Phase
  BY <1>38, PhaseFrame DEF ShutdownSend
<1>39. ASSUME NEW g \in Writers, Publish(g)
      PROVE  Contract!Next \/ Phase' = Phase
  BY <1>39, PhaseFrame DEF Publish
<1>40. ASSUME NEW g \in Starters, DownWait(g)
      PROVE  Contract!Next \/ Phase' = Phase
  <2>1. /\ ShuttingDown(g) /\ pc[g] # "exited" /\ ShuttingDown(g)' /\ pc'[g] # "exited"
        /\ sup'.isShuttingDown = sup.isShuttingDown
        /\ \A h \in Starters : h # g => pc'[h] = pc[h]
    BY <1>40 DEF DownWait, At, Goto, SupervisorRecords, ShuttingDown, Starters
  <2>2. sup.isShuttingDown
    BY <2>1 DEF ShutdownFlagged
  <2>3. Exited' = Exited
    BY <2>1 DEF Exited, Starters
  <2> QED
    BY <2>1, <2>2, <2>3 DEF Phase
<1>41. ASSUME NEW g \in Starters, DownStopping(g)
      PROVE  Contract!Next \/ Phase' = Phase
  <2>1. /\ ShuttingDown(g) /\ pc[g] # "exited" /\ ShuttingDown(g)' /\ pc'[g] # "exited"
        /\ sup'.isShuttingDown = sup.isShuttingDown
        /\ \A h \in Starters : h # g => pc'[h] = pc[h]
    BY <1>41 DEF DownStopping, At, Goto, SetStatus, SupervisorRecords, ShuttingDown, Starters
  <2>2. sup.isShuttingDown
    BY <2>1 DEF ShutdownFlagged
  <2>3. Exited' = Exited
    BY <2>1 DEF Exited, Starters
  <2> QED
    BY <2>1, <2>2, <2>3 DEF Phase
<1>42. ASSUME NEW g \in Starters, PodmanStop(g)
      PROVE  Contract!Next \/ Phase' = Phase
  <2>1. /\ ShuttingDown(g) /\ pc[g] # "exited" /\ ShuttingDown(g)' /\ pc'[g] # "exited"
        /\ sup'.isShuttingDown = sup.isShuttingDown
        /\ \A h \in Starters : h # g => pc'[h] = pc[h]
    BY <1>42 DEF PodmanStop, At, Goto, SupervisorRecords, ShuttingDown, Starters
  <2>2. sup.isShuttingDown
    BY <2>1 DEF ShutdownFlagged
  <2>3. Exited' = Exited
    BY <2>1 DEF Exited, Starters
  <2> QED
    BY <2>1, <2>2, <2>3 DEF Phase
<1>43. ASSUME NEW g \in Starters, DownStopped(g)
      PROVE  Contract!Next \/ Phase' = Phase
  <2>1. /\ pc[g] = "podmanWait" /\ ~Exited /\ sup.isShuttingDown /\ sup'.isShuttingDown
        /\ pc'[g] \in {"ack", "off"} /\ \A h \in Starters : h # g => pc'[h] = pc[h]
    BY <1>43 DEF DownStopped, At, Goto, SetStatus, After, SupervisorRecords, ShutdownFlagged,
                ShuttingDown, Starters
  <2>2. \A h \in Starters : ~ShuttingDown(h)'
    BY <2>1 DEF OneShutdown, ShuttingDown, Starters
  <2>3. Phase = "asked"
    BY <2>1 DEF Phase, ShuttingDown
  <2>4. ~Exited'
    BY <2>1 DEF Exited, Starters
  <2>5. Phase' = "down"
    BY <2>1, <2>2, <2>4 DEF Phase
  <2> QED
    BY <2>3, <2>5 DEF Contract!End, Contract!Next
<1>44. CASE UNCHANGED vars
  BY <1>44, PhaseFrame DEF vars
<1>45. ASSUME NEW g \in Starters, PodmanFails(g)
      PROVE  Contract!Next \/ Phase' = Phase
  <2>1. /\ ShuttingDown(g) /\ pc[g] # "exited" /\ ShuttingDown(g)' /\ pc'[g] # "exited"
        /\ sup'.isShuttingDown = sup.isShuttingDown
        /\ \A h \in Starters : h # g => pc'[h] = pc[h]
    BY <1>45 DEF PodmanFails, At, Goto, ShuttingDown, Starters
  <2>2. sup.isShuttingDown
    BY <2>1 DEF ShutdownFlagged
  <2>3. Exited' = Exited
    BY <2>1 DEF Exited, Starters
  <2> QED
    BY <2>1, <2>2, <2>3 DEF Phase
<1> QED
  BY <1>1, <1>2, <1>3, <1>4, <1>5, <1>6, <1>7, <1>8, <1>9, <1>10, <1>11, <1>12,
         <1>13, <1>14, <1>15, <1>16, <1>17, <1>18, <1>19, <1>20, <1>21, <1>22, <1>23,
         <1>24, <1>25, <1>26, <1>27, <1>28, <1>29, <1>30, <1>31, <1>32, <1>33, <1>34,
         <1>35, <1>36, <1>37, <1>38, <1>39, <1>40, <1>41, <1>42, <1>43, <1>44, <1>45
     DEF Next, Initialization, Streams, Agent, Listening, ShutdownSteps

\* The supervisor does what ShutdownContract promises of its end, as far as safety goes:
\* the shutdown begins once, ends at most once, and the inner process does not exit
\* before it (server.go, waitForTermInner and doShutdown).
THEOREM ShutdownContractSafe == Spec => Contract!Spec
<1>1. Init => Contract!Init
  <2> SUFFICES ASSUME Init
               PROVE  Phase = "up"
    BY DEF Contract!Init
  <2>1. pc["main"] = "select" /\ ~sup.isShuttingDown
    BY DEF Init, Goroutines, Writers, Starters
  <2> QED
    BY <2>1 DEF Phase, Exited
<1> QED
  BY <1>1, SupervisorIInvHolds, PhaseNext, PTL DEF Spec, Contract!Spec
=============================================================================
