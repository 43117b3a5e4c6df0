---------------------------- MODULE StreamProofs ---------------------------
(***************************************************************************)
(* What holds of the streams of the API server and of the agent, for any   *)
(* sizes of their buffers: the client of a WatchWorkspace stream misses no *)
(* version between two that it receives, for any number of waits; the      *)
(* caller of an Exec session reads the output in its order, and a result   *)
(* that is the command's own, whatever ends the session.                   *)
(***************************************************************************)
EXTENDS WorkspaceWatch, ExecSession, TLAPS

\* One stream, when p is the last version published.
StreamOK(s, p) ==
  /\ s \in StreamRecords
  /\ Len(s.ch) <= Buffer /\ Len(s.wire) <= Window
  /\ InOrder(s)
  /\ s.st = "on" /\ ~s.lagging => s.last + Len(s.wire) + Len(s.ch) = p

LEMMA EmptySeq == \A S : <<>> \in Seq(S) /\ Len(<<>>) = 0
  OBVIOUS

LEMMA StreamFields ==
  ASSUME NEW s \in StreamRecords
  PROVE  /\ s.st \in StreamStates /\ s.ch \in Seq(Versions) /\ s.wire \in Seq(Versions)
         /\ s.last \in Nat /\ s.lagging \in BOOLEAN
         /\ Len(s.ch) \in Nat /\ Len(s.wire) \in Nat
<1>1. s.ch \in Seq(Versions) /\ s.wire \in Seq(Versions)
  BY DEF StreamRecords
<1> QED
  BY <1>1 DEF StreamRecords

\* A stream that has not been subscribed is empty.
LEMMA FreshOK ==
  ASSUME NEW s, NEW p \in Nat, NEW st \in {"none", "failed", "asked", "ended"},
         s = [NoStream EXCEPT !.st = st]
  PROVE  StreamOK(s, p)
<1>1. s \in StreamRecords
  BY EmptySeq DEF StreamRecords, NoStream, StreamStates
<1>2. s.st = st /\ s.wire = <<>> /\ s.ch = <<>> /\ ~s.lagging
  BY DEF NoStream
<1>3. Len(s.wire) = 0 /\ Len(s.ch) = 0
  BY <1>2, EmptySeq
<1> QED
  BY <1>1, <1>2, <1>3, WatchAssumption DEF StreamOK, InOrder

LEMMA NoStreamOK == \A p \in Nat : StreamOK(NoStream, p)
<1>1. NoStream = [NoStream EXCEPT !.st = "none"]
  BY DEF NoStream
<1> QED
  BY <1>1, FreshOK

\* WatchGet and NewSub: the stream is still empty.
LEMMA SubscribeOK ==
  ASSUME NEW s, NEW p \in Nat, StreamOK(s, p), s.st \in {"asked", "got"}
  PROVE  /\ \A st \in {"got", "ended"} : StreamOK([s EXCEPT !.st = st], p)
         /\ StreamOK([s EXCEPT !.st = "on", !.last = p], p)
<1>1. s.wire = <<>> /\ s.ch = <<>> /\ ~s.lagging /\ s \in StreamRecords
  BY DEF StreamOK, InOrder
<1>2. ASSUME NEW st \in {"got", "ended", "on"}, NEW last \in Nat, st = "on" => last = p,
             NEW t, t = [s EXCEPT !.st = st, !.last = last]
      PROVE  StreamOK(t, p)
  <2>1. t \in StreamRecords
    BY <1>1, <1>2 DEF StreamRecords, StreamStates
  <2>2. t.st = st /\ t.last = last /\ t.wire = <<>> /\ t.ch = <<>> /\ ~t.lagging
    BY <1>1, <1>2 DEF StreamRecords
  <2>3. Len(t.wire) = 0 /\ Len(t.ch) = 0
    BY <2>2, EmptySeq
  <2> QED
    BY <1>2, <2>1, <2>2, <2>3 DEF StreamOK, InOrder
<1>3. ASSUME NEW st \in {"got", "ended"}
      PROVE  StreamOK([s EXCEPT !.st = st], p)
  <2>1. [s EXCEPT !.st = st] = [s EXCEPT !.st = st, !.last = s.last]
    BY <1>1 DEF StreamRecords
  <2>2. s.last \in Nat
    BY <1>1, StreamFields
  <2> QED
    BY <1>2, <2>1, <2>2
<1> QED
  BY <1>2, <1>3

\* publishMsg: the next version is appended, or the subscription lags.
LEMMA PublishOK ==
  ASSUME NEW s, NEW p \in Nat, StreamOK(s, p), ~s.lagging,
         NEW m \in Versions, m.v = p + 1
  PROVE  StreamOK(IF s.st = "on" THEN PublishedTo(s, m) ELSE s, p + 1)
<1>1. s \in StreamRecords /\ InOrder(s)
  BY DEF StreamOK
<1>2. CASE s.st # "on"
  BY <1>2 DEF StreamOK
<1>3. CASE s.st = "on" /\ ~(Len(s.ch) < Buffer)
  <2> DEFINE t == [s EXCEPT !.lagging = TRUE]
  <2>1. t \in StreamRecords
    BY <1>1 DEF StreamRecords
  <2>2. t.st = "on" /\ t.lagging /\ t.wire = s.wire /\ t.ch = s.ch /\ t.last = s.last
    BY <1>1, <1>3 DEF StreamRecords
  <2>3. PublishedTo(s, m) = t
    BY <1>3 DEF PublishedTo
  <2> HIDE DEF t
  <2> QED
    BY <1>1, <1>3, <2>1, <2>2, <2>3 DEF StreamOK, InOrder
<1>4. CASE s.st = "on" /\ Len(s.ch) < Buffer
  <2> DEFINE c == Append(s.ch, m)
             t == [s EXCEPT !.ch = c]
  <2>1. c \in Seq(Versions) /\ Len(c) = Len(s.ch) + 1
    BY <1>1, StreamFields
  <2>2. \A i \in 1..Len(c) : c[i] = IF i <= Len(s.ch) THEN s.ch[i] ELSE m
    BY <1>1, StreamFields
  <2>3. PublishedTo(s, m) = t
    BY <1>4 DEF PublishedTo
  <2> HIDE DEF c
  <2>4. t \in StreamRecords
    BY <1>1, <2>1 DEF StreamRecords
  <2>5. t.st = "on" /\ ~t.lagging /\ t.wire = s.wire /\ t.ch = c /\ t.last = s.last
    BY <1>1, <1>4 DEF StreamRecords
  <2> HIDE DEF t
  <2>6. s.last + Len(s.wire) + Len(s.ch) = p /\ Len(s.ch) + 1 <= Buffer
    BY <1>1, <1>4, StreamFields, WatchAssumption DEF StreamOK
  <2>7. \A i \in 1..Len(c) : c[i].v = s.last + Len(s.wire) + i
    <3> SUFFICES ASSUME NEW i \in 1..Len(c)
                 PROVE  c[i].v = s.last + Len(s.wire) + i
      OBVIOUS
    <3>1. CASE i <= Len(s.ch)
      <4>1. c[i] = s.ch[i] /\ i \in 1..Len(s.ch)
        BY <1>1, <2>2, <3>1, StreamFields
      <4> QED
        BY <1>1, <4>1 DEF InOrder
    <3>2. CASE ~(i <= Len(s.ch))
      <4>1. i = Len(s.ch) + 1 /\ c[i] = m
        BY <1>1, <2>1, <2>2, <3>2, StreamFields
      <4>2. c[i].v = s.last + Len(s.wire) + Len(s.ch) + 1
        BY <2>6, <4>1
      <4>3. s.last \in Nat /\ Len(s.wire) \in Nat /\ Len(s.ch) \in Nat
        BY <1>1, StreamFields
      <4>4. s.last + Len(s.wire) + (Len(s.ch) + 1) = s.last + Len(s.wire) + Len(s.ch) + 1
        <5> DEFINE a == s.last
                   b == Len(s.wire)
                   k == Len(s.ch)
        <5>1. a \in Nat /\ b \in Nat /\ k \in Nat
          BY <4>3
        <5> HIDE DEF a, b, k
        <5>2. a + b + (k + 1) = a + b + k + 1
          BY <5>1
        <5> QED
          BY <5>2 DEF a, b, k
      <4> QED
        BY <4>1, <4>2, <4>4
    <3> QED
      BY <3>1, <3>2
  <2>8. InOrder(t)
    BY <1>1, <2>5, <2>7 DEF InOrder
  <2> QED
    <3>1. Len(t.ch) <= Buffer /\ Len(t.wire) <= Window
      BY <1>1, <2>1, <2>5, <2>6 DEF StreamOK
    <3>2. t.last + Len(t.wire) + Len(t.ch) = p + 1
      BY <1>1, <2>1, <2>5, <2>6, StreamFields
    <3>3. StreamOK(t, p + 1)
      BY <2>4, <2>8, <3>1, <3>2 DEF StreamOK
    <3> QED
      BY <1>4, <2>3, <3>3
<1> QED
  BY <1>2, <1>3, <1>4

\* removeSub, and the return of the handler.
LEMMA DropOK ==
  ASSUME NEW s, NEW p \in Nat, StreamOK(s, p)
  PROVE  /\ s.lagging => StreamOK([s EXCEPT !.st = "dropped", !.lagging = FALSE], p)
         /\ s.st = "dropped" => StreamOK([s EXCEPT !.st = "ended", !.ch = <<>>], p)
<1>1. s \in StreamRecords /\ InOrder(s)
  BY DEF StreamOK
<1>2. CASE s.lagging
  <2> DEFINE t == [s EXCEPT !.st = "dropped", !.lagging = FALSE]
  <2>1. t \in StreamRecords
    BY <1>1 DEF StreamRecords, StreamStates
  <2>2. t.st = "dropped" /\ ~t.lagging /\ t.wire = s.wire /\ t.ch = s.ch /\ t.last = s.last
    BY <1>1 DEF StreamRecords
  <2> HIDE DEF t
  <2>3. StreamOK(t, p)
    BY <1>1, <2>1, <2>2 DEF StreamOK, InOrder
  <2>4. s.st # "dropped"
    BY <1>1, <1>2 DEF InOrder
  <2> QED
    BY <2>3, <2>4 DEF t
<1>3. CASE s.st = "dropped"
  <2> DEFINE t == [s EXCEPT !.st = "ended", !.ch = <<>>]
  <2>1. t \in StreamRecords
    BY <1>1, EmptySeq DEF StreamRecords, StreamStates
  <2>2. t.st = "ended" /\ ~t.lagging /\ t.wire = s.wire /\ t.ch = <<>> /\ t.last = s.last
    BY <1>1, <1>3 DEF StreamRecords, InOrder
  <2>3. Len(t.ch) = 0
    BY <2>2, EmptySeq
  <2> HIDE DEF t
  <2>4. StreamOK(t, p)
    BY <1>1, <2>1, <2>2, <2>3, WatchAssumption DEF StreamOK, InOrder
  <2>5. ~s.lagging
    BY <1>1, <1>3 DEF InOrder
  <2> QED
    BY <2>4, <2>5 DEF t
<1> QED
  BY <1>2, <1>3

\* startSendLoop: one version moves from the buffer to the wire.
LEMMA SendOK ==
  ASSUME NEW s, NEW p \in Nat, StreamOK(s, p),
         s.st \in {"on", "dropped"}, s.ch # <<>>, Len(s.wire) < Window
  PROVE  StreamOK([s EXCEPT !.wire = Append(@, Head(s.ch)), !.ch = Tail(@)], p)
<1> DEFINE m == Head(s.ch)
           rest == Append(s.wire, m)
           ch == Tail(s.ch)
           t == [s EXCEPT !.wire = rest, !.ch = ch]
<1>1. s \in StreamRecords /\ InOrder(s)
  BY DEF StreamOK
<1>2. /\ s.ch \in Seq(Versions) /\ s.wire \in Seq(Versions) /\ s.last \in Nat
      /\ Len(s.ch) \in Nat /\ Len(s.wire) \in Nat
  BY <1>1, StreamFields
<1>3. Len(s.ch) > 0 /\ m \in Versions /\ m = s.ch[1]
  BY <1>2
<1>4. ch \in Seq(Versions) /\ Len(ch) = Len(s.ch) - 1 /\ \A i \in 1..Len(ch) : ch[i] = s.ch[i + 1]
  BY <1>2, <1>3
<1>5. /\ rest \in Seq(Versions) /\ Len(rest) = Len(s.wire) + 1
      /\ \A i \in 1..Len(rest) : rest[i] = IF i <= Len(s.wire) THEN s.wire[i] ELSE m
  BY <1>2, <1>3
<1> HIDE DEF m, rest, ch
<1>6. t \in StreamRecords
  BY <1>1, <1>4, <1>5 DEF StreamRecords
<1>7. t.st = s.st /\ t.lagging = s.lagging /\ t.wire = rest /\ t.ch = ch /\ t.last = s.last
  BY <1>1 DEF StreamRecords
<1>8. \A i \in 1..Len(rest) : rest[i].v = s.last + i
  <2> SUFFICES ASSUME NEW i \in 1..Len(rest)
               PROVE  rest[i].v = s.last + i
    OBVIOUS
  <2>1. CASE i <= Len(s.wire)
    <3>1. rest[i] = s.wire[i] /\ i \in 1..Len(s.wire)
      BY <1>2, <1>5, <2>1
    <3> QED
      BY <1>1, <3>1 DEF InOrder
  <2>2. CASE ~(i <= Len(s.wire))
    <3>1. i = Len(s.wire) + 1 /\ rest[i] = s.ch[1]
      BY <1>2, <1>3, <1>5, <2>2
    <3>2. s.ch[1].v = s.last + Len(s.wire) + 1
      BY <1>1, <1>2, <1>3 DEF InOrder
    <3>3. s.last + (Len(s.wire) + 1) = s.last + Len(s.wire) + 1
      <4> DEFINE a == s.last
                 b == Len(s.wire)
      <4>1. a \in Nat /\ b \in Nat
        BY <1>2
      <4> HIDE DEF a, b
      <4>2. a + (b + 1) = a + b + 1
        BY <4>1
      <4> QED
        BY <4>2 DEF a, b
    <3> QED
      BY <3>1, <3>2, <3>3
  <2> QED
    BY <2>1, <2>2
<1>9. \A i \in 1..Len(ch) : ch[i].v = s.last + Len(rest) + i
  <2> SUFFICES ASSUME NEW i \in 1..Len(ch)
               PROVE  ch[i].v = s.last + Len(rest) + i
    OBVIOUS
  <2>1. i + 1 \in 1..Len(s.ch) /\ ch[i] = s.ch[i + 1]
    BY <1>2, <1>4
  <2>2. ch[i].v = s.last + Len(s.wire) + (i + 1)
    BY <1>1, <2>1 DEF InOrder
  <2>3. Len(rest) = Len(s.wire) + 1 /\ s.last \in Nat /\ Len(s.wire) \in Nat
    BY <1>2, <1>5
  <2>4. s.last + (Len(s.wire) + 1) + i = s.last + Len(s.wire) + (i + 1)
    <3> DEFINE a == s.last
               b == Len(s.wire)
    <3>1. a \in Nat /\ b \in Nat
      BY <2>3
    <3> HIDE DEF a, b
    <3>2. a + (b + 1) + i = a + b + (i + 1)
      BY <3>1
    <3> QED
      BY <3>2 DEF a, b
  <2> QED
    BY <2>2, <2>3, <2>4
<1> HIDE DEF t
<1>10. InOrder(t)
  BY <1>1, <1>7, <1>8, <1>9 DEF InOrder
<1>11. Len(t.ch) <= Buffer /\ Len(t.wire) <= Window
  BY <1>2, <1>4, <1>5, <1>7, WatchAssumption DEF StreamOK
<1>12. t.last + Len(t.wire) + Len(t.ch) = s.last + Len(s.wire) + Len(s.ch)
  <2>1. /\ Len(t.wire) = Len(s.wire) + 1 /\ Len(t.ch) = Len(s.ch) - 1 /\ t.last = s.last
        /\ s.last \in Nat /\ Len(s.wire) \in Nat /\ Len(s.ch) \in Nat
    BY <1>2, <1>4, <1>5, <1>7
  <2>2. s.last + (Len(s.wire) + 1) + (Len(s.ch) - 1) = s.last + Len(s.wire) + Len(s.ch)
    <3> DEFINE a == s.last
               b == Len(s.wire)
               k == Len(s.ch)
    <3>1. a \in Nat /\ b \in Nat /\ k \in Nat
      BY <2>1
    <3> HIDE DEF a, b, k
    <3>2. a + (b + 1) + (k - 1) = a + b + k
      BY <3>1
    <3> QED
      BY <3>2 DEF a, b, k
  <2> QED
    BY <2>1, <2>2
<1>13. StreamOK(t, p)
  BY <1>6, <1>7, <1>10, <1>11, <1>12 DEF StreamOK
<1> QED
  BY <1>13 DEF t, rest, ch, m

\* consumeWatch: the client receives the next version.
LEMMA RecvOK ==
  ASSUME NEW s, NEW p \in Nat, StreamOK(s, p), s.wire # <<>>
  PROVE  /\ Head(s.wire) \in Versions
         /\ StreamOK([s EXCEPT !.wire = Tail(@), !.last = Head(s.wire).v], p)
<1> DEFINE m == Head(s.wire)
           rest == Tail(s.wire)
           t == [s EXCEPT !.wire = rest, !.last = m.v]
<1>1. s \in StreamRecords /\ InOrder(s)
  BY DEF StreamOK
<1>2. /\ s.ch \in Seq(Versions) /\ s.wire \in Seq(Versions) /\ s.last \in Nat
      /\ Len(s.ch) \in Nat /\ Len(s.wire) \in Nat
  BY <1>1, StreamFields
<1>3. Len(s.wire) > 0 /\ m \in Versions /\ m = s.wire[1]
  BY <1>2
<1>4. m.v \in Nat /\ m.v = s.last + 1
  BY <1>1, <1>2, <1>3 DEF InOrder, Versions
<1>5. /\ rest \in Seq(Versions) /\ Len(rest) = Len(s.wire) - 1
      /\ \A i \in 1..Len(rest) : rest[i] = s.wire[i + 1]
  BY <1>2, <1>3
<1> HIDE DEF m, rest
<1>6. t \in StreamRecords
  BY <1>1, <1>4, <1>5 DEF StreamRecords
<1>7. t.st = s.st /\ t.lagging = s.lagging /\ t.wire = rest /\ t.ch = s.ch /\ t.last = s.last + 1
  BY <1>1, <1>4 DEF StreamRecords
<1> HIDE DEF t
<1>8. \A i \in 1..Len(rest) : rest[i].v = (s.last + 1) + i
  <2> SUFFICES ASSUME NEW i \in 1..Len(rest)
               PROVE  rest[i].v = (s.last + 1) + i
    OBVIOUS
  <2>1. i + 1 \in 1..Len(s.wire) /\ rest[i] = s.wire[i + 1]
    BY <1>2, <1>5
  <2>2. rest[i].v = s.last + (i + 1)
    BY <1>1, <2>1 DEF InOrder
  <2> QED
    BY <1>2, <2>2
<1>9. (s.last + 1) + Len(rest) = s.last + Len(s.wire)
  <2>1. Len(rest) = Len(s.wire) - 1 /\ s.last \in Nat /\ Len(s.wire) \in Nat
    BY <1>2, <1>5
  <2> QED
    BY <2>1
<1>10. s.st \in {"on", "dropped", "ended"}
  BY <1>1 DEF InOrder
<1>11. InOrder(t)
  BY <1>1, <1>7, <1>8, <1>9, <1>10 DEF InOrder
<1>12. Len(t.ch) <= Buffer /\ Len(t.wire) <= Window
  BY <1>2, <1>5, <1>7, WatchAssumption DEF StreamOK
<1>13. t.last + Len(t.wire) + Len(t.ch) = s.last + Len(s.wire) + Len(s.ch)
  BY <1>2, <1>7, <1>9
<1>14. StreamOK(t, p)
  BY <1>6, <1>7, <1>11, <1>12, <1>13 DEF StreamOK
<1> QED
  BY <1>3, <1>14 DEF t, rest, m

-----------------------------------------------------------------------------
\* The invariant, with what it says of the streams put together.
StreamsOK == stream \in [Waiters -> StreamRecords] /\ \A w \in Waiters : StreamOK(stream[w], published)
FeedOK == ws \in Versions /\ feed \in Seq(Versions) /\ published \in Nat /\ FeedFollows
WaitsOK == wait \in [Waiters -> WaitRecords] /\ faults \in Nat

LEMMA InvParts ==
  /\ WatchIInv <=> StreamsOK /\ FeedOK /\ WaitsOK
  /\ WatchIInv' <=> StreamsOK' /\ FeedOK' /\ WaitsOK'
BY DEF WatchIInv, TypeOK, StreamsOK, StreamOK, UpToDate, FeedOK, WaitsOK

\* A step of one stream.
LEMMA OneStream ==
  ASSUME StreamsOK, NEW w \in Waiters, NEW t, StreamOK(t, published),
         stream' = [stream EXCEPT ![w] = t], published' = published
  PROVE  StreamsOK'
<1>1. t \in StreamRecords
  BY DEF StreamOK
<1>2. stream' \in [Waiters -> StreamRecords]
  BY <1>1 DEF StreamsOK
<1>3. \A x \in Waiters : stream'[x] = IF x = w THEN t ELSE stream[x]
  BY DEF StreamsOK
<1> QED
  BY <1>2, <1>3 DEF StreamsOK

LEMMA FeedFrame == FeedOK /\ UNCHANGED <<ws, feed, published>> => FeedOK'
BY DEF FeedOK, FeedFollows

\* The next version is announced after those that wait to be published.
LEMMA WriteFeed ==
  ASSUME FeedOK, Write
  PROVE  FeedOK'
<1>1. /\ ws.v \in Nat /\ ws.st \in States /\ feed \in Seq(Versions) /\ Len(feed) \in Nat
      /\ published \in Nat /\ published' = published
  BY DEF FeedOK, Versions, Write
<1>2. PICK st \in Follows(ws.st) : ws' = [v |-> ws.v + 1, st |-> st]
  BY DEF Write
<1>3. st \in States
  BY <1>1, <1>2 DEF Follows, States
<1>4. ws' \in Versions /\ ws'.v = ws.v + 1
  BY <1>1, <1>2, <1>3 DEF Versions
<1>5. feed' = Append(feed, ws')
  BY DEF Write
<1>6. /\ feed' \in Seq(Versions) /\ Len(feed') = Len(feed) + 1
      /\ \A i \in 1..Len(feed') : feed'[i] = IF i <= Len(feed) THEN feed[i] ELSE ws'
  BY <1>1, <1>4, <1>5
<1>7. \A i \in 1..Len(feed) : feed[i].v = published + i
  BY DEF FeedOK, FeedFollows
<1>8. ws'.v = published + Len(feed')
  BY <1>1, <1>4, <1>6 DEF FeedOK, FeedFollows
<1>9. ASSUME NEW i \in 1..Len(feed')
      PROVE  feed'[i].v = published + i
  <2>1. CASE i <= Len(feed)
    <3>1. feed'[i] = feed[i] /\ i \in 1..Len(feed)
      BY <1>1, <1>6, <2>1
    <3> QED
      BY <1>7, <3>1
  <2>2. CASE ~(i <= Len(feed))
    <3>1. feed'[i] = ws' /\ i = Len(feed')
      BY <1>1, <1>6, <2>2
    <3> QED
      BY <1>8, <3>1
  <2> QED
    BY <2>1, <2>2
<1> QED
  BY <1>1, <1>4, <1>6, <1>8, <1>9 DEF FeedOK, FeedFollows

\* publishMsg takes the next version, one more than the last.
LEMMA PublishFeed ==
  ASSUME FeedOK, feed # <<>>, published' = Head(feed).v, feed' = Tail(feed), ws' = ws
  PROVE  FeedOK' /\ Head(feed) \in Versions /\ Head(feed).v = published + 1
<1>1. /\ ws.v \in Nat /\ feed \in Seq(Versions) /\ Len(feed) \in Nat /\ published \in Nat
  BY DEF FeedOK, Versions
<1>2. Len(feed) > 0 /\ Head(feed) = feed[1] /\ Head(feed) \in Versions
  BY <1>1
<1>3. \A i \in 1..Len(feed) : feed[i].v = published + i
  BY DEF FeedOK, FeedFollows
<1>4. published' = published + 1
  BY <1>1, <1>2, <1>3
<1>5. /\ feed' \in Seq(Versions) /\ Len(feed') = Len(feed) - 1
      /\ \A i \in 1..Len(feed') : feed'[i] = feed[i + 1]
  BY <1>1, <1>2
<1>6. ASSUME NEW i \in 1..Len(feed')
      PROVE  feed'[i].v = published' + i
  <2>1. feed'[i].v = published + (i + 1)
    BY <1>1, <1>3, <1>5
  <2> QED
    BY <1>1, <1>4, <2>1
<1>7. ws'.v = published' + Len(feed')
  BY <1>1, <1>4, <1>5 DEF FeedOK, FeedFollows
<1> QED
  BY <1>1, <1>2, <1>4, <1>5, <1>6, <1>7 DEF FeedOK, FeedFollows

LEMMA PublishInv ==
  ASSUME WatchIInv, PublishMsg
  PROVE  WatchIInv'
<1> DEFINE m == Head(feed)
           New(w) == IF stream[w].st = "on" THEN PublishedTo(stream[w], m) ELSE stream[w]
<1>1. StreamsOK /\ FeedOK /\ WaitsOK /\ published \in Nat
  BY InvParts DEF FeedOK
<1>2. FeedOK' /\ m \in Versions /\ m.v = published + 1 /\ published' = published + 1
  BY <1>1, PublishFeed DEF PublishMsg
<1>3. stream' = [w \in Waiters |-> New(w)]
  BY DEF PublishMsg
<1>4. ASSUME NEW w \in Waiters
      PROVE  StreamOK(New(w), published + 1)
  <2>1. StreamOK(stream[w], published) /\ ~stream[w].lagging
    BY <1>1 DEF StreamsOK, PublishMsg
  <2> HIDE DEF m
  <2> QED
    BY <1>1, <1>2, <2>1, PublishOK
<1> HIDE DEF New
<1>5. \A w \in Waiters : New(w) \in StreamRecords
  BY <1>4 DEF StreamOK
<1>6. stream' \in [Waiters -> StreamRecords] /\ \A w \in Waiters : stream'[w] = New(w)
  BY <1>3, <1>5
<1>7. StreamsOK'
  BY <1>2, <1>4, <1>6 DEF StreamsOK
<1>8. WaitsOK'
  BY <1>1 DEF WaitsOK, PublishMsg
<1> QED
  BY <1>2, <1>7, <1>8, InvParts

\* What a wait does with a version leaves its record a record of a wait.
LEMMA JudgeOK ==
  ASSUME WaitsOK, NEW w \in Waiters, NEW m, NEW next \in PCs, Judge(w, m, next)
  PROVE  wait' \in [Waiters -> WaitRecords]
<1> DEFINE verdict == Cond(wait[w].until, m.st)
<1>1. verdict \in {"none", "done", "stopped", "deleted"}
  BY DEF Cond
<1>2. \/ wait' = [wait EXCEPT ![w].pc = next]
      \/ verdict # "none" /\ wait' = [wait EXCEPT ![w].pc = "over", ![w].result = verdict]
  BY DEF Judge
<1> HIDE DEF verdict
<1>3. wait \in [Waiters -> WaitRecords]
  BY DEF WaitsOK
<1>4. CASE wait' = [wait EXCEPT ![w].pc = next]
  BY <1>3, <1>4 DEF WaitRecords
<1>5. CASE verdict # "none" /\ wait' = [wait EXCEPT ![w].pc = "over", ![w].result = verdict]
  <2>1. [wait[w] EXCEPT !.pc = "over", !.result = verdict] \in WaitRecords
    BY <1>1, <1>3, <1>5 DEF WaitRecords, PCs
  <2> QED
    BY <1>3, <1>5, <2>1
<1> QED
  BY <1>2, <1>4, <1>5

\* The steps of the handler of one stream.
LEMMA ServerInv ==
  ASSUME WatchIInv, NEW w \in Waiters, Server(w)
  PROVE  WatchIInv'
<1> DEFINE s == stream[w]
<1>1. StreamsOK /\ FeedOK /\ WaitsOK /\ published \in Nat /\ StreamOK(s, published)
  BY InvParts DEF StreamsOK, FeedOK
<1>2. FeedOK' /\ WaitsOK' /\ published' = published
  BY <1>1, FeedFrame DEF WaitsOK, Server, WatchGet, NewSub, RemoveSub, Send, Return
<1>3. \E t : StreamOK(t, published) /\ stream' = [stream EXCEPT ![w] = t]
  <2>1. CASE WatchGet(w)
    <3>1. \E st \in {"got", "ended"} : stream' = [stream EXCEPT ![w] = [s EXCEPT !.st = st]]
      BY <2>1 DEF WatchGet
    <3> QED
      BY <1>1, <2>1, <3>1, SubscribeOK DEF WatchGet
  <2>2. CASE NewSub(w)
    <3>1. stream' = [stream EXCEPT ![w] = [s EXCEPT !.st = "on", !.last = published]]
      BY <1>1, <2>2 DEF NewSub, StreamsOK
    <3> QED
      BY <1>1, <2>2, <3>1, SubscribeOK DEF NewSub
  <2>3. CASE RemoveSub(w)
    <3>1. stream' = [stream EXCEPT ![w] = [s EXCEPT !.st = "dropped", !.lagging = FALSE]]
      BY <1>1, <2>3 DEF RemoveSub, StreamsOK
    <3> QED
      BY <1>1, <2>3, <3>1, DropOK DEF RemoveSub
  <2>4. CASE Send(w)
    <3>1. stream' = [stream EXCEPT ![w] = [s EXCEPT !.wire = Append(@, Head(s.ch)), !.ch = Tail(@)]]
      BY <1>1, <2>4 DEF Send, StreamsOK
    <3> QED
      BY <1>1, <2>4, <3>1, SendOK DEF Send
  <2>5. CASE Return(w)
    <3>1. stream' = [stream EXCEPT ![w] = [s EXCEPT !.st = "ended", !.ch = <<>>]]
      BY <1>1, <2>5 DEF Return, StreamsOK
    <3> QED
      BY <1>1, <2>5, <3>1, DropOK DEF Return
  <2> QED
    BY <2>1, <2>2, <2>3, <2>4, <2>5 DEF Server
<1>4. StreamsOK'
  BY <1>1, <1>2, <1>3, OneStream
<1> QED
  BY <1>2, <1>4, InvParts

\* The steps of the client, and what breaks its stream.
LEMMA ClientInv ==
  ASSUME WatchIInv, NEW w \in Waiters,
         Client(w) \/ StreamBreaks(w) \/ WaitFor(w) \/ Poll(w) \/ GiveUp(w)
  PROVE  WatchIInv'
<1> DEFINE s == stream[w]
<1>1. StreamsOK /\ FeedOK /\ WaitsOK /\ published \in Nat /\ StreamOK(s, published)
  BY InvParts DEF StreamsOK, FeedOK
<1>2. FeedOK' /\ published' = published
  BY <1>1, FeedFrame
     DEF Client, WatchWorkspace, Reconcile, Recv, RecvEnd, Backoff, StreamBreaks, WaitFor, Poll, GiveUp
<1>3. faults' \in Nat
  BY <1>1 DEF Client, WatchWorkspace, Reconcile, Recv, RecvEnd, Backoff, StreamBreaks, WaitFor,
              Poll, GiveUp, Fault, WaitsOK
<1>4. wait' \in [Waiters -> WaitRecords]
  <2>1. CASE WatchWorkspace(w)
    BY <1>1, <2>1 DEF WatchWorkspace, WaitsOK, WaitRecords, PCs
  <2>2. CASE Reconcile(w)
    <3> DEFINE next == IF stream[w].st = "failed" THEN "backoff" ELSE "consume"
    <3>1. next \in PCs
      BY DEF PCs
    <3>2. Judge(w, ws, next) \/ wait' = [wait EXCEPT ![w].pc = next]
      BY <2>2 DEF Reconcile
    <3> HIDE DEF next
    <3>3. CASE wait' = [wait EXCEPT ![w].pc = next]
      BY <1>1, <3>1, <3>3 DEF WaitsOK, WaitRecords
    <3> QED
      BY <1>1, <3>1, <3>2, <3>3, JudgeOK
  <2>3. CASE Recv(w)
    <3>1. "consume" \in PCs
      BY DEF PCs
    <3>2. Judge(w, Head(stream[w].wire), "consume")
      BY <2>3 DEF Recv
    <3> QED
      BY <1>1, <3>1, <3>2, JudgeOK
  <2>4. CASE RecvEnd(w)
    BY <1>1, <2>4 DEF RecvEnd, WaitsOK, WaitRecords, PCs
  <2>5. CASE Backoff(w)
    BY <1>1, <2>5 DEF Backoff, WaitsOK, WaitRecords, PCs
  <2>6. CASE StreamBreaks(w)
    BY <1>1, <2>6 DEF StreamBreaks, WaitsOK
  <2>7. CASE WaitFor(w)
    BY <1>1, <2>7 DEF WaitFor, WaitsOK, WaitRecords, PCs
  <2>8. CASE Poll(w)
    <3>1. "consume" \in PCs
      BY DEF PCs
    <3> QED
      BY <1>1, <2>8, <3>1, JudgeOK DEF Poll
  <2>9. CASE GiveUp(w)
    <3>1. wait' = [wait EXCEPT ![w].pc = "over", ![w].result = "error"]
      BY <2>9 DEF GiveUp
    <3>2. wait[w] \in WaitRecords
      BY <1>1 DEF WaitsOK
    <3>3. [wait[w] EXCEPT !.pc = "over", !.result = "error"] \in WaitRecords
      BY <3>2 DEF WaitRecords, PCs
    <3> QED
      BY <1>1, <3>1, <3>3 DEF WaitsOK
  <2> QED
    BY <2>1, <2>2, <2>3, <2>4, <2>5, <2>6, <2>7, <2>8, <2>9 DEF Client
<1>5. \E t : StreamOK(t, published) /\ stream' = [stream EXCEPT ![w] = t]
  <2>0. stream = [stream EXCEPT ![w] = s]
    BY <1>1 DEF StreamsOK
  <2>1. CASE WatchWorkspace(w)
    <3>1. \E st \in {"asked", "failed"} : stream' = [stream EXCEPT ![w] = [NoStream EXCEPT !.st = st]]
      BY <2>1 DEF WatchWorkspace
    <3> QED
      BY <1>1, <3>1, FreshOK
  <2>2. CASE Reconcile(w) \/ Poll(w)
    BY <1>1, <2>2, NoStreamOK DEF Reconcile, Poll, Streaming
  <2>3. CASE Recv(w)
    BY <1>1, <2>3, NoStreamOK, RecvOK DEF Recv, Streaming
  <2>4. CASE RecvEnd(w) \/ Backoff(w) \/ GiveUp(w)
    BY <1>1, <2>4, NoStreamOK DEF RecvEnd, Backoff, GiveUp
  <2>5. CASE StreamBreaks(w)
    BY <1>1, <2>5, FreshOK DEF StreamBreaks
  <2>6. CASE WaitFor(w)
    BY <1>1, <2>0, <2>6 DEF WaitFor
  <2> QED
    BY <2>1, <2>2, <2>3, <2>4, <2>5, <2>6 DEF Client
<1>6. StreamsOK'
  BY <1>1, <1>2, <1>5, OneStream
<1> QED
  BY <1>2, <1>3, <1>4, <1>6, InvParts DEF WaitsOK

LEMMA InitInv == Init => WatchIInv
<1> SUFFICES ASSUME Init
             PROVE  WatchIInv
  OBVIOUS
<1>1. FeedOK
  BY EmptySeq DEF Init, FeedOK, FeedFollows, Versions, States
<1>2. WaitsOK
  BY DEF Init, WaitsOK, WaitRecords, PCs
<1>3. StreamsOK
  <2>1. published \in Nat /\ StreamOK(NoStream, published)
    BY NoStreamOK DEF Init
  <2>2. NoStream \in StreamRecords
    BY <2>1 DEF StreamOK
  <2> QED
    BY <2>1, <2>2 DEF Init, StreamsOK
<1> QED
  BY <1>1, <1>2, <1>3, InvParts

LEMMA InvNext == WatchIInv /\ [Next]_vars => WatchIInv'
<1> SUFFICES ASSUME WatchIInv, [Next]_vars
             PROVE  WatchIInv'
  OBVIOUS
<1>1. CASE Write
  <2>1. StreamsOK' /\ WaitsOK'
    BY <1>1, InvParts DEF Write, StreamsOK, WaitsOK
  <2> QED
    BY <1>1, <2>1, InvParts, WriteFeed
<1>2. CASE PublishMsg
  BY <1>2, PublishInv
<1>3. ASSUME NEW w \in Waiters, Server(w)
      PROVE  WatchIInv'
  BY <1>3, ServerInv
<1>4. ASSUME NEW w \in Waiters,
             Client(w) \/ StreamBreaks(w) \/ WaitFor(w) \/ Poll(w) \/ GiveUp(w)
      PROVE  WatchIInv'
  BY <1>4, ClientInv
<1>5. CASE UNCHANGED vars
  <2>1. StreamsOK' /\ FeedOK' /\ WaitsOK'
    BY <1>5, InvParts, FeedFrame DEF vars, StreamsOK, WaitsOK
  <2> QED
    BY <2>1, InvParts
<1> QED
  BY <1>1, <1>2, <1>3, <1>4, <1>5 DEF Next

LEMMA WatchIInvHolds == Spec => []WatchIInv
BY InitInv, InvNext, PTL DEF Spec

LEMMA ConcatItems ==
  ASSUME NEW S, NEW a \in Seq(S), NEW b \in Seq(S)
  PROVE  /\ Len(a \o b) = Len(a) + Len(b)
         /\ \A i \in 1..Len(a \o b) : i <= Len(a) => (a \o b)[i] = a[i]
         /\ \A i \in 1..Len(a \o b) : ~(i <= Len(a)) => (a \o b)[i] = b[i - Len(a)]
OBVIOUS

\* What a stream has for its client goes on from what the client has received.
LEMMA PendingInOrder ==
  ASSUME NEW w \in Waiters, StreamOK(stream[w], published)
  PROVE  /\ Len(Pending(w)) = Len(stream[w].wire) + Len(stream[w].ch)
         /\ \A i \in 1..Len(Pending(w)) : Pending(w)[i].v = stream[w].last + i
<1> DEFINE s == stream[w]
<1>1. s \in StreamRecords /\ InOrder(s)
  BY DEF StreamOK
<1>2. /\ s.ch \in Seq(Versions) /\ s.wire \in Seq(Versions) /\ s.last \in Nat
      /\ Len(s.ch) \in Nat /\ Len(s.wire) \in Nat
  BY <1>1, StreamFields
<1>3. /\ Len(Pending(w)) = Len(s.wire) + Len(s.ch)
      /\ \A i \in 1..Len(Pending(w)) : i <= Len(s.wire) => Pending(w)[i] = s.wire[i]
      /\ \A i \in 1..Len(Pending(w)) :
           ~(i <= Len(s.wire)) => Pending(w)[i] = s.ch[i - Len(s.wire)]
  BY <1>2, ConcatItems DEF Pending
<1>4. ASSUME NEW i \in 1..Len(Pending(w))
      PROVE  Pending(w)[i].v = s.last + i
  <2>1. CASE i <= Len(s.wire)
    <3>1. i \in 1..Len(s.wire)
      BY <1>2, <1>3, <2>1
    <3>2. Pending(w)[i] = s.wire[i]
      BY <1>3, <2>1, Zenon
    <3> QED
      BY <1>1, <3>1, <3>2 DEF InOrder
  <2>2. CASE ~(i <= Len(s.wire))
    <3>0. Pending(w)[i] = s.ch[i - Len(s.wire)]
      BY <1>3, <2>2, Zenon
    <3>1. i - Len(s.wire) \in 1..Len(s.ch)
      <4> DEFINE a == Len(s.wire)
                 k == Len(s.ch)
      <4>1. a \in Nat /\ k \in Nat /\ i \in 1..(a + k) /\ ~(i <= a)
        BY <1>2, <1>3, <2>2
      <4> HIDE DEF a, k
      <4>2. i - a \in 1..k
        BY <4>1
      <4> QED
        BY <4>2 DEF a, k
    <3>2. Pending(w)[i].v = s.last + Len(s.wire) + (i - Len(s.wire))
      BY <1>1, <3>0, <3>1 DEF InOrder
    <3> DEFINE a == s.last
               b == Len(s.wire)
    <3>3. a \in Nat /\ b \in Nat /\ i \in Nat
      BY <1>2, <1>3
    <3> HIDE DEF a, b
    <3>4. a + b + (i - b) = a + i
      BY <3>3
    <3> QED
      BY <3>2, <3>4 DEF a, b
  <2> QED
    BY <2>1, <2>2
<1> QED
  BY <1>3, <1>4

\* However slow its client is, however often it breaks, and whenever it is dropped as
\* lagging: a stream hands over the versions one by one, in order, none twice and none
\* left out, and a subscription that does not lag is up to date (publishMsg, removeSub,
\* startSendLoop).
THEOREM WatchCorrect == Spec => []WatchInv
<1>1. WatchIInv => WatchInv
  <2> SUFFICES ASSUME WatchIInv
               PROVE  Gapless
    BY DEF WatchIInv, WatchInv
  <2>1. \A w \in Waiters : StreamOK(stream[w], published)
    BY InvParts DEF StreamsOK
  <2> SUFFICES ASSUME NEW w \in Waiters
               PROVE  /\ \A i \in 1..Len(Pending(w)) : Pending(w)[i].v = stream[w].last + i
                      /\ stream[w].st = "on" /\ ~stream[w].lagging
                           => stream[w].last + Len(Pending(w)) = published
    BY DEF Gapless
  <2>2. stream[w] \in StreamRecords
    BY <2>1 DEF StreamOK
  <2>3. stream[w].last + (Len(stream[w].wire) + Len(stream[w].ch))
          = stream[w].last + Len(stream[w].wire) + Len(stream[w].ch)
    <3> DEFINE a == stream[w].last
               b == Len(stream[w].wire)
               k == Len(stream[w].ch)
    <3>1. a \in Nat /\ b \in Nat /\ k \in Nat
      BY <2>2, StreamFields
    <3> HIDE DEF a, b, k
    <3>2. a + (b + k) = a + b + k
      BY <3>1
    <3> QED
      BY <3>2 DEF a, b, k
  <2> QED
    BY <2>1, <2>3, PendingInOrder DEF StreamOK
<1> QED
  BY <1>1, WatchIInvHolds, PTL
-----------------------------------------------------------------------------
(* Sequences that are put one behind the other. *)

LEMMA SplitIndex ==
  ASSUME NEW m \in Nat, NEW n \in Nat, NEW i \in 1..m + n
  PROVE  i \in 1..m \/ \E k \in 1..n : i = m + k
<1>1. CASE i <= m
  BY <1>1
<1>2. CASE ~(i <= m)
  <2>1. i - m \in 1..n /\ i = m + (i - m)
    BY <1>2
  <2> QED
    BY <2>1
<1> QED
  BY <1>1, <1>2

LEMMA ConcatFacts ==
  ASSUME NEW S, NEW s \in Seq(S), NEW t \in Seq(S)
  PROVE  /\ s \o t \in Seq(S) /\ Len(s \o t) = Len(s) + Len(t)
         /\ Len(s) \in Nat /\ Len(t) \in Nat
         /\ \A i \in 1..Len(s) : (s \o t)[i] = s[i]
         /\ \A i \in 1..Len(t) : (s \o t)[Len(s) + i] = t[i]
         /\ \A i \in 1..Len(s \o t) :
              i \in 1..Len(s) \/ \E k \in 1..Len(t) : i = Len(s) + k
<1>1. Len(s \o t) = Len(s) + Len(t) /\ Len(s) \in Nat /\ Len(t) \in Nat
  OBVIOUS
<1>2. ASSUME NEW i \in 1..Len(s \o t)
      PROVE  i \in 1..Len(s) \/ \E k \in 1..Len(t) : i = Len(s) + k
  <2>1. i \in 1..Len(s) + Len(t)
    BY <1>1
  <2> QED
    BY <1>1, <2>1, SplitIndex
<1> QED
  BY <1>2

-----------------------------------------------------------------------------
(* ExecSession. *)

\* Chunks in order, and chunks in order with those behind them.
Sorted(s) == \A i, j \in 1..Len(s) : i < j => Precedes(s[i], s[j])
Before(s, t) == \A i \in 1..Len(s), j \in 1..Len(t) : Precedes(s[i], t[j])

LEMMA ConcatSorted ==
  ASSUME NEW S, NEW s \in Seq(S), NEW t \in Seq(S)
  PROVE  Sorted(s \o t) <=> Sorted(s) /\ Sorted(t) /\ Before(s, t)
<1>0. /\ s \o t \in Seq(S) /\ Len(s \o t) = Len(s) + Len(t)
      /\ Len(s) \in Nat /\ Len(t) \in Nat
      /\ \A i \in 1..Len(s) : (s \o t)[i] = s[i]
      /\ \A i \in 1..Len(t) : (s \o t)[Len(s) + i] = t[i]
      /\ \A i \in 1..Len(s \o t) : i \in 1..Len(s) \/ \E k \in 1..Len(t) : i = Len(s) + k
  BY ConcatFacts
<1>1. ASSUME Sorted(s \o t) PROVE Sorted(s) /\ Sorted(t) /\ Before(s, t)
  <2>1. Sorted(s)
    BY <1>1, <1>0 DEF Sorted
  <2>2. \A i \in 1..Len(t) : Len(s) + i \in 1..Len(s \o t)
    <3>1. Len(s \o t) = Len(s) + Len(t) /\ Len(s) \in Nat /\ Len(t) \in Nat
      BY <1>0
    <3> QED
      BY <3>1
  <2>3. ASSUME NEW i \in 1..Len(t), NEW j \in 1..Len(t), i < j PROVE Precedes(t[i], t[j])
    <3>1. /\ Len(s) + i \in 1..Len(s \o t) /\ Len(s) + j \in 1..Len(s \o t)
          /\ Len(s) + i < Len(s) + j
      BY <2>2, <2>3, <1>0
    <3> QED
      BY <1>1, <3>1, <1>0 DEF Sorted
  <2>4. ASSUME NEW i \in 1..Len(s), NEW j \in 1..Len(t) PROVE Precedes(s[i], t[j])
    <3>1. i \in 1..Len(s \o t) /\ Len(s) + j \in 1..Len(s \o t) /\ i < Len(s) + j
      BY <1>0
    <3> QED
      BY <1>1, <3>1, <1>0 DEF Sorted
  <2> QED
    BY <2>1, <2>3, <2>4 DEF Sorted, Before
<1>2. ASSUME Sorted(s), Sorted(t), Before(s, t) PROVE Sorted(s \o t)
  <2> SUFFICES ASSUME NEW i \in 1..Len(s \o t), NEW j \in 1..Len(s \o t), i < j
               PROVE  Precedes((s \o t)[i], (s \o t)[j])
    BY DEF Sorted
  <2>1. CASE j \in 1..Len(s)
    <3>1. i \in 1..Len(s) /\ (s \o t)[i] = s[i] /\ (s \o t)[j] = s[j]
      BY <2>1, <1>0
    <3> QED
      BY <1>2, <2>1, <3>1 DEF Sorted
  <2>2. CASE i \in 1..Len(s) /\ j \notin 1..Len(s)
    <3>1. PICK l \in 1..Len(t) : j = Len(s) + l
      BY <2>2, <1>0
    <3>2. (s \o t)[i] = s[i] /\ (s \o t)[j] = t[l]
      BY <2>2, <3>1, <1>0
    <3> QED
      BY <1>2, <2>2, <3>1, <3>2 DEF Before
  <2>3. CASE i \notin 1..Len(s)
    <3>1. PICK k \in 1..Len(t) : i = Len(s) + k
      BY <2>3, <1>0
    <3>2. j \notin 1..Len(s)
      BY <2>3, <1>0
    <3>3. PICK l \in 1..Len(t) : j = Len(s) + l
      BY <3>2, <1>0
    <3>4. (s \o t)[i] = t[k] /\ (s \o t)[j] = t[l] /\ k < l
      BY <3>1, <3>3, <1>0
    <3> QED
      BY <1>2, <3>1, <3>3, <3>4 DEF Sorted
  <2> QED
    BY <2>1, <2>2, <2>3
<1> QED
  BY <1>1, <1>2

LEMMA ConcatBefore ==
  ASSUME NEW S, NEW s \in Seq(S), NEW t \in Seq(S), NEW u \in Seq(S)
  PROVE  /\ Before(s \o t, u) <=> Before(s, u) /\ Before(t, u)
         /\ Before(u, s \o t) <=> Before(u, s) /\ Before(u, t)
<1>0. /\ s \o t \in Seq(S) /\ Len(s \o t) = Len(s) + Len(t)
      /\ Len(s) \in Nat /\ Len(t) \in Nat
      /\ \A i \in 1..Len(s) : (s \o t)[i] = s[i]
      /\ \A i \in 1..Len(t) : (s \o t)[Len(s) + i] = t[i]
      /\ \A i \in 1..Len(s \o t) : i \in 1..Len(s) \/ \E k \in 1..Len(t) : i = Len(s) + k
  BY ConcatFacts
<1>2. /\ \A k \in 1..Len(s) : k \in 1..Len(s \o t)
      /\ \A k \in 1..Len(t) : Len(s) + k \in 1..Len(s \o t)
  BY <1>0
<1>3. Before(s \o t, u) <=> Before(s, u) /\ Before(t, u)
  <2>1. ASSUME Before(s \o t, u) PROVE Before(s, u) /\ Before(t, u)
    BY <1>2, <1>0, <2>1 DEF Before
  <2>2. ASSUME Before(s, u), Before(t, u) PROVE Before(s \o t, u)
    BY <1>0, <2>2 DEF Before
  <2> QED
    BY <2>1, <2>2
<1>4. Before(u, s \o t) <=> Before(u, s) /\ Before(u, t)
  <2>1. ASSUME Before(u, s \o t) PROVE Before(u, s) /\ Before(u, t)
    BY <1>2, <1>0, <2>1 DEF Before
  <2>2. ASSUME Before(u, s), Before(u, t) PROVE Before(u, s \o t)
    BY <1>0, <2>2 DEF Before
  <2> QED
    BY <2>1, <2>2
<1> QED
  BY <1>3, <1>4

\* v and w may take the places of s and t.
Moved(s, t, v, w) ==
  /\ Sorted(s) /\ Sorted(t) /\ Before(s, t) => Sorted(v) /\ Sorted(w) /\ Before(v, w)
  /\ \A u : Before(u, s) /\ Before(u, t) => Before(u, v) /\ Before(u, w)
  /\ \A u : Before(s, u) /\ Before(t, u) => Before(v, u) /\ Before(w, u)

LEMMA HeadKept ==
  ASSUME NEW S, NEW s \in Seq(S), NEW t \in Seq(S), t # <<>>
  PROVE  Append(s, Head(t)) \in Seq(S) /\ Tail(t) \in Seq(S) /\ Head(t) \in S
  OBVIOUS

LEMMA AppendKept ==
  ASSUME NEW S, NEW s \in Seq(S), NEW x \in S
  PROVE  Append(s, x) \in Seq(S)
  OBVIOUS

\* The head of a sequence may go to the end of the one before it.
LEMMA HeadMoves ==
  ASSUME NEW S, NEW s \in Seq(S), NEW t \in Seq(S), t # <<>>
  PROVE  Moved(s, t, Append(s, Head(t)), Tail(t))
<1> DEFINE v == Append(s, Head(t))
           w == Tail(t)
<1>1. /\ Len(s) \in Nat /\ Len(t) \in Nat /\ Len(w) = Len(t) - 1 /\ 1 \in 1..Len(t)
      /\ \A i \in 1..Len(w) : i + 1 \in 1..Len(t) /\ w[i] = t[i + 1]
  OBVIOUS
<1>2. /\ Len(v) = Len(s) + 1 /\ v[Len(s) + 1] = t[1]
      /\ \A i \in 1..Len(s) : v[i] = s[i]
  <2>1. Head(t) \in S /\ Head(t) = t[1]
    OBVIOUS
  <2> QED
    BY <2>1
<1> HIDE DEF v, w
<1>3. \A i \in 1..Len(v) : i \in 1..Len(s) \/ i = Len(s) + 1
  BY <1>1, <1>2
<1>4. ASSUME Sorted(s), Sorted(t), Before(s, t)
      PROVE  Sorted(v) /\ Sorted(w) /\ Before(v, w)
  <2>1. Sorted(v)
    <3> SUFFICES ASSUME NEW i \in 1..Len(v), NEW j \in 1..Len(v), i < j
                 PROVE  Precedes(v[i], v[j])
      BY DEF Sorted
    <3>0. j \in 1..Len(s) \/ j = Len(s) + 1
      BY <1>3
    <3>1. i \in 1..Len(s) /\ v[i] = s[i]
      BY <1>1, <1>2, <1>3
    <3>2. CASE j \in 1..Len(s)
      BY <1>2, <1>4, <3>1, <3>2 DEF Sorted
    <3>3. CASE j = Len(s) + 1
      BY <1>1, <1>2, <1>4, <3>1, <3>3 DEF Before
    <3> QED
      BY <3>0, <3>2, <3>3
  <2>2. Sorted(w)
    <3> SUFFICES ASSUME NEW i \in 1..Len(w), NEW j \in 1..Len(w), i < j
                 PROVE  Precedes(w[i], w[j])
      BY DEF Sorted
    <3>1. /\ i + 1 \in 1..Len(t) /\ j + 1 \in 1..Len(t) /\ i + 1 < j + 1
          /\ w[i] = t[i + 1] /\ w[j] = t[j + 1]
      BY <1>1
    <3> QED
      BY <1>4, <3>1 DEF Sorted
  <2>3. Before(v, w)
    BY <1>1, <1>2, <1>3, <1>4 DEF Sorted, Before
  <2> QED
    BY <2>1, <2>2, <2>3
<1>5. ASSUME NEW u, Before(u, s), Before(u, t) PROVE Before(u, v) /\ Before(u, w)
  BY <1>1, <1>2, <1>3, <1>5 DEF Before
<1>6. ASSUME NEW u, Before(s, u), Before(t, u) PROVE Before(v, u) /\ Before(w, u)
  BY <1>1, <1>2, <1>3, <1>6 DEF Before
<1> QED
  BY <1>4, <1>5, <1>6 DEF Moved, v, w

\* The Exit may come anywhere, and a chunk that is later than all at the end.
LEMMA ExitInOrder ==
  ASSUME NEW S, NEW s \in Seq(S), Exit \in S
  PROVE  /\ Sorted(s) => Sorted(Append(s, Exit))
         /\ \A u : Before(u, s) => Before(u, Append(s, Exit))
         /\ \A u : Before(s, u) => Before(Append(s, Exit), u)
<1> DEFINE v == Append(s, Exit)
<1>1. /\ Len(s) \in Nat /\ Len(v) = Len(s) + 1 /\ v[Len(s) + 1] = Exit
      /\ \A i \in 1..Len(s) : v[i] = s[i]
  OBVIOUS
<1> HIDE DEF v
<1>2. \A i \in 1..Len(v) : i \in 1..Len(s) \/ v[i] = Exit
  BY <1>1
<1>3. \A m : Precedes(m, Exit) /\ Precedes(Exit, m)
  BY DEF Precedes
<1> QED
  BY <1>1, <1>2, <1>3 DEF Sorted, Before, v

LEMMA LaterInOrder ==
  ASSUME NEW S, NEW s \in Seq(S), NEW x \in S, Sorted(s),
         \A i \in 1..Len(s) : Precedes(s[i], x)
  PROVE  Sorted(Append(s, x))
<1> DEFINE v == Append(s, x)
<1>1. /\ Len(s) \in Nat /\ Len(v) = Len(s) + 1 /\ v[Len(s) + 1] = x
      /\ \A i \in 1..Len(s) : v[i] = s[i]
  OBVIOUS
<1> HIDE DEF v
<1>2. \A i \in 1..Len(v) : i \in 1..Len(s) \/ i = Len(s) + 1
  BY <1>1
<1> QED
  BY <1>1, <1>2 DEF Sorted, v

LEMMA NothingSorted ==
  /\ Sorted(<<>>) /\ \A s : Before(<<>>, s) /\ Before(s, <<>>)
  /\ \A x : Sorted(<<x>>)
  BY DEF Sorted, Before

\* What is on its way is six sequences, one behind the other.
Row(a, b, c, d, e, f) == a \o b \o c \o d \o e \o f

LEMMA RowSeq ==
  ASSUME NEW S, NEW a \in Seq(S), NEW b \in Seq(S), NEW c \in Seq(S),
         NEW d \in Seq(S), NEW e \in Seq(S), NEW f \in Seq(S)
  PROVE  /\ a \o b \in Seq(S) /\ a \o b \o c \in Seq(S) /\ a \o b \o c \o d \in Seq(S)
         /\ a \o b \o c \o d \o e \in Seq(S) /\ Row(a, b, c, d, e, f) \in Seq(S)
  BY DEF Row

\* Each is in order, and in order with those behind it.
Pairs(a, b, c, d, e, f) ==
  /\ Sorted(a) /\ Sorted(b) /\ Sorted(c) /\ Sorted(d) /\ Sorted(e) /\ Sorted(f)
  /\ Before(a, b)
  /\ Before(a, c) /\ Before(b, c)
  /\ Before(a, d) /\ Before(b, d) /\ Before(c, d)
  /\ Before(a, e) /\ Before(b, e) /\ Before(c, e) /\ Before(d, e)
  /\ Before(a, f) /\ Before(b, f) /\ Before(c, f) /\ Before(d, f) /\ Before(e, f)

LEMMA RowPairs ==
  ASSUME NEW S, NEW a \in Seq(S), NEW b \in Seq(S), NEW c \in Seq(S),
         NEW d \in Seq(S), NEW e \in Seq(S), NEW f \in Seq(S)
  PROVE  Sorted(Row(a, b, c, d, e, f)) <=> Pairs(a, b, c, d, e, f)
<1> DEFINE s2 == a \o b
           s3 == s2 \o c
           s4 == s3 \o d
           s5 == s4 \o e
<1>1. s2 \in Seq(S) /\ s3 \in Seq(S) /\ s4 \in Seq(S) /\ s5 \in Seq(S)
  BY RowSeq
<1>2. /\ Sorted(s2) <=> Sorted(a) /\ Sorted(b) /\ Before(a, b)
      /\ \A u \in Seq(S) : Before(s2, u) <=> Before(a, u) /\ Before(b, u)
  BY ConcatSorted, ConcatBefore
<1> HIDE DEF s2
<1>3. /\ Sorted(s3) <=> Sorted(s2) /\ Sorted(c) /\ Before(s2, c)
      /\ \A u \in Seq(S) : Before(s3, u) <=> Before(s2, u) /\ Before(c, u)
  BY <1>1, ConcatSorted, ConcatBefore
<1> HIDE DEF s3
<1>4. /\ Sorted(s4) <=> Sorted(s3) /\ Sorted(d) /\ Before(s3, d)
      /\ \A u \in Seq(S) : Before(s4, u) <=> Before(s3, u) /\ Before(d, u)
  BY <1>1, ConcatSorted, ConcatBefore
<1> HIDE DEF s4
<1>5. /\ Sorted(s5) <=> Sorted(s4) /\ Sorted(e) /\ Before(s4, e)
      /\ \A u \in Seq(S) : Before(s5, u) <=> Before(s4, u) /\ Before(e, u)
  BY <1>1, ConcatSorted, ConcatBefore
<1> HIDE DEF s5
<1>6. Sorted(s5 \o f) <=> Sorted(s5) /\ Sorted(f) /\ Before(s5, f)
  BY <1>1, ConcatSorted
<1>7. Row(a, b, c, d, e, f) = s5 \o f
  BY DEF Row, s2, s3, s4, s5
<1> QED
  BY <1>2, <1>3, <1>4, <1>5, <1>6, <1>7 DEF Pairs


\* The head of each sequence may go to the end of the one before it.
LEMMA RowMoves ==
  ASSUME NEW S, NEW a \in Seq(S), NEW b \in Seq(S), NEW c \in Seq(S),
         NEW d \in Seq(S), NEW e \in Seq(S), NEW f \in Seq(S),
         Sorted(Row(a, b, c, d, e, f))
  PROVE  /\ b # <<>> => Sorted(Row(Append(a, Head(b)), Tail(b), c, d, e, f))
         /\ c # <<>> => Sorted(Row(a, Append(b, Head(c)), Tail(c), d, e, f))
         /\ d # <<>> => Sorted(Row(a, b, Append(c, Head(d)), Tail(d), e, f))
         /\ e # <<>> => Sorted(Row(a, b, c, Append(d, Head(e)), Tail(e), f))
         /\ f # <<>> => Sorted(Row(a, b, c, d, Append(e, Head(f)), Tail(f)))
<1>1. Pairs(a, b, c, d, e, f)
  BY RowPairs
<1>2. ASSUME b # <<>> PROVE Sorted(Row(Append(a, Head(b)), Tail(b), c, d, e, f))
  <2> DEFINE v == Append(a, Head(b))
             w == Tail(b)
  <2>1. v \in Seq(S) /\ w \in Seq(S)
    BY <1>2, HeadKept
  <2>2. Moved(a, b, v, w)
    BY <1>2, HeadMoves
  <2> HIDE DEF v, w
  <2>3. Pairs(v, w, c, d, e, f)
    BY <1>1, <2>2 DEF Pairs, Moved
  <2> QED
    BY <2>1, <2>3, RowPairs DEF v, w
<1>3. ASSUME c # <<>> PROVE Sorted(Row(a, Append(b, Head(c)), Tail(c), d, e, f))
  <2> DEFINE v == Append(b, Head(c))
             w == Tail(c)
  <2>1. v \in Seq(S) /\ w \in Seq(S)
    BY <1>3, HeadKept
  <2>2. Moved(b, c, v, w)
    BY <1>3, HeadMoves
  <2> HIDE DEF v, w
  <2>3. Pairs(a, v, w, d, e, f)
    BY <1>1, <2>2 DEF Pairs, Moved
  <2> QED
    BY <2>1, <2>3, RowPairs DEF v, w
<1>4. ASSUME d # <<>> PROVE Sorted(Row(a, b, Append(c, Head(d)), Tail(d), e, f))
  <2> DEFINE v == Append(c, Head(d))
             w == Tail(d)
  <2>1. v \in Seq(S) /\ w \in Seq(S)
    BY <1>4, HeadKept
  <2>2. Moved(c, d, v, w)
    BY <1>4, HeadMoves
  <2> HIDE DEF v, w
  <2>3. Pairs(a, b, v, w, e, f)
    BY <1>1, <2>2 DEF Pairs, Moved
  <2> QED
    BY <2>1, <2>3, RowPairs DEF v, w
<1>5. ASSUME e # <<>> PROVE Sorted(Row(a, b, c, Append(d, Head(e)), Tail(e), f))
  <2> DEFINE v == Append(d, Head(e))
             w == Tail(e)
  <2>1. v \in Seq(S) /\ w \in Seq(S)
    BY <1>5, HeadKept
  <2>2. Moved(d, e, v, w)
    BY <1>5, HeadMoves
  <2> HIDE DEF v, w
  <2>3. Pairs(a, b, c, v, w, f)
    BY <1>1, <2>2 DEF Pairs, Moved
  <2> QED
    BY <2>1, <2>3, RowPairs DEF v, w
<1>6. ASSUME f # <<>> PROVE Sorted(Row(a, b, c, d, Append(e, Head(f)), Tail(f)))
  <2> DEFINE v == Append(e, Head(f))
             w == Tail(f)
  <2>1. v \in Seq(S) /\ w \in Seq(S)
    BY <1>6, HeadKept
  <2>2. Moved(e, f, v, w)
    BY <1>6, HeadMoves
  <2> HIDE DEF v, w
  <2>3. Pairs(a, b, c, d, v, w)
    BY <1>1, <2>2 DEF Pairs, Moved
  <2> QED
    BY <2>1, <2>3, RowPairs DEF v, w
<1> QED
  BY <1>2, <1>3, <1>4, <1>5, <1>6

\* Chunks may be lost at each of three places, and the Exit may be published.
LEMMA RowChanges ==
  ASSUME NEW S, NEW a \in Seq(S), NEW b \in Seq(S), NEW c \in Seq(S),
         NEW d \in Seq(S), NEW e \in Seq(S), NEW f \in Seq(S),
         Sorted(Row(a, b, c, d, e, f))
  PROVE  /\ Sorted(Row(a, b, <<>>, d, e, f))
         /\ Sorted(Row(a, b, c, d, <<>>, f))
         /\ Sorted(Row(a, b, c, d, e, <<>>))
         /\ Exit \in S => Sorted(Row(a, b, c, Append(d, Exit), e, f))
<1>1. Pairs(a, b, c, d, e, f) /\ <<>> \in Seq(S)
  BY RowPairs
<1>2. /\ Pairs(a, b, <<>>, d, e, f) /\ Pairs(a, b, c, d, <<>>, f)
      /\ Pairs(a, b, c, d, e, <<>>)
  BY <1>1, NothingSorted DEF Pairs
<1>3. /\ Sorted(Row(a, b, <<>>, d, e, f)) /\ Sorted(Row(a, b, c, d, <<>>, f))
      /\ Sorted(Row(a, b, c, d, e, <<>>))
  <2> DEFINE z == <<>>
  <2>1. z \in Seq(S) /\ Pairs(a, b, z, d, e, f) /\ Pairs(a, b, c, d, z, f)
        /\ Pairs(a, b, c, d, e, z)
    BY <1>1, <1>2
  <2> HIDE DEF z
  <2>2. Sorted(Row(a, b, z, d, e, f)) /\ Sorted(Row(a, b, c, d, z, f))
        /\ Sorted(Row(a, b, c, d, e, z))
    BY <2>1, RowPairs
  <2> QED
    BY <2>2 DEF z
<1>4. ASSUME Exit \in S PROVE Sorted(Row(a, b, c, Append(d, Exit), e, f))
  <2> DEFINE v == Append(d, Exit)
  <2>1. v \in Seq(S)
    BY <1>4
  <2>2. /\ Sorted(d) => Sorted(v)
        /\ \A u : (Before(u, d) => Before(u, v)) /\ (Before(d, u) => Before(v, u))
    BY <1>4, ExitInOrder
  <2> HIDE DEF v
  <2>3. Pairs(a, b, c, v, e, f)
    BY <1>1, <2>2 DEF Pairs
  <2> QED
    BY <2>1, <2>3, RowPairs DEF v
<1> QED
  BY <1>3, <1>4

\* A chunk that is later than all joins the end.
LEMMA RowGrows ==
  ASSUME NEW S, NEW a \in Seq(S), NEW b \in Seq(S), NEW c \in Seq(S),
         NEW d \in Seq(S), NEW e \in Seq(S), NEW f \in Seq(S),
         Sorted(Row(a, b, c, d, e, f)), NEW x, \A m \in S : Precedes(m, x)
  PROVE  Sorted(Row(a, b, c, d, e, Append(f, x)))
<1> DEFINE s5 == a \o b \o c \o d \o e
           T == S \cup {x}
<1>1. s5 \in Seq(S) /\ Row(a, b, c, d, e, f) = s5 \o f
  BY RowSeq DEF Row
<1>2. Row(a, b, c, d, e, Append(f, x)) = s5 \o Append(f, x)
  BY DEF Row
<1> HIDE DEF s5
<1>3. s5 \o f \in Seq(S) /\ \A i \in 1..Len(s5 \o f) : (s5 \o f)[i] \in S
  BY <1>1
<1>4. s5 \in Seq(T) /\ f \in Seq(T) /\ x \in T /\ s5 \o f \in Seq(T)
  BY <1>1, <1>3
<1>5. s5 \o Append(f, x) = Append(s5 \o f, x)
  BY <1>4
<1> HIDE DEF T
<1>6. Sorted(Append(s5 \o f, x))
  BY <1>1, <1>3, <1>4, LaterInOrder
<1> QED
  BY <1>2, <1>5, <1>6

-----------------------------------------------------------------------------
(* A session with one command. *)

Brokers == [on : BOOLEAN, canceled : BOOLEAN, sub : Seq(Messages)]
Handlers == [pc : {"run", "serve", "returned"}, sender : {"on", "off"}, receiver : {"on", "off"}]

\* The chunk that readOutputLoop holds.
Held(x) == IF x = NoChunk THEN <<>> ELSE <<x>>

LEMMA OutputIsRow ==
  /\ OutputInOrder
       <=> Sorted(Row(sess.got, sess.output, wire, broker.sub, Held(task.chunk), proc.pipe))
  /\ OutputInOrder'
       <=> Sorted(Row(sess'.got, sess'.output, wire', broker'.sub, Held(task'.chunk), proc'.pipe))
  BY DEF OutputInOrder, InFlight, Sorted, Row, Held

\* Where a chunk or the Exit can be.
LEMMA PlacesTyped ==
  ASSUME OutputIsWritten
  PROVE  /\ sess.got \in Seq(Written) /\ sess.output \in Seq(Written)
         /\ wire \in Seq(Written) /\ broker.sub \in Seq(Written)
         /\ Held(task.chunk) \in Seq(Written) /\ proc.pipe \in Seq(Written)
<1>1. Held(task.chunk) \in Seq(Written)
  BY DEF OutputIsWritten, Held
<1> QED
  BY <1>1 DEF OutputIsWritten

\* A step that leaves the output alone.
LEMMA QuietKeeps ==
  ASSUME ExecIInv, ExecTypeOK', ExitIsTrue', ResultIsTrue',
         sess'.got = sess.got, sess'.output = sess.output, wire' = wire,
         broker'.sub = broker.sub, task'.chunk = task.chunk,
         task'.reader = "publish" <=> task.reader = "publish",
         proc'.pipe = proc.pipe, proc'.made = proc.made,
         proc.shell = "dead" => proc'.shell = "dead"
  PROVE  ExecIInv'
<1>1. OutputInOrder'
  BY OutputIsRow DEF ExecIInv, ExecInv
<1>2. OutputIsWritten'
  <2>1. Written \subseteq Written'
    BY DEF Written
  <2>2. \A s \in Seq(Written) : s \in Seq(Written')
    BY <2>1
  <2> QED
    BY <2>1, <2>2 DEF ExecIInv, OutputIsWritten
<1> QED
  BY <1>1, <1>2 DEF ExecIInv, ExecInv

\* task.close changes flags and sends signals.
LEMMA CloseTaskFacts ==
  ASSUME ExecTypeOK, NEW t \in TaskRecords, CloseTask(t)
  PROVE  /\ task' \in TaskRecords
         /\ task'.wait = t.wait /\ task'.reader = t.reader /\ task'.chunk = t.chunk
         /\ broker' \in Brokers /\ broker'.sub = broker.sub
         /\ proc' \in ProcRecords /\ proc'.shell = proc.shell /\ proc'.cause = proc.cause
         /\ proc'.made = proc.made /\ proc'.pipe = proc.pipe
<1>1. /\ task' \in TaskRecords
      /\ task'.wait = t.wait /\ task'.reader = t.reader /\ task'.chunk = t.chunk
  BY DEF CloseTask, TaskRecords
<1>2. broker' \in Brokers /\ broker'.sub = broker.sub
  BY DEF CloseTask, ExecTypeOK, Brokers
<1>3. proc' = proc \/ proc' = [proc EXCEPT !.kill = TRUE, !.term = ~t.hasExited,
                                  !.timer = IF t.hasExited THEN @ ELSE "on"]
  BY DEF CloseTask
<1>4. t.hasExited \in BOOLEAN /\ proc \in ProcRecords
  BY DEF ExecTypeOK, TaskRecords
<1>5. /\ proc' \in ProcRecords /\ proc'.shell = proc.shell /\ proc'.cause = proc.cause
      /\ proc'.made = proc.made /\ proc'.pipe = proc.pipe
  BY <1>3, <1>4 DEF ProcRecords
<1> QED
  BY <1>1, <1>2, <1>5

\* Every field of the records of a session.
LEMMA ExecFields ==
  ASSUME ExecTypeOK
  PROVE  /\ proc \in ProcRecords /\ proc.made \in Nat /\ proc.pipe \in Seq(Chunks)
         /\ task \in TaskRecords /\ task.chunk \in Chunks \cup {NoChunk}
         /\ broker \in Brokers /\ broker.sub \in Seq(Messages) /\ broker.on \in BOOLEAN
         /\ handler \in Handlers
         /\ sess \in SessRecords /\ sess.output \in Seq(Chunks)
         /\ sess.got \in Seq(Chunks)
         /\ wire \in Seq(Messages)
  BY DEF ExecTypeOK, ProcRecords, TaskRecords, SessRecords, Brokers, Handlers

\* The shell and its signals: it dies once, and the cause stays.
LEMMA SignalsKeep ==
  ASSUME ExecIInv,
         CommandExits \/ ShellKilled \/ GroupTerminated \/ GroupKilled
  PROVE  ExecIInv'
<1>1. /\ ExecTypeOK /\ ExitIsTrue /\ ResultIsTrue
      /\ UNCHANGED <<task, broker, handler, wire, sess>>
  BY DEF ExecIInv, ExecInv, CommandExits, ShellKilled,
         GroupTerminated, GroupKilled
<1>2. /\ proc' \in ProcRecords /\ proc'.pipe = proc.pipe /\ proc'.made = proc.made
      /\ proc.shell \in {"none", "dead"} => proc'.shell = proc.shell
      /\ proc.shell = "dead" => proc'.cause = proc.cause
  <2>1. proc \in ProcRecords
    BY <1>1, ExecFields
  <2>2. CASE CommandExits
    BY <2>1, <2>2 DEF CommandExits, Alive, ProcRecords
  <2>3. CASE ShellKilled
    BY <2>1, <2>3 DEF ShellKilled, Alive, ProcRecords
  <2>4. CASE GroupTerminated
    BY <2>1, <2>4 DEF GroupTerminated, Alive, ProcRecords
  <2>5. CASE GroupKilled
    BY <2>1, <2>5 DEF GroupKilled, Alive, ProcRecords
  <2> QED
    BY <2>2, <2>3, <2>4, <2>5
<1>3. ExecTypeOK'
  BY <1>1, <1>2 DEF ExecTypeOK
<1>4. ExitIsTrue' /\ ResultIsTrue'
  BY <1>1, <1>2 DEF ExitIsTrue, ResultIsTrue
<1> QED
  BY <1>1, <1>2, <1>3, <1>4, QuietKeeps

\* The broker's goroutine ends, wait sees the shell dead, and whoever comes first closes
\* the task.
LEMMA BrokerDoneKeeps ==
  ASSUME ExecIInv, BrokerDone \/ CmdWait
  PROVE  ExecIInv'
<1>1. /\ ExecTypeOK /\ ExitIsTrue /\ ResultIsTrue
      /\ UNCHANGED <<proc, handler, wire, sess>>
  BY DEF ExecIInv, ExecInv, BrokerDone, CmdWait
<1>2. /\ broker' \in Brokers /\ broker'.sub = broker.sub
      /\ task' \in TaskRecords /\ task'.chunk = task.chunk /\ task'.reader = task.reader
      /\ task'.wait = task.wait \/ (task'.wait = "publish" /\ proc.shell = "dead")
  <2>1. task \in TaskRecords /\ broker \in Brokers
    BY <1>1, ExecFields
  <2> QED
    BY <2>1 DEF BrokerDone, CmdWait, TaskRecords, Brokers
<1>3. ExecTypeOK'
  BY <1>1, <1>2 DEF ExecTypeOK, Brokers
<1>4. ExitIsTrue' /\ ResultIsTrue'
  BY <1>1, <1>2 DEF ExitIsTrue, ResultIsTrue
<1> QED
  BY <1>1, <1>2, <1>3, <1>4, QuietKeeps

LEMMA ClosingKeeps ==
  ASSUME ExecIInv, WaitClose \/ ExecStartFails \/ RecvKill \/ ExecReturns
  PROVE  ExecIInv'
<1> DEFINE t == [task EXCEPT !.wait = "off", !.hasExited = TRUE]
<1>1. ExecTypeOK /\ ExitIsTrue /\ ResultIsTrue /\ UNCHANGED wire
  BY DEF ExecIInv, ExecInv, WaitClose, ExecStartFails, RecvKill,
         ExecReturns
<1>2. /\ t \in TaskRecords /\ t.wait = "off" /\ t.reader = task.reader
      /\ t.chunk = task.chunk /\ task \in TaskRecords
  BY <1>1, ExecFields DEF TaskRecords
<1>3. CloseTask(t) \/ CloseTask(task)
  BY DEF WaitClose, ExecStartFails, RecvKill, ExecReturns
<1> HIDE DEF t
<1>4. /\ task' \in TaskRecords /\ task'.wait \in {"off", task.wait}
      /\ task'.reader = task.reader /\ task'.chunk = task.chunk
      /\ broker' \in Brokers /\ broker'.sub = broker.sub
      /\ proc' \in ProcRecords /\ proc'.shell = proc.shell /\ proc'.cause = proc.cause
      /\ proc'.made = proc.made /\ proc'.pipe = proc.pipe
  BY <1>1, <1>2, <1>3, CloseTaskFacts
<1>5. /\ handler' \in Handlers
      /\ handler'.pc = "run" => handler.pc = "run"
      /\ sess' \in SessRecords /\ sess'.got = sess.got /\ sess'.output = sess.output
      /\ sess'.exited = sess.exited /\ sess'.killed = sess.killed /\ sess'.code = sess.code
  <2>1. handler \in Handlers /\ sess \in SessRecords
    BY <1>1, ExecFields
  <2>2. \/ sess' = sess
        \/ sess' = [sess EXCEPT !.kill = "received"]
    BY DEF WaitClose, ExecStartFails, RecvKill, ExecReturns
  <2>3. \/ handler' = handler
        \/ handler' = [handler EXCEPT !.pc = "serve", !.sender = "on", !.receiver = "on"]
        \/ handler' = [handler EXCEPT !.receiver = "off"]
        \/ handler' = [handler EXCEPT !.pc = "returned", !.sender = "off", !.receiver = "off"]
    BY DEF WaitClose, ExecStartFails, RecvKill, ExecReturns, Serving
  <2>4. /\ sess' \in SessRecords /\ sess'.got = sess.got /\ sess'.output = sess.output
        /\ sess'.exited = sess.exited /\ sess'.killed = sess.killed /\ sess'.code = sess.code
    BY <2>1, <2>2 DEF SessRecords
  <2> QED
    BY <2>1, <2>3, <2>4 DEF Handlers
<1>6. ExecTypeOK'
  BY <1>1, <1>4, <1>5 DEF ExecTypeOK, Brokers, Handlers
<1>7. ExitIsTrue' /\ ResultIsTrue'
  BY <1>1, <1>4, <1>5 DEF ExitIsTrue, ResultIsTrue
<1> QED
  BY <1>1, <1>4, <1>5, <1>6, <1>7, QuietKeeps

\* The command is started once.
LEMMA ExecRunKeeps ==
  ASSUME ExecIInv, ExecRun
  PROVE  ExecIInv'
<1>1. /\ ExecTypeOK /\ ExitIsTrue /\ ResultIsTrue /\ UNCHANGED <<broker, wire, sess>>
      /\ handler' = Serving
      /\ proc' = [proc EXCEPT !.shell = "up", !.child = "up"]
      /\ task' = [task EXCEPT !.running = TRUE, !.wait = "wait", !.reader = "read"]
      /\ proc.shell = "none" /\ task.reader = "off"
  BY DEF ExecIInv, ExecInv, ExecRun, ExitIsTrue
<1>2. /\ proc' \in ProcRecords /\ proc'.made = proc.made /\ proc'.pipe = proc.pipe
      /\ task' \in TaskRecords /\ task'.chunk = task.chunk /\ task'.wait = "wait"
      /\ task'.reader = "read"
  BY <1>1, ExecFields DEF ProcRecords, TaskRecords
<1>3. handler' \in Handlers /\ handler'.pc = "serve"
  BY <1>1, ExecFields DEF Serving, Handlers
<1>4. ExecTypeOK'
  BY <1>1, <1>2, <1>3 DEF ExecTypeOK, Handlers
<1>5. ExitIsTrue' /\ ResultIsTrue'
  BY <1>1, <1>2, <1>3 DEF ExitIsTrue, ResultIsTrue
<1> QED
  BY <1>1, <1>2, <1>4, <1>5, QuietKeeps

\* The caller and the context of the session.
LEMMA SessionKeeps ==
  ASSUME ExecIInv, Kill \/ KillTimeout \/ CloseSession
  PROVE  ExecIInv'
<1>1. /\ ExecTypeOK /\ ExitIsTrue /\ ResultIsTrue
      /\ UNCHANGED <<proc, task, broker, handler, wire>>
      /\ \/ sess' = [sess EXCEPT !.killed = TRUE, !.kill = "sent"]
         \/ sess' = [sess EXCEPT !.canceled = TRUE]
  BY DEF ExecIInv, ExecInv, Kill, KillTimeout, CloseSession
<1>2. /\ sess' \in SessRecords /\ sess'.got = sess.got /\ sess'.output = sess.output
      /\ sess'.exited = sess.exited /\ sess'.code = sess.code
      /\ sess.killed => sess'.killed
  BY <1>1, ExecFields DEF SessRecords
<1>3. ExecTypeOK'
  BY <1>1, <1>2 DEF ExecTypeOK
<1>4. ExitIsTrue' /\ ResultIsTrue'
  BY <1>1, <1>2 DEF ExitIsTrue, ResultIsTrue
<1> QED
  BY <1>1, <1>2, <1>3, <1>4, QuietKeeps

-----------------------------------------------------------------------------
(* The way of a chunk. *)

\* A step of the output that changes neither the shell nor the result.
LEMMA OutputKeeps ==
  ASSUME ExecIInv, ExecTypeOK', OutputIsWritten',
         Sorted(Row(sess'.got, sess'.output, wire', broker'.sub, Held(task'.chunk), proc'.pipe)),
         proc'.shell = proc.shell, proc'.cause = proc.cause, sess'.exited = sess.exited,
         sess'.killed = sess.killed, sess'.code = sess.code, handler'.pc = handler.pc,
         handler.pc = "run" => task'.reader = task.reader,
         task'.wait = task.wait \/ proc.shell = "dead"
  PROVE  ExecIInv'
<1>1. ExitIsTrue' /\ ResultIsTrue'
  BY DEF ExecIInv, ExecInv, ExitIsTrue, ResultIsTrue
<1> QED
  BY <1>1, OutputIsRow DEF ExecIInv, ExecInv

\* The command writes the next chunk.
LEMMA ProduceKeeps ==
  ASSUME ExecIInv, Produce
  PROVE  ExecIInv'
<1> DEFINE x == proc.made + 1
           pipe == Append(proc.pipe, x)
<1>1. /\ ExecTypeOK /\ OutputIsWritten /\ OutputInOrder
      /\ UNCHANGED <<task, broker, handler, wire, sess>> /\ proc.made < MaxChunks
      /\ proc' = [proc EXCEPT !.made = x, !.pipe = pipe]
  BY DEF ExecIInv, ExecInv, Produce
<1>2. x \in Chunks /\ x \in Nat /\ proc.made \in Nat /\ Exit \notin Nat /\ MaxChunks \in Nat
  BY <1>1, ExecFields, ExecAssumption DEF Chunks
<1>3. pipe \in Seq(Chunks)
  BY <1>1, <1>2, ExecFields
<1>4. Sorted(Row(sess.got, sess.output, wire, broker.sub, Held(task.chunk), pipe))
  <2>1. \A m \in Written : Precedes(m, x)
    BY <1>2 DEF Written, Precedes
  <2> HIDE DEF x
  <2> QED
    BY <1>1, <2>1, PlacesTyped, OutputIsRow, RowGrows
<1>5. /\ Written \subseteq Written' /\ x \in Written'
      /\ proc'.shell = proc.shell
  BY <1>1, <1>2, ExecFields DEF Written, ProcRecords
<1>6. pipe \in Seq(Written')
  <2>1. proc.pipe \in Seq(Written')
    BY <1>1, <1>5 DEF OutputIsWritten
  <2> HIDE DEF x
  <2> QED
    BY <1>5, <2>1
<1> HIDE DEF pipe, x
<1>7. /\ proc' \in ProcRecords /\ proc'.pipe = pipe /\ proc'.cause = proc.cause
  BY <1>1, <1>2, <1>3, ExecFields DEF ProcRecords
<1>8. ExecTypeOK'
  BY <1>1, <1>7 DEF ExecTypeOK
<1>9. OutputIsWritten'
  BY <1>1, <1>5, <1>6, <1>7 DEF OutputIsWritten
<1> QED
  BY <1>1, <1>4, <1>5, <1>7, <1>8, <1>9, OutputKeeps

\* readOutputLoop takes a chunk from the pipe, or stops.
LEMMA ReadChunkKeeps ==
  ASSUME ExecIInv, ReadChunk
  PROVE  ExecIInv'
<1> DEFINE x == Head(proc.pipe)
           pipe == Tail(proc.pipe)
<1>1. /\ ExecTypeOK /\ OutputIsWritten /\ OutputInOrder /\ ExitIsTrue
      /\ UNCHANGED <<broker, handler, wire, sess>> /\ proc.pipe # <<>> /\ task.reader = "read"
      /\ task' = [task EXCEPT !.reader = "publish", !.chunk = x]
      /\ proc' = [proc EXCEPT !.pipe = pipe]
  BY DEF ExecIInv, ExecInv, ReadChunk
<1>2. x \in Chunks /\ pipe \in Seq(Chunks)
  BY <1>1, ExecFields, HeadKept
<1>3. x \in Written /\ pipe \in Seq(Written)
  BY <1>1, PlacesTyped, HeadKept
<1>4. task.chunk = NoChunk /\ x # NoChunk
  BY <1>1, <1>2 DEF OutputIsWritten, NoChunk, Chunks
<1>5. Sorted(Row(sess.got, sess.output, wire, broker.sub, Held(x), pipe))
  <2>1. Append(Held(task.chunk), x) = Held(x)
    BY <1>4 DEF Held
  <2> QED
    BY <1>1, <2>1, PlacesTyped, OutputIsRow, RowMoves
<1> HIDE DEF x, pipe
<1>6. /\ task' \in TaskRecords /\ task'.chunk = x /\ task'.reader = "publish"
      /\ task'.wait = task.wait
      /\ proc' \in ProcRecords /\ proc'.pipe = pipe /\ proc'.shell = proc.shell
      /\ proc'.cause = proc.cause /\ proc'.made = proc.made
  BY <1>1, <1>2, ExecFields DEF TaskRecords, ProcRecords
<1>7. ExecTypeOK'
  BY <1>1, <1>6 DEF ExecTypeOK
<1>8. OutputIsWritten'
  BY <1>1, <1>3, <1>4, <1>6 DEF OutputIsWritten, Written
<1>9. handler.pc # "run"
  BY <1>1 DEF ExitIsTrue
<1> QED
  BY <1>1, <1>5, <1>6, <1>7, <1>8, <1>9, OutputKeeps

LEMMA ReadEndsKeeps ==
  ASSUME ExecIInv, ReadEnds
  PROVE  ExecIInv'
<1>1. /\ ExecTypeOK /\ OutputIsWritten /\ OutputInOrder /\ ExitIsTrue
      /\ UNCHANGED <<broker, handler, wire, sess>> /\ task.reader = "read"
      /\ task' = [task EXCEPT !.reader = "off"] /\ proc' = [proc EXCEPT !.pipe = <<>>]
  BY DEF ExecIInv, ExecInv, ReadEnds
<1>2. Sorted(Row(sess.got, sess.output, wire, broker.sub, Held(task.chunk), <<>>))
  BY <1>1, PlacesTyped, OutputIsRow, RowChanges
<1>3. /\ task' \in TaskRecords /\ task'.chunk = task.chunk /\ task'.reader = "off"
      /\ task'.wait = task.wait
      /\ proc' \in ProcRecords /\ proc'.pipe = <<>> /\ proc'.shell = proc.shell
      /\ proc'.cause = proc.cause /\ proc'.made = proc.made
  <2>1. <<>> \in Seq(Chunks)
    OBVIOUS
  <2> QED
    BY <1>1, <2>1, ExecFields DEF TaskRecords, ProcRecords
<1>4. ExecTypeOK'
  BY <1>1, <1>3 DEF ExecTypeOK
<1>5. OutputIsWritten'
  <2>1. <<>> \in Seq(Written)
    OBVIOUS
  <2> QED
    BY <1>1, <1>3, <2>1 DEF OutputIsWritten, Written
<1>6. handler.pc # "run"
  BY <1>1 DEF ExitIsTrue
<1> QED
  BY <1>1, <1>2, <1>3, <1>4, <1>5, <1>6, OutputKeeps

\* The broker takes a message when it runs, and drops it when the subscription is full.
LEMMA PublishedFacts ==
  ASSUME ExecTypeOK, NEW m \in Messages, Published(m)
  PROVE  /\ broker' \in Brokers /\ Len(broker'.sub) <= SubBuffer
         /\ broker'.sub = broker.sub \/ broker'.sub = Append(broker.sub, m)
<1>1. /\ broker \in Brokers /\ broker.sub \in Seq(Messages) /\ Len(broker.sub) <= SubBuffer
  BY ExecFields DEF ExecTypeOK
<1> DEFINE s == Offer(broker.sub, m)
<1>2. /\ s \in Seq(Messages)
      /\ s = broker.sub \/ (s = Append(broker.sub, m) /\ Len(broker.sub) < SubBuffer)
  BY <1>1 DEF Offer
<1>3. broker' = broker \/ broker' = [broker EXCEPT !.sub = s]
  BY DEF Published
<1> HIDE DEF s
<1>4. broker' \in Brokers /\ (broker'.sub = broker.sub \/ broker'.sub = s)
  BY <1>1, <1>2, <1>3 DEF Brokers
<1>5. s = broker.sub \/ (s = Append(broker.sub, m) /\ Len(s) <= SubBuffer)
  <2>1. CASE Len(broker.sub) < SubBuffer /\ s = Append(broker.sub, m)
    <3>1. Len(s) = Len(broker.sub) + 1 /\ Len(broker.sub) \in Nat
      BY <1>1, <2>1
    <3> QED
      BY <2>1, <3>1, ExecAssumption
  <2> QED
    BY <1>2, <2>1
<1> QED
  BY <1>1, <1>4, <1>5

LEMMA PublishStdoutKeeps ==
  ASSUME ExecIInv, PublishStdout
  PROVE  ExecIInv'
<1> DEFINE x == task.chunk
<1>1. /\ ExecTypeOK /\ OutputIsWritten /\ OutputInOrder /\ ExitIsTrue
      /\ UNCHANGED <<proc, handler, wire, sess>> /\ task.reader = "publish"
      /\ task' = [task EXCEPT !.reader = "read", !.chunk = NoChunk]
      /\ Published(x)
  BY DEF ExecIInv, ExecInv, PublishStdout
<1>2. x # NoChunk /\ x \in Written /\ x \in Messages
  BY <1>1, ExecFields DEF OutputIsWritten, Messages
<1>3. /\ broker' \in Brokers /\ Len(broker'.sub) <= SubBuffer
      /\ broker'.sub = broker.sub \/ broker'.sub = Append(broker.sub, x)
  BY <1>1, <1>2, PublishedFacts
<1>4. /\ Held(x) = <<x>> /\ <<x>> # <<>> /\ Head(<<x>>) = x /\ Tail(<<x>>) = <<>>
      /\ Held(NoChunk) = <<>>
  BY <1>2 DEF Held
<1>5. Sorted(Row(sess.got, sess.output, wire, broker'.sub, Held(NoChunk), proc.pipe))
  <2>1. Sorted(Row(sess.got, sess.output, wire, broker.sub, <<>>, proc.pipe))
    BY <1>1, PlacesTyped, OutputIsRow, RowChanges
  <2>2. Sorted(Row(sess.got, sess.output, wire, Append(broker.sub, x), <<>>, proc.pipe))
    BY <1>1, <1>4, PlacesTyped, OutputIsRow, RowMoves
  <2> QED
    BY <1>3, <1>4, <2>1, <2>2
<1>6. broker'.sub \in Seq(Written)
  BY <1>1, <1>2, <1>3, PlacesTyped, AppendKept
<1> HIDE DEF x
<1>7. /\ task' \in TaskRecords /\ task'.chunk = NoChunk /\ task'.reader = "read"
      /\ task'.wait = task.wait
  BY <1>1, ExecFields DEF TaskRecords
<1>8. ExecTypeOK'
  BY <1>1, <1>3, <1>7 DEF ExecTypeOK, Brokers
<1>9. OutputIsWritten'
  BY <1>1, <1>6, <1>7 DEF OutputIsWritten, Written
<1>10. handler.pc # "run"
  BY <1>1 DEF ExitIsTrue
<1> QED
  BY <1>1, <1>5, <1>7, <1>8, <1>9, <1>10, OutputKeeps

\* The Exit is published by wait, after the end of the shell.
LEMMA PublishExitKeeps ==
  ASSUME ExecIInv, PublishExit
  PROVE  ExecIInv'
<1>1. /\ ExecTypeOK /\ OutputIsWritten /\ OutputInOrder /\ ExitIsTrue
      /\ UNCHANGED <<proc, handler, wire, sess>> /\ proc.shell = "dead"
      /\ task' = [task EXCEPT !.wait = "close"] /\ Published(Exit)
  BY DEF ExecIInv, ExecInv, PublishExit, ExitIsTrue
<1>2. Exit \in Written /\ Exit \in Messages
  BY <1>1 DEF Written, Messages
<1>3. /\ broker' \in Brokers /\ Len(broker'.sub) <= SubBuffer
      /\ broker'.sub = broker.sub \/ broker'.sub = Append(broker.sub, Exit)
  BY <1>1, <1>2, PublishedFacts
<1>4. Sorted(Row(sess.got, sess.output, wire, broker'.sub, Held(task.chunk), proc.pipe))
  <2>1. Sorted(Row(sess.got, sess.output, wire, Append(broker.sub, Exit), Held(task.chunk), proc.pipe))
    BY <1>1, <1>2, PlacesTyped, OutputIsRow, RowChanges
  <2> QED
    BY <1>1, <1>3, <2>1, OutputIsRow
<1>5. broker'.sub \in Seq(Written)
  BY <1>1, <1>2, <1>3, PlacesTyped, AppendKept
<1>6. /\ task' \in TaskRecords /\ task'.chunk = task.chunk /\ task'.reader = task.reader
  BY <1>1, ExecFields DEF TaskRecords
<1>7. ExecTypeOK'
  BY <1>1, <1>3, <1>6 DEF ExecTypeOK, Brokers
<1>8. OutputIsWritten'
  BY <1>1, <1>5, <1>6 DEF OutputIsWritten, Written
<1> QED
  BY <1>1, <1>4, <1>6, <1>7, <1>8, OutputKeeps

\* The first goroutine of Exec sends what it reads.
LEMMA SendResponseKeeps ==
  ASSUME ExecIInv, SendResponse
  PROVE  ExecIInv'
<1> DEFINE w == Append(wire, Head(broker.sub))
           s == Tail(broker.sub)
<1>1. /\ ExecTypeOK /\ OutputIsWritten /\ OutputInOrder
      /\ UNCHANGED <<proc, task, sess>> /\ broker.sub # <<>> /\ Len(wire) < WireWindow
      /\ wire' = w /\ broker' = [broker EXCEPT !.sub = s]
      /\ handler' = handler \/ handler' = [handler EXCEPT !.sender = "off"]
  <2>1. handler' = [handler EXCEPT !.sender = IF Head(broker.sub) = Exit THEN "off" ELSE @]
    BY DEF SendResponse
  <2>2. handler' = handler \/ handler' = [handler EXCEPT !.sender = "off"]
    BY <2>1, ExecFields DEF ExecIInv, ExecInv, Handlers
  <2> QED
    BY <2>2 DEF ExecIInv, ExecInv, SendResponse
<1>2. w \in Seq(Messages) /\ s \in Seq(Messages)
  BY <1>1, ExecFields, HeadKept
<1>3. w \in Seq(Written) /\ s \in Seq(Written)
  BY <1>1, PlacesTyped, HeadKept
<1>4. Sorted(Row(sess.got, sess.output, w, s, Held(task.chunk), proc.pipe))
  BY <1>1, PlacesTyped, OutputIsRow, RowMoves
<1>5. Len(w) <= WireWindow /\ Len(s) <= SubBuffer
  <2>1. Head(broker.sub) \in Messages
    BY <1>1, ExecFields, HeadKept
  <2>2. Len(w) = Len(wire) + 1 /\ Len(wire) \in Nat
    BY <1>1, <2>1, ExecFields
  <2>3. Len(s) = Len(broker.sub) - 1 /\ Len(broker.sub) \in Nat /\ Len(broker.sub) <= SubBuffer
    BY <1>1, ExecFields DEF ExecTypeOK
  <2> QED
    BY <1>1, <2>2, <2>3, ExecAssumption
<1> HIDE DEF w, s
<1>6. /\ broker' \in Brokers /\ broker'.sub = s
      /\ handler' \in Handlers /\ handler'.pc = handler.pc
  BY <1>1, <1>2, ExecFields DEF Brokers, Handlers
<1>7. ExecTypeOK'
  BY <1>1, <1>2, <1>5, <1>6 DEF ExecTypeOK, Brokers, Handlers
<1>8. OutputIsWritten'
  BY <1>1, <1>3, <1>6 DEF OutputIsWritten, Written
<1> QED
  BY <1>1, <1>4, <1>6, <1>7, <1>8, OutputKeeps

-----------------------------------------------------------------------------
(* The client. *)

LEMMA RecvChunkKeeps ==
  ASSUME ExecIInv, RecvChunk
  PROVE  ExecIInv'
<1> DEFINE o == Append(sess.output, Head(wire))
           w == Tail(wire)
<1>1. /\ ExecTypeOK /\ OutputIsWritten /\ OutputInOrder
      /\ UNCHANGED <<proc, task, broker, handler>> /\ wire # <<>> /\ Head(wire) # Exit
      /\ Len(sess.output) < OutBuffer /\ sess' = [sess EXCEPT !.output = o] /\ wire' = w
  BY DEF ExecIInv, ExecInv, RecvChunk
<1>2. Head(wire) \in Chunks /\ w \in Seq(Messages)
  BY <1>1, ExecFields, HeadKept DEF Messages
<1>3. o \in Seq(Chunks)
  BY <1>1, <1>2, ExecFields, AppendKept
<1>4. o \in Seq(Written) /\ w \in Seq(Written)
  BY <1>1, PlacesTyped, HeadKept
<1>5. Sorted(Row(sess.got, o, w, broker.sub, Held(task.chunk), proc.pipe))
  BY <1>1, PlacesTyped, OutputIsRow, RowMoves
<1>6. Len(o) <= OutBuffer /\ Len(w) <= WireWindow
  <2>1. Len(o) = Len(sess.output) + 1 /\ Len(sess.output) \in Nat
    BY <1>2, <1>1, ExecFields
  <2>2. Len(w) = Len(wire) - 1 /\ Len(wire) \in Nat /\ Len(wire) <= WireWindow
    BY <1>1, ExecFields DEF ExecTypeOK
  <2> QED
    BY <1>1, <2>1, <2>2, ExecAssumption
<1> HIDE DEF o, w
<1>7. /\ sess' \in SessRecords /\ sess'.output = o /\ sess'.got = sess.got
      /\ sess'.exited = sess.exited /\ sess'.killed = sess.killed /\ sess'.code = sess.code
  BY <1>1, <1>3, ExecFields DEF SessRecords
<1>8. ExecTypeOK'
  BY <1>1, <1>2, <1>6, <1>7 DEF ExecTypeOK
<1>9. OutputIsWritten'
  BY <1>1, <1>4, <1>7 DEF OutputIsWritten, Written
<1> QED
  BY <1>1, <1>5, <1>7, <1>8, <1>9, OutputKeeps

LEMMA ConsumeKeeps ==
  ASSUME ExecIInv, Consume
  PROVE  ExecIInv'
<1> DEFINE g == Append(sess.got, Head(sess.output))
           o == Tail(sess.output)
<1>1. /\ ExecTypeOK /\ OutputIsWritten /\ OutputInOrder
      /\ UNCHANGED <<proc, task, broker, handler, wire>> /\ sess.output # <<>>
      /\ sess' = [sess EXCEPT !.got = g, !.output = o]
  BY DEF ExecIInv, ExecInv, Consume
<1>2. g \in Seq(Chunks) /\ o \in Seq(Chunks)
  BY <1>1, ExecFields, HeadKept
<1>3. g \in Seq(Written) /\ o \in Seq(Written)
  BY <1>1, PlacesTyped, HeadKept
<1>4. Sorted(Row(g, o, wire, broker.sub, Held(task.chunk), proc.pipe))
  BY <1>1, PlacesTyped, OutputIsRow, RowMoves
<1>5. Len(o) <= OutBuffer
  <2>1. Len(o) = Len(sess.output) - 1 /\ Len(sess.output) \in Nat /\ Len(sess.output) <= OutBuffer
    BY <1>1, ExecFields DEF ExecTypeOK
  <2> QED
    BY <2>1, ExecAssumption
<1> HIDE DEF g, o
<1>6. /\ sess' \in SessRecords /\ sess'.output = o /\ sess'.got = g
      /\ sess'.exited = sess.exited /\ sess'.killed = sess.killed /\ sess'.code = sess.code
  BY <1>1, <1>2, ExecFields DEF SessRecords
<1>7. ExecTypeOK'
  BY <1>1, <1>5, <1>6 DEF ExecTypeOK
<1>8. OutputIsWritten'
  BY <1>1, <1>3, <1>6 DEF OutputIsWritten, Written
<1> QED
  BY <1>1, <1>4, <1>6, <1>7, <1>8, OutputKeeps

\* The end of receiveLoop: what was on the stream is lost, and a result that is an exit
\* is of a shell that is dead or of a killed command.
LEMMA EndKeeps ==
  ASSUME ExecIInv, RecvExit \/ RecvErr
  PROVE  ExecIInv'
<1>1. /\ ExecTypeOK /\ OutputIsWritten /\ OutputInOrder /\ ResultIsTrue
      /\ ExitIsTrue /\ UNCHANGED <<proc, task, broker, handler>> /\ wire' = <<>>
  BY DEF ExecIInv, ExecInv, RecvExit, RecvErr
<1>2. /\ <<>> \in Seq(Messages) /\ <<>> \in Seq(Written) /\ Len(<<>>) <= WireWindow
  BY ExecAssumption
<1>3. Sorted(Row(sess.got, sess.output, <<>>, broker.sub, Held(task.chunk), proc.pipe))
  BY <1>1, PlacesTyped, OutputIsRow, RowChanges
<1>4. /\ sess' \in SessRecords /\ sess'.output = sess.output /\ sess'.got = sess.got
      /\ sess'.killed = sess.killed
      /\ sess'.exited /\ ~sess'.killed
           => proc.shell = "dead" /\ (sess'.code = "own" => proc.cause = "exit")
  <2>1. sess \in SessRecords
    BY <1>1, ExecFields
  <2>2. CASE RecvExit
    <3>1. Head(wire) \in Written /\ Head(wire) = Exit
      BY <1>1, <2>2, PlacesTyped, HeadKept DEF RecvExit
    <3>2. proc.shell = "dead"
      BY <1>1, <3>1, ExecFields, ExecAssumption DEF Written
    <3>3. sess' = [sess EXCEPT !.exited = TRUE, !.loop = "done", !.canceled = TRUE,
                     !.code = IF proc.cause = "exit" THEN "own" ELSE "minus1"]
      BY <2>1, <2>2 DEF RecvExit, Finished, SessRecords
    <3> QED
      BY <2>1, <3>2, <3>3 DEF SessRecords
  <2>3. CASE RecvErr
    <3>1. \/ /\ sess.killed
             /\ sess' = [sess EXCEPT !.exited = TRUE, !.code = "minus1", !.loop = "done",
                                     !.canceled = TRUE]
          \/ sess' = [sess EXCEPT !.err = TRUE, !.loop = "done", !.canceled = TRUE]
      BY <2>1, <2>3 DEF RecvErr, Finished, StreamErr, SessRecords
    <3>2. sess.killed \in BOOLEAN
      BY <2>1 DEF SessRecords
    <3>3. /\ sess' \in SessRecords /\ sess'.output = sess.output /\ sess'.got = sess.got
          /\ sess'.killed = sess.killed
      <4>1. CASE sess' = [sess EXCEPT !.exited = TRUE, !.code = "minus1", !.loop = "done",
                                      !.canceled = TRUE]
        BY <2>1, <4>1 DEF SessRecords
      <4>2. CASE sess' = [sess EXCEPT !.err = TRUE, !.loop = "done", !.canceled = TRUE]
        BY <2>1, <4>2 DEF SessRecords
      <4> QED
        BY <3>1, <4>1, <4>2
    <3>4. sess'.exited /\ ~sess'.killed => sess.exited /\ sess'.code = sess.code
      BY <2>1, <3>1, <3>2 DEF SessRecords
    <3> QED
      BY <1>1, <3>3, <3>4 DEF ResultIsTrue
  <2> QED
    BY <2>2, <2>3
<1>5. ExecTypeOK'
  BY <1>1, <1>2, <1>4 DEF ExecTypeOK
<1>6. OutputIsWritten'
  BY <1>1, <1>2, <1>4 DEF OutputIsWritten, Written
<1>7. OutputInOrder'
  BY <1>1, <1>3, <1>4, OutputIsRow
<1>8. ExitIsTrue' /\ ResultIsTrue'
  BY <1>1, <1>4 DEF ExitIsTrue, ResultIsTrue
<1> QED
  BY <1>5, <1>6, <1>7, <1>8 DEF ExecIInv, ExecInv

LEMMA ExecBegins ==
  ASSUME ExecInit
  PROVE  ExecIInv
<1>1. ExecTypeOK
  <2>1. proc \in ProcRecords
    BY DEF ExecInit, ProcRecords
  <2>2. task \in TaskRecords /\ sess \in SessRecords
    BY DEF ExecInit, TaskRecords, SessRecords
  <2>3. /\ broker \in Brokers /\ handler \in Handlers /\ wire \in Seq(Messages)
        /\ broker.sub = <<>> /\ sess.output = <<>> /\ wire = <<>>
    BY DEF ExecInit, Brokers, Handlers
  <2> QED
    BY <2>1, <2>2, <2>3, ExecAssumption DEF ExecTypeOK, Brokers, Handlers
<1>2. /\ sess.got = <<>> /\ sess.output = <<>> /\ wire = <<>> /\ broker.sub = <<>>
      /\ task.chunk = NoChunk /\ task.reader = "off" /\ proc.pipe = <<>>
      /\ task.wait = "off" /\ proc.shell = "none" /\ ~sess.exited
  BY DEF ExecInit
<1>3. OutputInOrder
  <2>1. <<>> \in Seq(Nat) /\ Held(NoChunk) = <<>>
    BY DEF Held
  <2>2. Pairs(<<>>, <<>>, <<>>, <<>>, <<>>, <<>>)
    BY NothingSorted DEF Pairs
  <2>3. Sorted(Row(<<>>, <<>>, <<>>, <<>>, <<>>, <<>>))
    <3> DEFINE z == <<>>
    <3>1. z \in Seq(Nat) /\ Pairs(z, z, z, z, z, z)
      BY <2>1, <2>2
    <3> HIDE DEF z
    <3>2. Sorted(Row(z, z, z, z, z, z))
      BY <3>1, RowPairs
    <3> QED
      BY <3>2 DEF z
  <2> QED
    BY <1>2, <2>1, <2>3, OutputIsRow
<1>4. OutputIsWritten
  <2>1. <<>> \in Seq(Written)
    OBVIOUS
  <2> QED
    BY <1>2, <2>1 DEF OutputIsWritten
<1>5. ExitIsTrue /\ ResultIsTrue
  BY <1>2 DEF ExitIsTrue, ResultIsTrue
<1> QED
  BY <1>1, <1>3, <1>4, <1>5 DEF ExecIInv, ExecInv

LEMMA ExecSteps ==
  ASSUME ExecIInv, [ExecNext]_execVars
  PROVE  ExecIInv'
<1>1. CASE UNCHANGED execVars
  <2>1. UNCHANGED <<proc, task, broker, handler, wire, sess>>
    BY <1>1 DEF execVars
  <2>2. ExecTypeOK' /\ ExitIsTrue' /\ ResultIsTrue'
    BY <2>1 DEF ExecIInv, ExecInv, ExecTypeOK, ExitIsTrue, ResultIsTrue
  <2> QED
    BY <2>1, <2>2, QuietKeeps
<1>2. CASE Signals \/ CommandExits \/ GroupKilled
  BY <1>2, SignalsKeep DEF Signals
<1>3. CASE BrokerDone \/ Waiter
  BY <1>3, BrokerDoneKeeps, PublishExitKeeps, ClosingKeeps DEF Waiter
<1>4. CASE ExecStartFails \/ RecvKill \/ ExecReturns
  BY <1>4, ClosingKeeps
<1>5. CASE ExecRun \/ Produce \/ Reader \/ SendResponse
  BY <1>5, ExecRunKeeps, ProduceKeeps, ReadChunkKeeps, ReadEndsKeeps, PublishStdoutKeeps,
     SendResponseKeeps DEF Reader
<1>6. CASE Receive \/ Consume
  BY <1>6, RecvChunkKeeps, EndKeeps, ConsumeKeeps DEF Receive
<1>7. CASE Kill \/ KillTimeout \/ CloseSession
  BY <1>7, SessionKeeps
<1> QED
  BY <1>1, <1>2, <1>3, <1>4, <1>5, <1>6, <1>7 DEF ExecNext

\* Whatever ends a session, and however its buffers fill: the caller reads the output in
\* the order in which the command wrote it, and an exit that is not of a killed command
\* is of a shell that has ended (readOutputLoop, broker, Exec, receiveLoop, setStreamErr).
THEOREM ExecCorrect == ExecSpec => []ExecInv
<1>1. ExecInit => ExecIInv
  BY ExecBegins
<1>2. ExecIInv /\ [ExecNext]_execVars => ExecIInv'
  BY ExecSteps
<1>3. ExecIInv => ExecInv
  BY DEF ExecIInv
<1> QED
  BY <1>1, <1>2, <1>3, PTL DEF ExecSpec

=============================================================================
