---------------------------- MODULE BuildProofs ----------------------------
(***************************************************************************)
(* What the Template records of its pre-builds, for any number of builds   *)
(* and requests and any crashes of Nocturne: a canceled build stays FAILED *)
(* and of the builds listed as running one Workspace works. Until the      *)
(* first crash the build that new Workspaces are started from stays READY. *)
(***************************************************************************)
EXTENDS TemplateBuilds, FiniteSetTheorems, TLAPS

\* The conjuncts of the inductive invariant, by the variable that they are about.
TmplOK == tmpl \in TemplateRecords /\ CanceledIsFailed /\ RunningIsListed
CallsOK == call \in [Callers -> CallRecords] /\ \A c \in Callers : CallOK(call[c], tmpl, ws)
JobsOK == job \in [Builds -> JobRecords] /\ JobsListed
WsStates == {None, "init", "active", "stopreq", "stopping", "stopped", "limbo", "gone"}
RestOK ==
  /\ ws \in [Builds -> WsStates]
  /\ pods \subseteq Builds /\ added \subseteq Builds /\ stops \subseteq Builds
  /\ vs \subseteq Builds
  /\ up \in BOOLEAN /\ faults \in 0..MaxFaults /\ crashes \in 0..MaxCrashes

LEMMA InvParts ==
  /\ BuildIInv <=> TmplOK /\ CallsOK /\ JobsOK /\ RestOK
  /\ BuildIInv' <=> TmplOK' /\ CallsOK' /\ JobsOK' /\ RestOK'
BY DEF BuildIInv, TypeOK, TmplOK, CallsOK, JobsOK, RestOK, WsStates

\* A Workspace is created once, and does not come back when it is gone.
WsMoves ==
  \A b \in Builds : /\ ws'[b] = None => ws[b] = None
                    /\ ws[b] = "gone" => ws'[b] = "gone"

LEMMA TmplKept ==
  ASSUME TmplOK, UNCHANGED tmpl, WsMoves
  PROVE  TmplOK'
BY DEF TmplOK, WsMoves, CanceledIsFailed, RunningIsListed

LEMMA NoRecords ==
  /\ NoCall \in CallRecords /\ NoJob \in JobRecords
  /\ \A t, w : CallOK(NoCall, t, w)
BY DEF NoCall, NoJob, CallRecords, JobRecords, None, CallOK

LEMMA CallFields ==
  ASSUME NEW q \in CallRecords
  PROVE  /\ q.seen # None => q.seen \in Builds
         /\ q.new # None => q.new \in Builds
BY DEF CallRecords

\* A step that leaves the Template alone, and the other requests, unless they have
\* conflicts.
LEMMA CallsKept ==
  ASSUME CallsOK, UNCHANGED tmpl, WsMoves, call' \in [Callers -> CallRecords],
         \A c \in Callers :
           \/ call'[c] = NoCall \/ CallOK(call'[c], tmpl, ws')
           \/ call'[c] = call[c] /\ (call[c].pc = "stop" => ws'[call[c].seen] # "gone")
  PROVE  CallsOK'
<1>1. ASSUME NEW q \in CallRecords, CallOK(q, tmpl, ws), q.pc = "stop" => ws'[q.seen] # "gone"
      PROVE  CallOK(q, tmpl, ws')
  BY <1>1, CallFields DEF CallOK, WsMoves
<1>2. ASSUME NEW c \in Callers
      PROVE  CallOK(call'[c], tmpl, ws')
  BY <1>1, <1>2, NoRecords DEF CallsOK
<1> QED
  BY <1>2 DEF CallsOK

\* A write of the Template, for the other requests.
LEMMA StaleCallsOK ==
  ASSUME CallsOK, call' = StaleCalls(call), UNCHANGED ws
  PROVE  CallsOK'
<1> DEFINE New(q) == IF q.pc = "save" THEN NoCall ELSE [q EXCEPT !.fresh = FALSE]
<1>1. ASSUME NEW q \in CallRecords, CallOK(q, tmpl, ws)
      PROVE  New(q) \in CallRecords /\ CallOK(New(q), tmpl', ws')
  <2>1. CASE q.pc = "save"
    BY <2>1, NoRecords
  <2>2. CASE q.pc # "save"
    <3> DEFINE t == [q EXCEPT !.fresh = FALSE]
    <3>1. t \in CallRecords
      BY <1>1 DEF CallRecords
    <3>2. t.pc = q.pc /\ t.seen = q.seen /\ t.marked = q.marked /\ t.new = q.new /\ ~t.fresh
      BY <1>1 DEF CallRecords
    <3> HIDE DEF t
    <3>3. CallOK(t, tmpl', ws')
      BY <1>1, <2>2, <3>2 DEF CallOK
    <3> QED
      BY <2>2, <3>1, <3>3 DEF t
  <2> QED
    BY <2>1, <2>2
<1>2. call' = [c \in Callers |-> New(call[c])]
  BY DEF StaleCalls
<1> HIDE DEF New
<1>3. \A c \in Callers : New(call[c]) \in CallRecords /\ CallOK(New(call[c]), tmpl', ws')
  BY <1>1 DEF CallsOK
<1> QED
  BY <1>2, <1>3 DEF CallsOK

LEMMA StaleJobsTyped == job \in [Builds -> JobRecords] =>
  /\ StaleJobs(job) \in [Builds -> JobRecords]
  /\ \A b \in Builds : StaleJobs(job)[b].pc # "save"
<1> SUFFICES ASSUME job \in [Builds -> JobRecords]
             PROVE  /\ StaleJobs(job) \in [Builds -> JobRecords]
                    /\ \A b \in Builds : StaleJobs(job)[b].pc # "save"
  OBVIOUS
<1>1. NoJob \in JobRecords /\ NoJob.pc # "save"
  BY NoRecords DEF NoJob, None
<1> QED
  BY <1>1 DEF StaleJobs

\* A write of the Workspace of b, for the requests.
LEMMA SetStateOK ==
  ASSUME TmplOK, CallsOK, RestOK, UNCHANGED tmpl,
         NEW b \in Builds, NEW st \in WsStates \ {None}, Exists(b), SetState(b, st)
  PROVE  TmplOK' /\ CallsOK' /\ ws' \in [Builds -> WsStates]
<1>1. ws' \in [Builds -> WsStates] /\ \A x \in Builds : ws'[x] = IF x = b THEN st ELSE ws[x]
  BY DEF SetState, RestOK
<1>2. WsMoves
  BY <1>1 DEF WsMoves, Exists
<1>3. call' \in [Callers -> CallRecords]
  BY NoRecords DEF SetState, Outdated, CallsOK
<1>4. ASSUME NEW c \in Callers
      PROVE  \/ call'[c] = NoCall
             \/ call'[c] = call[c] /\ (call[c].pc = "stop" => ws'[call[c].seen] # "gone")
  <2>1. call'[c] = IF call[c].pc = "stop" /\ call[c].seen = b THEN NoCall ELSE call[c]
    BY DEF SetState, Outdated
  <2>2. CallOK(call[c], tmpl, ws) /\ call[c] \in CallRecords
    BY DEF CallsOK
  <2>3. call[c].pc = "stop" => call[c].seen \in Builds /\ ws[call[c].seen] # "gone"
    BY <2>2, CallFields DEF CallOK
  <2> QED
    BY <1>1, <2>1, <2>3
<1> QED
  BY <1>1, <1>2, <1>3, <1>4, TmplKept, CallsKept

-----------------------------------------------------------------------------
(* The writes of the Template. *)

\* What doCancelBuild and createBuildRun have changed in the copy of request q.
LEMMA SavedTemplate ==
  ASSUME TmplOK, NEW c \in Callers, call[c] \in CallRecords, call[c].marked => call[c].seen # None,
         tmpl' = Added(Canceled(tmpl, c), c)
  PROVE  LET q == call[c] IN
         /\ tmpl' \in TemplateRecords
         /\ \A x \in Builds : tmpl'.builds[x] =
              IF x = q.new THEN "running" ELSE IF q.marked /\ x = q.seen THEN "failed"
              ELSE tmpl.builds[x]
         /\ tmpl'.canceled = IF q.marked THEN tmpl.canceled \cup {q.seen} ELSE tmpl.canceled
         /\ tmpl'.running = IF q.new # None THEN q.new ELSE IF q.marked THEN None ELSE tmpl.running
         /\ tmpl'.ready = tmpl.ready
<1> DEFINE q == call[c]
           t == Canceled(tmpl, c)
<1>0. None \notin Builds /\ tmpl \in TemplateRecords
  BY TemplateBuildsAssumption DEF None, TmplOK
<1>1. /\ t \in TemplateRecords /\ t.ready = tmpl.ready
      /\ t.canceled = IF q.marked THEN tmpl.canceled \cup {q.seen} ELSE tmpl.canceled
      /\ t.running = IF q.marked THEN None ELSE tmpl.running
      /\ \A x \in Builds : t.builds[x] = IF q.marked /\ x = q.seen THEN "failed" ELSE tmpl.builds[x]
  <2>1. CASE ~q.marked
    BY <1>0, <2>1 DEF Canceled
  <2>2. CASE q.marked
    <3> DEFINE u == [tmpl.builds EXCEPT ![q.seen] = "failed"]
    <3>1. q.seen \in Builds
      BY <2>2, CallFields
    <3>2. /\ u \in [Builds -> {None, "running", "ready", "failed"}]
          /\ \A x \in Builds : u[x] = IF x = q.seen THEN "failed" ELSE tmpl.builds[x]
      BY <1>0, <3>1 DEF TemplateRecords
    <3>3. t = [tmpl EXCEPT !.canceled = @ \cup {q.seen}, !.running = None, !.builds = u]
      BY <1>0, <2>2 DEF Canceled, TemplateRecords
    <3> HIDE DEF u, t
    <3>4. t \in TemplateRecords
      BY <1>0, <3>1, <3>2, <3>3 DEF TemplateRecords
    <3>5. t.ready = tmpl.ready /\ t.canceled = tmpl.canceled \cup {q.seen} /\ t.running = None
          /\ t.builds = u
      BY <1>0, <3>3 DEF TemplateRecords
    <3> QED
      BY <2>2, <3>2, <3>4, <3>5
  <2> QED
    BY <2>1, <2>2
<1> HIDE DEF t
<1>2. tmpl' = Added(t, c)
  BY DEF t
<1>3. CASE q.new = None
  BY <1>0, <1>1, <1>2, <1>3 DEF Added
<1>4. CASE q.new # None
  <2> DEFINE u == [t.builds EXCEPT ![q.new] = "running"]
  <2>1. q.new \in Builds
    BY <1>4, CallFields
  <2>2. /\ u \in [Builds -> {None, "running", "ready", "failed"}]
        /\ \A x \in Builds : u[x] = IF x = q.new THEN "running" ELSE t.builds[x]
    BY <1>1, <2>1 DEF TemplateRecords
  <2>3. tmpl' = [t EXCEPT !.builds = u, !.running = q.new]
    BY <1>1, <1>2, <1>4 DEF Added, TemplateRecords
  <2> HIDE DEF u
  <2>4. tmpl' \in TemplateRecords
    BY <1>1, <2>1, <2>2, <2>3 DEF TemplateRecords
  <2>5. /\ tmpl'.ready = t.ready /\ tmpl'.canceled = t.canceled /\ tmpl'.running = q.new
        /\ tmpl'.builds = u
    BY <1>1, <2>3 DEF TemplateRecords
  <2> QED
    BY <1>1, <1>4, <2>2, <2>4, <2>5
<1> QED
  BY <1>3, <1>4

LEMMA SaveInv ==
  ASSUME TmplOK, CallsOK, JobsOK, RestOK, NEW c \in Callers, SaveTemplate(c)
  PROVE  TmplOK' /\ CallsOK' /\ JobsOK' /\ RestOK'
<1> DEFINE q == call[c]
<1>1. q \in CallRecords /\ CallOK(q, tmpl, ws) /\ q.pc = "save"
  BY DEF CallsOK, SaveTemplate
<1>2. /\ q.marked => q.seen # None
      /\ q.seen = tmpl.running
      /\ q.seen # None /\ ~q.marked => ws[q.seen] = "gone"
      /\ q.new # None => ws[q.new] # None /\ tmpl.builds[q.new] = None
  BY <1>1 DEF CallOK
<1>3. (q.seen # None => q.seen \in Builds) /\ (q.new # None => q.new \in Builds)
  BY <1>1, CallFields
<1>4. /\ tmpl' \in TemplateRecords
      /\ \A x \in Builds : tmpl'.builds[x] =
           IF x = q.new THEN "running" ELSE IF q.marked /\ x = q.seen THEN "failed"
           ELSE tmpl.builds[x]
      /\ tmpl'.canceled = IF q.marked THEN tmpl.canceled \cup {q.seen} ELSE tmpl.canceled
      /\ tmpl'.running = IF q.new # None THEN q.new ELSE IF q.marked THEN None ELSE tmpl.running
      /\ tmpl'.ready = tmpl.ready
  BY <1>1, <1>2, SavedTemplate DEF SaveTemplate
<1>5. /\ tmpl \in TemplateRecords /\ tmpl.canceled \subseteq Builds /\ None \notin Builds
      /\ tmpl.running # None => tmpl.running \in Builds
      /\ tmpl.ready # None => tmpl.ready \in Builds
  BY TemplateBuildsAssumption DEF TmplOK, TemplateRecords, None
<1>6. UNCHANGED ws
  BY DEF SaveTemplate
<1> HIDE DEF q
<1>7. CanceledIsFailed'
  <2> SUFFICES ASSUME NEW b \in tmpl'.canceled
               PROVE  tmpl'.builds[b] = "failed" /\ tmpl'.ready # b
    BY DEF CanceledIsFailed
  <2>1. CASE q.marked /\ b = q.seen
    <3>1. tmpl.builds[b] = "running" /\ b \in Builds
      BY <1>2, <1>3, <2>1 DEF TmplOK, RunningIsListed
    <3>2. b # q.new /\ b # tmpl.ready
      BY <1>2, <3>1, <1>5 DEF TmplOK, RunningIsListed, None
    <3> QED
      BY <1>4, <2>1, <3>1, <3>2
  <2>2. CASE ~(q.marked /\ b = q.seen)
    <3>1. b \in tmpl.canceled /\ b \in Builds
      BY <1>4, <1>5, <2>2
    <3>2. tmpl.builds[b] = "failed" /\ tmpl.ready # b
      BY <3>1 DEF TmplOK, CanceledIsFailed
    <3>3. b # q.new
      BY <1>2, <1>5, <3>1, <3>2 DEF None
    <3> QED
      BY <1>4, <2>2, <3>1, <3>2, <3>3
  <2> QED
    BY <2>1, <2>2
<1>8. RunningIsListed'
  <2>1. tmpl'.running # None => tmpl'.builds[tmpl'.running] = "running"
    BY <1>2, <1>3, <1>4, <1>5 DEF TmplOK, RunningIsListed
  <2>2. ASSUME NEW b \in Builds, tmpl'.builds[b] = "running", b # tmpl'.running
        PROVE  ws'[b] = "gone"
    <3>1. b # q.new
      BY <1>3, <1>4, <1>5, <2>2
    <3>2. tmpl.builds[b] = "running" /\ ~(q.marked /\ b = q.seen)
      BY <1>4, <2>2, <3>1
    <3>3. CASE b = tmpl.running
      BY <1>2, <1>5, <1>6, <3>2, <3>3
    <3>4. CASE b # tmpl.running
      BY <1>6, <3>2, <3>4 DEF TmplOK, RunningIsListed
    <3> QED
      BY <3>3, <3>4
  <2>3. ASSUME NEW b \in Builds, ws'[b] = None
        PROVE  tmpl'.builds[b] = None
    <3>1. tmpl.builds[b] = None /\ b # q.new
      BY <1>2, <1>5, <1>6, <2>3 DEF TmplOK, RunningIsListed
    <3>2. ~(q.marked /\ b = q.seen)
      BY <1>2, <1>5, <3>1 DEF TmplOK, RunningIsListed, None
    <3> QED
      BY <1>4, <3>1, <3>2
  <2>4. tmpl'.ready # None => tmpl'.builds[tmpl'.ready] \in {"ready", "failed"}
    BY <1>2, <1>4, <1>5 DEF TmplOK, RunningIsListed, None
  <2> QED
    BY <2>1, <2>2, <2>3, <2>4 DEF RunningIsListed
<1>9. CallsOK'
  BY <1>6, StaleCallsOK DEF SaveTemplate
<1>10. JobsOK'
  BY StaleJobsTyped DEF SaveTemplate, JobsOK, JobsListed
<1>11. RestOK'
  BY DEF SaveTemplate, RestOK
<1> QED
  BY <1>4, <1>7, <1>8, <1>9, <1>10, <1>11 DEF TmplOK

\* onStopped: a build that the Template has as canceled is recorded as FAILED.
LEMMA RecordInv ==
  ASSUME TmplOK, CallsOK, JobsOK, RestOK, NEW b \in Builds, OnStoppedSave(b)
  PROVE  TmplOK' /\ CallsOK' /\ JobsOK' /\ RestOK'
<1> DEFINE r == Result(tmpl, b)
           u == [tmpl.builds EXCEPT ![b] = r]
<1>1. r \in {"ready", "failed"} /\ (b \in tmpl.canceled => r = "failed")
  BY DEF Result
<1>2. /\ tmpl \in TemplateRecords /\ tmpl.canceled \subseteq Builds /\ None \notin Builds
      /\ tmpl.running # None => tmpl.running \in Builds
      /\ tmpl.ready # None => tmpl.ready \in Builds
      /\ tmpl.builds \in [Builds -> {None, "running", "ready", "failed"}]
  BY TemplateBuildsAssumption DEF TmplOK, TemplateRecords, None
<1>3. tmpl' = [tmpl EXCEPT !.builds = u, !.ready = IF r = "ready" THEN b ELSE @,
                           !.running = IF @ = b THEN None ELSE @]
  BY <1>2 DEF OnStoppedSave, Recorded, TemplateRecords
<1> HIDE DEF r
<1>4. /\ u \in [Builds -> {None, "running", "ready", "failed"}]
      /\ \A x \in Builds : u[x] = IF x = b THEN r ELSE tmpl.builds[x]
  BY <1>1, <1>2
<1> HIDE DEF u
<1>5. tmpl' \in TemplateRecords
  BY <1>2, <1>3, <1>4 DEF TemplateRecords
<1>6. /\ tmpl'.builds = u /\ tmpl'.canceled = tmpl.canceled
      /\ tmpl'.ready = IF r = "ready" THEN b ELSE tmpl.ready
      /\ tmpl'.running = IF tmpl.running = b THEN None ELSE tmpl.running
  BY <1>2, <1>3 DEF TemplateRecords
<1>7. UNCHANGED ws /\ tmpl.builds[b] # None
  BY DEF OnStoppedSave, JobsOK, JobsListed
<1>8. CanceledIsFailed'
  BY <1>1, <1>2, <1>4, <1>6 DEF TmplOK, CanceledIsFailed
<1>9. RunningIsListed'
  <2>1. tmpl'.running # None => tmpl'.builds[tmpl'.running] = "running"
    BY <1>2, <1>4, <1>6 DEF TmplOK, RunningIsListed
  <2>2. ASSUME NEW x \in Builds, tmpl'.builds[x] = "running", x # tmpl'.running
        PROVE  ws'[x] = "gone"
    <3>1. x # b /\ tmpl.builds[x] = "running"
      BY <1>1, <1>4, <1>6, <2>2
    <3> QED
      BY <1>6, <1>7, <2>2, <3>1 DEF TmplOK, RunningIsListed
  <2>3. \A x \in Builds : ws'[x] = None => tmpl'.builds[x] = None
    BY <1>4, <1>6, <1>7 DEF TmplOK, RunningIsListed
  <2>4. tmpl'.ready # None => tmpl'.builds[tmpl'.ready] \in {"ready", "failed"}
    BY <1>1, <1>2, <1>4, <1>6 DEF TmplOK, RunningIsListed
  <2> QED
    BY <2>1, <2>2, <2>3, <2>4 DEF RunningIsListed
<1>10. CallsOK'
  BY <1>7, StaleCallsOK DEF OnStoppedSave
<1>11. JobsOK'
  <2> DEFINE j == [job[b] EXCEPT !.pc = IF Result(tmpl, b) = "ready" THEN "snap" ELSE "status"]
  <2>1. j \in JobRecords /\ j.pc # "save"
    BY DEF JobsOK, JobRecords
  <2>2. job' = [StaleJobs(job) EXCEPT ![b] = j]
    BY DEF OnStoppedSave
  <2> HIDE DEF j
  <2>3. /\ job' \in [Builds -> JobRecords]
        /\ \A x \in Builds : job'[x] = IF x = b THEN j ELSE StaleJobs(job)[x]
    BY <2>1, <2>2, StaleJobsTyped DEF JobsOK
  <2> QED
    BY <2>1, <2>3, StaleJobsTyped DEF JobsOK, JobsListed
<1>12. RestOK'
  BY DEF OnStoppedSave, RestOK
<1> QED
  BY <1>5, <1>8, <1>9, <1>10, <1>11, <1>12 DEF TmplOK

\* The other changes of the Template leave what it says of its builds alone.
LEMMA EditInv ==
  ASSUME TmplOK, CallsOK, JobsOK, RestOK,
         UpdateTemplate \/ DeleteTemplate \/ OnDeleteTemplate
  PROVE  TmplOK' /\ CallsOK' /\ JobsOK' /\ RestOK'
<1>1. /\ tmpl' \in TemplateRecords /\ tmpl'.builds = tmpl.builds /\ tmpl'.canceled = tmpl.canceled
      /\ tmpl'.running = tmpl.running /\ tmpl'.ready = tmpl.ready
  BY DEF UpdateTemplate, DeleteTemplate, OnDeleteTemplate, TmplOK, TemplateRecords
<1>2. UNCHANGED ws
  BY DEF UpdateTemplate, DeleteTemplate, OnDeleteTemplate
<1>3. TmplOK'
  BY <1>1, <1>2 DEF TmplOK, CanceledIsFailed, RunningIsListed
<1>4. CallsOK'
  <2>1. CASE UpdateTemplate \/ DeleteTemplate
    BY <1>2, <2>1, StaleCallsOK DEF UpdateTemplate, DeleteTemplate
  <2>2. CASE OnDeleteTemplate
    <3>1. UNCHANGED call
      BY <2>2 DEF OnDeleteTemplate
    <3> QED
      BY <1>1, <1>2, <3>1 DEF CallsOK, CallOK
  <2> QED
    BY <2>1, <2>2
<1>5. JobsOK'
  BY <1>1, StaleJobsTyped DEF UpdateTemplate, DeleteTemplate, OnDeleteTemplate, JobsOK, JobsListed
<1>6. RestOK'
  BY DEF UpdateTemplate, DeleteTemplate, OnDeleteTemplate, RestOK
<1> QED
  BY <1>3, <1>4, <1>5, <1>6

-----------------------------------------------------------------------------
(* The requests. *)

\* A step of one request, which may write the Workspace of a build.
LEMMA RequestStep ==
  ASSUME TmplOK, CallsOK, UNCHANGED tmpl, WsMoves,
         NEW c \in Callers, NEW q \in CallRecords, CallOK(q, tmpl, ws'),
         NEW calls \in [Callers -> CallRecords], call' = [calls EXCEPT ![c] = q],
         \A d \in Callers :
           \/ calls[d] = NoCall
           \/ calls[d] = call[d] /\ (call[d].pc = "stop" => ws'[call[d].seen] # "gone")
  PROVE  TmplOK' /\ CallsOK'
<1>1. call' \in [Callers -> CallRecords] /\ \A d \in Callers : call'[d] = IF d = c THEN q ELSE calls[d]
  OBVIOUS
<1> QED
  BY <1>1, TmplKept, CallsKept

LEMMA StopsAlive ==
  ASSUME CallsOK, NEW d \in Callers
  PROVE  call[d].pc = "stop" => call[d].seen \in Builds /\ Exists(call[d].seen)
<1>1. call[d] \in CallRecords /\ CallOK(call[d], tmpl, ws)
  BY DEF CallsOK
<1> QED
  BY <1>1, CallFields DEF CallOK, Exists

\* A step of one request that writes nothing.
LEMMA OwnStep ==
  ASSUME TmplOK, CallsOK, UNCHANGED <<tmpl, ws>>,
         NEW c \in Callers, NEW q \in CallRecords, CallOK(q, tmpl, ws),
         call' = [call EXCEPT ![c] = q]
  PROVE  TmplOK' /\ CallsOK'
<1>1. WsMoves
  BY DEF WsMoves
<1>2. \A d \in Callers : call[d].pc = "stop" => ws'[call[d].seen] # "gone"
  BY StopsAlive DEF Exists
<1>3. call \in [Callers -> CallRecords]
  BY DEF CallsOK
<1> QED
  BY <1>1, <1>2, <1>3, RequestStep

LEMMA RequestInv ==
  ASSUME TmplOK, CallsOK, JobsOK, RestOK, NEW c \in Callers,
         \/ BuildTemplate(c) \/ CancelBuildTemplate(c) \/ CancelGet(c) \/ CreateRefused(c)
         \/ CancelStop(c) \/ CreateBuildRun(c)
  PROVE  TmplOK' /\ CallsOK' /\ JobsOK' /\ RestOK'
<1> DEFINE r == call[c]
<1>0. /\ r \in CallRecords /\ CallOK(r, tmpl, ws) /\ None \notin Builds
      /\ tmpl.running # None => tmpl.running \in Builds /\ ws[tmpl.running] # None
  <2>1. tmpl.running # None => tmpl.running \in Builds
    BY DEF TmplOK, TemplateRecords
  <2>2. tmpl.running # None => ws[tmpl.running] # None
    BY <2>1 DEF TmplOK, RunningIsListed, None
  <2> QED
    BY <2>1, <2>2, TemplateBuildsAssumption DEF CallsOK, None
<1>1. JobsOK'
  BY DEF BuildTemplate, CancelBuildTemplate, CancelGet, CreateRefused, CancelStop, CreateBuildRun,
         JobsOK, JobsListed
<1>2. CASE BuildTemplate(c) \/ CancelBuildTemplate(c)
  <2>1. PICK op \in {"build", "cancel"} :
          call' = [call EXCEPT ![c] = [NoCall EXCEPT !.pc = "cancel", !.op = op,
                                         !.seen = tmpl.running, !.fresh = TRUE]]
    BY <1>2 DEF BuildTemplate, CancelBuildTemplate
  <2> DEFINE q == [NoCall EXCEPT !.pc = "cancel", !.op = op, !.seen = tmpl.running, !.fresh = TRUE]
  <2>2. NoCall \in CallRecords /\ ~NoCall.marked /\ NoCall.new = None
    BY NoRecords DEF NoCall
  <2>3. /\ q \in CallRecords /\ q.pc = "cancel" /\ q.seen = tmpl.running
        /\ ~q.marked /\ q.new = None
    BY <1>0, <2>2 DEF CallRecords
  <2> HIDE DEF q
  <2>4. CallOK(q, tmpl, ws)
    BY <1>0, <2>3 DEF CallOK
  <2>5. TmplOK' /\ CallsOK'
    BY <1>2, <2>1, <2>3, <2>4, OwnStep DEF q, BuildTemplate, CancelBuildTemplate
  <2> QED
    BY <1>1, <1>2, <2>5 DEF BuildTemplate, CancelBuildTemplate, RestOK
<1>3. CASE CancelGet(c)
  <2>1. \E q \in CallRecords : CallOK(q, tmpl, ws) /\ call' = [call EXCEPT ![c] = q]
    <3>1. CASE r.seen # None /\ Exists(r.seen)
      <4> DEFINE q == [r EXCEPT !.pc = "stop"]
      <4>1. call' = [call EXCEPT ![c] = q]
        BY <1>3, <3>1 DEF CancelGet
      <4>2. /\ q \in CallRecords /\ q.pc = "stop" /\ q.seen = r.seen /\ q.marked = r.marked
            /\ q.new = r.new /\ q.fresh = r.fresh
        BY <1>0 DEF CallRecords
      <4> HIDE DEF q
      <4>3. CallOK(q, tmpl, ws)
        BY <1>0, <1>3, <3>1, <4>2 DEF CallOK, Exists, CancelGet
      <4> QED
        BY <4>1, <4>2, <4>3
    <3>2. CASE ~(r.seen # None /\ Exists(r.seen)) /\ AfterCancel(c) = "save" /\ ~r.fresh
      BY <1>3, <3>2, NoRecords DEF CancelGet
    <3>3. CASE ~(r.seen # None /\ Exists(r.seen)) /\ ~(AfterCancel(c) = "save" /\ ~r.fresh)
      <4> DEFINE q == [r EXCEPT !.pc = AfterCancel(c)]
      <4>1. call' = [call EXCEPT ![c] = q]
        BY <1>3, <3>3 DEF CancelGet
      <4>2. AfterCancel(c) \in {"create", "save"}
        BY DEF AfterCancel
      <4>3. /\ q \in CallRecords /\ q.pc = AfterCancel(c) /\ q.seen = r.seen
            /\ q.marked = r.marked /\ q.new = r.new /\ q.fresh = r.fresh
        BY <1>0, <4>2 DEF CallRecords
      <4>4. r.seen # None => ws[r.seen] = "gone"
        BY <1>0, <3>3 DEF CallOK, Exists
      <4>5. r.new = None /\ r.pc # "idle"
        BY <1>0, <1>3 DEF CallOK, CancelGet
      <4> HIDE DEF q, r
      <4>6. CallOK(q, tmpl, ws)
        BY <1>0, <3>3, <4>2, <4>3, <4>4, <4>5 DEF CallOK
      <4> QED
        BY <4>1, <4>3, <4>6
    <3> QED
      BY <3>1, <3>2, <3>3
  <2>2. TmplOK' /\ CallsOK'
    BY <1>3, <2>1, OwnStep DEF CancelGet
  <2> QED
    BY <1>1, <1>3, <2>2 DEF CancelGet, RestOK
<1>4. CASE CreateRefused(c)
  <2>1. TmplOK' /\ CallsOK'
    BY <1>4, NoRecords, OwnStep DEF CreateRefused
  <2> QED
    BY <1>1, <1>4, <2>1 DEF CreateRefused, RestOK
<1>5. CASE CancelStop(c)
  <2> DEFINE b == r.seen
             q == IF AfterCancel(c) = "save" /\ ~r.fresh THEN NoCall
                  ELSE [r EXCEPT !.pc = AfterCancel(c), !.marked = TRUE]
  <2>1. b \in Builds /\ Exists(b) /\ StopState(b) \in {"limbo", "stopreq"}
    BY <1>5, StopsAlive DEF CancelStop, StopState
  <2>2. ws' = [ws EXCEPT ![b] = StopState(b)] /\ call' = [Outdated(call, b) EXCEPT ![c] = q]
    BY <1>5 DEF CancelStop
  <2> DEFINE s == StopState(b)
  <2>a. s \in WsStates \ {None, "gone"}
    BY <2>1 DEF WsStates, None
  <2> HIDE DEF s, b
  <2>3. ws' \in [Builds -> WsStates] /\ \A x \in Builds : ws'[x] = IF x = b THEN s ELSE ws[x]
    BY <2>1, <2>2, <2>a DEF RestOK, s
  <2>4. WsMoves
    BY <2>1, <2>3, <2>a DEF WsMoves, Exists
  <2> USE DEF b
  <2>5. q \in CallRecords /\ CallOK(q, tmpl, ws')
    <3>1. CASE AfterCancel(c) = "save" /\ ~r.fresh
      BY <3>1, NoRecords
    <3>2. CASE ~(AfterCancel(c) = "save" /\ ~r.fresh)
      <4> DEFINE t == [r EXCEPT !.pc = AfterCancel(c), !.marked = TRUE]
      <4>1. AfterCancel(c) \in {"create", "save"}
        BY DEF AfterCancel
      <4>2. /\ t \in CallRecords /\ t.pc = AfterCancel(c) /\ t.seen = b
            /\ t.marked /\ t.new = r.new /\ t.fresh = r.fresh
        BY <1>0, <4>1 DEF CallRecords
      <4>3. r.new = None /\ r.pc # "idle" /\ b # None
        BY <1>0, <1>5 DEF CallOK, CancelStop
      <4>4. ws'[b] # None
        BY <2>1, <2>3, <2>a
      <4>5. r.fresh => b = tmpl.running
        BY <1>0, <4>3 DEF CallOK
      <4> HIDE DEF t, r
      <4>6. CallOK(t, tmpl, ws')
        BY <3>2, <4>1, <4>2, <4>3, <4>4, <4>5 DEF CallOK
      <4> QED
        BY <3>2, <4>2, <4>6 DEF t
    <3> QED
      BY <3>1, <3>2
  <2>6. Outdated(call, b) \in [Callers -> CallRecords]
    BY NoRecords DEF Outdated, CallsOK
  <2>7. ASSUME NEW d \in Callers
        PROVE  \/ Outdated(call, b)[d] = NoCall
               \/ /\ Outdated(call, b)[d] = call[d]
                  /\ call[d].pc = "stop" => ws'[call[d].seen] # "gone"
    <3>1. Outdated(call, b)[d] = IF call[d].pc = "stop" /\ call[d].seen = b THEN NoCall ELSE call[d]
      BY DEF Outdated
    <3>2. call[d].pc = "stop" => call[d].seen \in Builds /\ Exists(call[d].seen)
      BY StopsAlive
    <3> QED
      BY <2>3, <2>a, <3>1, <3>2 DEF Exists
  <2>8. UNCHANGED tmpl
    BY <1>5 DEF CancelStop
  <2> HIDE DEF q, b
  <2>9. TmplOK' /\ CallsOK'
    BY <2>2, <2>4, <2>5, <2>6, <2>7, <2>8, RequestStep
  <2>10. stops' \subseteq Builds
    BY <1>5, <2>1 DEF CancelStop, RestOK, b
  <2>11. RestOK'
    BY <1>5, <2>3, <2>10 DEF CancelStop, RestOK
  <2> QED
    BY <1>1, <2>9, <2>11
<1>6. CASE CreateBuildRun(c)
  <2>1. PICK b \in Builds : /\ ws[b] = None /\ ws' = [ws EXCEPT ![b] = "init"]
                            /\ added' = added \cup {b}
                            /\ call' = [call EXCEPT ![c] =
                                 IF call[c].fresh THEN [@ EXCEPT !.pc = "save", !.new = b]
                                 ELSE NoCall]
    BY <1>6 DEF CreateBuildRun
  <2> DEFINE q == IF r.fresh THEN [r EXCEPT !.pc = "save", !.new = b] ELSE NoCall
  <2>2. ws' \in [Builds -> WsStates] /\ \A x \in Builds : ws'[x] = IF x = b THEN "init" ELSE ws[x]
    BY <2>1 DEF RestOK, WsStates
  <2>3. WsMoves
    BY <2>1, <2>2 DEF WsMoves, None
  <2>4. q \in CallRecords /\ CallOK(q, tmpl, ws')
    <3>1. CASE ~r.fresh
      BY <3>1, NoRecords
    <3>2. CASE r.fresh
      <4> DEFINE t == [r EXCEPT !.pc = "save", !.new = b]
      <4>1. /\ t \in CallRecords /\ t.pc = "save" /\ t.seen = r.seen
            /\ t.marked = r.marked /\ t.new = b /\ t.fresh
        BY <1>0, <3>2 DEF CallRecords
      <4>2. /\ r.seen = tmpl.running
            /\ r.marked => r.seen # None
            /\ r.seen # None => ws[r.seen] # None
            /\ r.seen # None /\ ~r.marked => ws[r.seen] = "gone"
        BY <1>0, <1>6, <3>2 DEF CallOK, CreateBuildRun
      <4>3. r.seen # None => r.seen \in Builds
        BY <1>0, CallFields
      <4>4. tmpl.builds[b] = None /\ ws'[b] # None
        BY <2>1, <2>2 DEF TmplOK, RunningIsListed, None
      <4>5. r.seen # None => ws'[r.seen] = ws[r.seen]
        BY <2>1, <2>2, <4>2, <4>3
      <4>6. b # None
        BY <1>0
      <4> HIDE DEF t, r
      <4>7. CallOK(t, tmpl, ws')
        BY <4>1, <4>2, <4>4, <4>5, <4>6 DEF CallOK
      <4> QED
        BY <3>2, <4>1, <4>7 DEF t
    <3> QED
      BY <3>1, <3>2
  <2>5. call' = [call EXCEPT ![c] = q] /\ call \in [Callers -> CallRecords]
    BY <2>1 DEF CallsOK
  <2>6. \A d \in Callers : call[d].pc = "stop" => ws'[call[d].seen] # "gone"
    BY <2>2, StopsAlive DEF Exists
  <2>7. UNCHANGED tmpl
    BY <1>6 DEF CreateBuildRun
  <2> HIDE DEF q
  <2>8. TmplOK' /\ CallsOK'
    BY <2>3, <2>4, <2>5, <2>6, <2>7, RequestStep
  <2>9. RestOK'
    BY <1>6, <2>1, <2>2 DEF CreateBuildRun, RestOK
  <2> QED
    BY <1>1, <2>8, <2>9
<1> QED
  BY <1>2, <1>3, <1>4, <1>5, <1>6

-----------------------------------------------------------------------------
(* The steps of Nocturne. *)

\* A write of the Workspace of b, when there is one.
MaybeSetState(b, st) == IF Exists(b) THEN SetState(b, st) ELSE UNCHANGED <<ws, call>>

LEMMA MaybeSetStateOK ==
  ASSUME TmplOK, CallsOK, RestOK, UNCHANGED tmpl,
         NEW b \in Builds, NEW st \in WsStates \ {None}, MaybeSetState(b, st)
  PROVE  TmplOK' /\ CallsOK' /\ ws' \in [Builds -> WsStates]
<1>1. CASE Exists(b)
  BY <1>1, SetStateOK DEF MaybeSetState
<1>2. CASE ~Exists(b)
  BY <1>2 DEF MaybeSetState, TmplOK, CallsOK, RestOK, CanceledIsFailed, RunningIsListed
<1> QED
  BY <1>1, <1>2

\* A change of the statusWatcher of b.
LEMMA JobStep ==
  ASSUME JobsOK, UNCHANGED tmpl, NEW b \in Builds, NEW j \in JobRecords,
         j.pc = "save" => tmpl.builds[b] # None, job' = [job EXCEPT ![b] = j]
  PROVE  JobsOK'
<1>1. job' \in [Builds -> JobRecords] /\ \A x \in Builds : job'[x] = IF x = b THEN j ELSE job[x]
  BY DEF JobsOK
<1> QED
  BY <1>1 DEF JobsOK, JobsListed

LEMMA JobPc ==
  ASSUME JobsOK, NEW b \in Builds, NEW p \in {"watch", "ending", "save", "status"}
  PROVE  LET j == [job[b] EXCEPT !.pc = p] IN j \in JobRecords /\ j.pc = p
BY DEF JobsOK, JobRecords

\* The steps that write the Workspace of a build.
LEMMA WorkspaceWrites ==
  ASSUME TmplOK, CallsOK, JobsOK, RestOK, NEW b \in Builds,
         \/ Report(b) \/ Stopping(b) \/ ForceOnStop(b) \/ SetStopped(b)
         \/ StopWorkspace(b) \/ StalledInit(b) \/ StalledStop(b)
  PROVE  TmplOK' /\ CallsOK' /\ JobsOK' /\ RestOK'
<1>1. UNCHANGED tmpl
  BY DEF Report, Stopping, ForceOnStop, SetStopped, StopWorkspace, StalledInit, StalledStop
<1>2. TmplOK' /\ CallsOK' /\ ws' \in [Builds -> WsStates]
  <2>1. {"active", "stopping", "stopped", "gone"} \subseteq WsStates \ {None}
    BY DEF WsStates, None
  <2>2. CASE Report(b)
    BY <1>1, <2>1, <2>2, SetStateOK DEF Report, Exists, None
  <2>3. CASE Stopping(b)
    <3>1. MaybeSetState(b, "stopping")
      BY <2>3 DEF Stopping, MaybeSetState
    <3> QED
      BY <1>1, <2>1, <3>1, MaybeSetStateOK
  <2>4. CASE ForceOnStop(b) \/ SetStopped(b)
    <3>1. MaybeSetState(b, "stopped")
      BY <2>4 DEF ForceOnStop, SetStopped, MaybeSetState
    <3> QED
      BY <1>1, <2>1, <3>1, MaybeSetStateOK
  <2>5. CASE StopWorkspace(b)
    <3>1. CASE UNCHANGED <<ws, call>>
      BY <1>1, <3>1 DEF TmplOK, CallsOK, RestOK, CanceledIsFailed, RunningIsListed
    <3>2. CASE ~UNCHANGED <<ws, call>>
      <4>1. ws[b] = "stopreq" /\ SetState(b, "stopped")
        BY <2>5, <3>2 DEF StopWorkspace
      <4>2. Exists(b)
        BY <4>1 DEF Exists, None
      <4> QED
        BY <1>1, <2>1, <4>1, <4>2, SetStateOK
    <3> QED
      BY <3>1, <3>2
  <2>6. CASE StalledInit(b) \/ StalledStop(b)
    <3>1. Exists(b) /\ SetState(b, "gone")
      BY <2>6 DEF StalledInit, StalledStop, Exists, None
    <3> QED
      BY <1>1, <2>1, <3>1, SetStateOK
  <2> QED
    BY <2>2, <2>3, <2>4, <2>5, <2>6
<1>3. JobsOK'
  <2>1. CASE UNCHANGED job
    BY <1>1, <2>1 DEF JobsOK, JobsListed
  <2>2. CASE Stopping(b)
    BY <1>1, <2>2, JobPc, JobStep DEF Stopping
  <2>3. CASE StalledStop(b)
    BY <1>1, <2>3, JobPc, JobStep DEF StalledStop
  <2>4. CASE ForceOnStop(b)
    <3> DEFINE j == [NoJob EXCEPT !.pc = "get", !.failed = TRUE]
    <3>1. j \in JobRecords /\ j.pc # "save"
      BY NoRecords DEF NoJob, JobRecords
    <3> QED
      BY <1>1, <2>4, <3>1, JobStep DEF ForceOnStop
  <2>5. CASE SetStopped(b)
    <3>1. NoJob \in JobRecords /\ NoJob.pc # "save"
      BY NoRecords DEF NoJob, None
    <3> QED
      BY <1>1, <2>5, <3>1, JobStep DEF SetStopped
  <2> QED
    BY <2>1, <2>2, <2>3, <2>4, <2>5 DEF Report, StopWorkspace, StalledInit
<1>4. RestOK'
  <2>1. pods' \subseteq Builds /\ stops' \subseteq Builds /\ UNCHANGED <<added, vs, up, crashes>>
    BY DEF Report, Stopping, ForceOnStop, SetStopped, StopWorkspace, StalledInit, StalledStop,
           RestOK
  <2>2. faults' \in 0..MaxFaults
    <3>1. CASE UNCHANGED faults
      BY <3>1 DEF RestOK
    <3>2. CASE faults < MaxFaults /\ faults' = faults + 1
      BY <3>2, TemplateBuildsAssumption DEF RestOK
    <3> QED
      BY <3>1, <3>2 DEF Report, Stopping, ForceOnStop, SetStopped, StopWorkspace, StalledInit,
                        StalledStop
  <2> QED
    BY <1>2, <2>1, <2>2 DEF RestOK
<1> QED
  BY <1>2, <1>3, <1>4

\* The steps that write neither the Template nor a Workspace.
LEMMA OtherSteps ==
  ASSUME TmplOK, CallsOK, JobsOK, RestOK,
         \/ \E b \in Builds : \/ OnAdd(b) \/ OnStopped(b, TRUE) \/ OnStopped(b, FALSE)
                              \/ OnStoppedGet(b) \/ CreateTemplateSnapshot(b)
                              \/ Resume(b) \/ PodLost(b)
         \/ Crash \/ Restart
  PROVE  TmplOK' /\ CallsOK' /\ JobsOK' /\ RestOK'
<1> USE DEF OnAdd, OnStopped, OnStoppedGet, CreateTemplateSnapshot, Resume, PodLost, Crash, Restart
<1>1. UNCHANGED <<tmpl, ws, call>>
  OBVIOUS
<1>2. TmplOK' /\ CallsOK'
  BY <1>1 DEF TmplOK, CallsOK, CanceledIsFailed, RunningIsListed
<1>3. JobsOK'
  <2>1. CASE UNCHANGED job
    BY <1>1, <2>1 DEF JobsOK, JobsListed
  <2>2. CASE Crash
    <3>1. NoJob \in JobRecords /\ NoJob.pc # "save"
      BY NoRecords DEF NoJob, None
    <3> QED
      BY <2>2, <3>1 DEF JobsOK, JobsListed
  <2>3. ASSUME NEW b \in Builds, OnAdd(b), ~UNCHANGED job
        PROVE  JobsOK'
    <3> DEFINE j == [NoJob EXCEPT !.pc = "watch"]
    <3>1. j \in JobRecords /\ j.pc # "save"
      BY NoRecords DEF NoJob, JobRecords
    <3> QED
      BY <1>1, <2>3, <3>1, JobStep
  <2>4. ASSUME NEW b \in Builds, NEW f \in BOOLEAN, OnStopped(b, f)
        PROVE  JobsOK'
    <3> DEFINE j == [NoJob EXCEPT !.pc = "get", !.failed = f]
    <3>1. j \in JobRecords /\ j.pc # "save"
      BY NoRecords DEF NoJob, JobRecords
    <3> QED
      BY <1>1, <2>4, <3>1, JobStep
  <2>5. ASSUME NEW b \in Builds, OnStoppedGet(b)
        PROVE  JobsOK'
    <3>1. CASE tmpl.st = "live" /\ tmpl.builds[b] # None
      BY <1>1, <2>5, <3>1, JobPc, JobStep
    <3>2. CASE ~(tmpl.st = "live" /\ tmpl.builds[b] # None)
      BY <1>1, <2>5, <3>2, JobPc, JobStep
    <3> QED
      BY <3>1, <3>2
  <2>6. ASSUME NEW b \in Builds, CreateTemplateSnapshot(b) \/ Resume(b)
        PROVE  JobsOK'
    <3>1. job' = [job EXCEPT ![b] = [job[b] EXCEPT !.pc = "status"]]
          \/ job' = [job EXCEPT ![b] = [job[b] EXCEPT !.pc = "watch"]]
      BY <2>6
    <3> QED
      BY <1>1, <3>1, JobPc, JobStep
  <2> QED
    BY <2>1, <2>2, <2>3, <2>4, <2>5, <2>6
<1>4. RestOK'
  <2>1. /\ ws' \in [Builds -> WsStates] /\ up' \in BOOLEAN
        /\ pods' \subseteq Builds /\ added' \subseteq Builds /\ stops' \subseteq Builds
        /\ vs' \subseteq Builds
    BY <1>1 DEF RestOK
  <2>2. faults' \in 0..MaxFaults
    <3>1. faults' = faults \/ (faults < MaxFaults /\ faults' = faults + 1)
      OBVIOUS
    <3> QED
      BY <3>1, TemplateBuildsAssumption DEF RestOK
  <2>3. crashes' \in 0..MaxCrashes
    <3>1. crashes' = crashes \/ (crashes < MaxCrashes /\ crashes' = crashes + 1)
      OBVIOUS
    <3> QED
      BY <3>1, TemplateBuildsAssumption DEF RestOK
  <2> QED
    BY <2>1, <2>2, <2>3 DEF RestOK
<1> QED
  BY <1>2, <1>3, <1>4

-----------------------------------------------------------------------------
(* The specification. *)

LEMMA InitInv == Init => BuildIInv
<1> SUFFICES ASSUME Init PROVE BuildIInv
  OBVIOUS
<1>1. TmplOK
  BY DEF Init, TmplOK, TemplateRecords, CanceledIsFailed, RunningIsListed, None
<1>2. CallsOK
  BY NoRecords DEF Init, CallsOK
<1>3. JobsOK
  <2>1. NoJob \in JobRecords /\ NoJob.pc # "save"
    BY NoRecords DEF NoJob, None
  <2> QED
    BY <2>1 DEF Init, JobsOK, JobsListed
<1>4. RestOK
  BY TemplateBuildsAssumption DEF Init, RestOK, WsStates
<1> QED
  BY <1>1, <1>2, <1>3, <1>4, InvParts

LEMMA NextInv == BuildIInv /\ [Next]_vars => BuildIInv'
<1> SUFFICES ASSUME BuildIInv, [Next]_vars PROVE BuildIInv'
  OBVIOUS
<1>0. TmplOK /\ CallsOK /\ JobsOK /\ RestOK
  BY InvParts
<1> DEFINE Goal == TmplOK' /\ CallsOK' /\ JobsOK' /\ RestOK'
<1>1. ASSUME NEW c \in Callers, BuildTemplate(c) \/ CancelBuildTemplate(c) \/ Request(c)
      PROVE  Goal
  <2>1. CASE SaveTemplate(c)
    BY <1>0, <2>1, SaveInv
  <2>2. CASE ~SaveTemplate(c)
    BY <1>0, <1>1, <2>2, RequestInv DEF Request
  <2> QED
    BY <2>1, <2>2
<1>2. ASSUME UpdateTemplate \/ DeleteTemplate \/ OnDeleteTemplate
      PROVE  Goal
  BY <1>0, <1>2, EditInv
<1>3. ASSUME NEW b \in Builds, OnStoppedSave(b)
      PROVE  Goal
  BY <1>0, <1>3, RecordInv
<1>4. ASSUME NEW b \in Builds,
             \/ Report(b) \/ Stopping(b) \/ ForceOnStop(b) \/ SetStopped(b)
             \/ StopWorkspace(b) \/ StalledInit(b) \/ StalledStop(b)
      PROVE  Goal
  BY <1>0, <1>4, WorkspaceWrites
<1>5. ASSUME NEW b \in Builds,
             \/ OnAdd(b) \/ OnStopped(b, TRUE) \/ OnStopped(b, FALSE)
             \/ OnStoppedGet(b) \/ CreateTemplateSnapshot(b) \/ Resume(b) \/ PodLost(b)
      PROVE  Goal
  BY <1>0, <1>5, OtherSteps
<1>6. ASSUME Crash \/ Restart
      PROVE  Goal
  BY <1>0, <1>6, OtherSteps
<1>7. ASSUME UNCHANGED vars
      PROVE  Goal
  BY <1>0, <1>7 DEF vars, TmplOK, CallsOK, JobsOK, RestOK, CanceledIsFailed, RunningIsListed,
                    JobsListed
<1>8. Goal
  <2> HIDE DEF Goal
  <2>1. CASE Next
    BY <1>1, <1>2, <1>3, <1>4, <1>5, <1>6, <2>1 DEF Next, Run
  <2> QED
    BY <1>7, <2>1
<1> QED
  BY <1>8, InvParts

\* At most the build that the Template lists as its running one works.
LEMMA OneWorks == BuildIInv => BuildInv
<1> SUFFICES ASSUME BuildIInv PROVE OneListedBuild
  BY DEF BuildIInv, BuildInv
<1> DEFINE S == {b \in Builds : tmpl.builds[b] = "running" /\ ws[b] \in {"init", "active"}}
<1>1. S \subseteq {tmpl.running}
  BY DEF BuildIInv, RunningIsListed
<1> HIDE DEF S
<1>2. IsFiniteSet({tmpl.running}) /\ Cardinality({tmpl.running}) = 1
  BY FS_Singleton
<1>3. IsFiniteSet(S) /\ Cardinality(S) <= 1
  BY <1>1, <1>2, FS_Subset
<1> QED
  BY <1>3 DEF OneListedBuild, S

\* Whoever writes the Template last - BuildTemplate, CancelBuildTemplate, another
\* update, or the onStopped of a watcher - a build that it has as canceled stays
\* FAILED and is never the current one, and of the builds that it lists as running
\* one Workspace works (doCancelBuild, createBuildRun, onStopped).
THEOREM BuildsRecorded == Spec => []BuildInv
<1>1. Init => BuildIInv
  BY InitInv
<1>2. BuildIInv /\ [Next]_vars => BuildIInv'
  BY NextInv
<1>3. BuildIInv => BuildInv
  BY OneWorks
<1> QED
  BY <1>1, <1>2, <1>3, PTL DEF Spec

-----------------------------------------------------------------------------
(* The current build, until a crash of Nocturne. *)

\* A step of something else leaves build b as it is.
LEMMA RecordKept ==
  ASSUME NEW b \in Builds, RecordedOnce(b), ws'[b] = ws[b], job'[b] = job[b],
         b \in pods' => b \in pods, b \in added' => b \in added,
         tmpl'.builds[b] = "ready" => tmpl.builds[b] = "ready"
  PROVE  RecordedOnce(b)'
BY DEF RecordedOnce

\* A step that writes no Template can disturb only the build it is about.
LEMMA RecordsKept ==
  ASSUME BuildIInv, \A x \in Builds : RecordedOnce(x), UNCHANGED tmpl, NEW b \in Builds,
         NEW w, ws' = [ws EXCEPT ![b] = w], NEW j, job' = [job EXCEPT ![b] = j],
         \A x \in Builds \ {b} : (x \in pods' => x \in pods) /\ (x \in added' => x \in added),
         RecordedOnce(b)'
  PROVE  \A x \in Builds : RecordedOnce(x)'
<1> SUFFICES ASSUME NEW x \in Builds, x # b PROVE RecordedOnce(x)'
  OBVIOUS
<1>1. ws'[x] = ws[x] /\ job'[x] = job[x]
  BY DEF BuildIInv, TypeOK
<1> QED
  BY <1>1, RecordKept

\* The steps of a request.  Only the new build, which has no Workspace before, is new.
LEMMA RequestRecords ==
  ASSUME BuildIInv, CurrentIsReady, \A x \in Builds : RecordedOnce(x), NEW c \in Callers,
         BuildTemplate(c) \/ CancelBuildTemplate(c) \/ Request(c)
  PROVE  CurrentIsReady' /\ \A x \in Builds : RecordedOnce(x)'
<1>0. /\ TmplOK /\ CallsOK /\ JobsOK /\ RestOK
      /\ ws \in [Builds -> WsStates] /\ call[c] \in CallRecords /\ CallOK(call[c], tmpl, ws)
      /\ None \notin Builds
  BY InvParts, TemplateBuildsAssumption DEF RestOK, CallsOK, None
<1>1. CASE BuildTemplate(c) \/ CancelBuildTemplate(c) \/ CancelGet(c) \/ CreateRefused(c)
  <2>1. UNCHANGED <<tmpl, ws, pods, added, job>>
    BY <1>1 DEF BuildTemplate, CancelBuildTemplate, CancelGet, CreateRefused
  <2> QED
    BY <2>1, RecordKept DEF CurrentIsReady
<1>2. CASE CancelStop(c)
  <2> DEFINE b == call[c].seen
  <2>1. /\ UNCHANGED <<tmpl, pods, added, job>> /\ ws' = [ws EXCEPT ![b] = StopState(b)]
        /\ call[c].pc = "stop"
    BY <1>2 DEF CancelStop
  <2>2. b \in Builds /\ ws[b] \notin {None, "gone"}
    BY <1>0, <2>1, CallFields DEF CallOK
  <2>3. \A x \in Builds : ws'[x] = IF x = b THEN StopState(b) ELSE ws[x]
    BY <1>0, <2>1
  <2>4. StopState(b) # None /\ (ws[b] \in {"stopped", "limbo"} => StopState(b) = "limbo")
    BY DEF StopState, None
  <2> HIDE DEF b
  <2>5. ASSUME NEW x \in Builds PROVE RecordedOnce(x)'
    <3>1. CASE x # b
      BY <2>1, <2>3, <3>1, RecordKept
    <3>2. CASE x = b
      BY <2>1, <2>2, <2>3, <2>4, <3>2 DEF RecordedOnce
    <3> QED
      BY <3>1, <3>2
  <2> QED
    BY <2>1, <2>5 DEF CurrentIsReady
<1>3. CASE CreateBuildRun(c)
  <2>1. PICK b \in Builds : /\ ws[b] = None /\ ws' = [ws EXCEPT ![b] = "init"]
                            /\ added' = added \cup {b} /\ UNCHANGED <<tmpl, job, pods>>
    BY <1>3 DEF CreateBuildRun
  <2>2. \A x \in Builds : ws'[x] = IF x = b THEN "init" ELSE ws[x]
    BY <1>0, <2>1
  <2>3. ASSUME NEW x \in Builds PROVE RecordedOnce(x)'
    <3>1. CASE x # b
      BY <2>1, <2>2, <3>1, RecordKept
    <3>2. CASE x = b
      <4>1. tmpl.builds[b] = None
        BY <1>0, <2>1 DEF TmplOK, RunningIsListed
      <4> QED
        BY <2>1, <2>2, <3>2, <4>1 DEF RecordedOnce, None
    <3> QED
      BY <3>1, <3>2
  <2> QED
    BY <2>1, <2>3 DEF CurrentIsReady
<1>4. CASE SaveTemplate(c)
  <2> DEFINE q == call[c]
  <2>1. /\ q.pc = "save" /\ tmpl' = Added(Canceled(tmpl, c), c)
        /\ UNCHANGED <<ws, pods, added>> /\ job' = StaleJobs(job)
    BY <1>4 DEF SaveTemplate
  <2>2. /\ q.marked => q.seen # None /\ q.seen = tmpl.running
        /\ q.new # None => tmpl.builds[q.new] = None
    BY <1>0, <2>1 DEF CallOK
  <2>3. /\ \A x \in Builds : tmpl'.builds[x] =
             IF x = q.new THEN "running" ELSE IF q.marked /\ x = q.seen THEN "failed"
             ELSE tmpl.builds[x]
        /\ tmpl'.ready = tmpl.ready
    BY <1>0, <2>1, <2>2, SavedTemplate
  <2>4. (tmpl.ready # None => tmpl.ready \in Builds) /\ (tmpl.running # None => tmpl.running \in Builds)
    BY <1>0 DEF TmplOK, TemplateRecords
  <2>5. \A x \in Builds : StaleJobs(job)[x] = IF job[x].pc = "save" THEN NoJob ELSE job[x]
    BY DEF StaleJobs
  <2> HIDE DEF q
  <2>6. CurrentIsReady'
    <3> SUFFICES ASSUME tmpl.ready # None PROVE tmpl'.builds[tmpl.ready] = "ready"
      BY <2>3 DEF CurrentIsReady
    <3>1. tmpl.builds[tmpl.ready] = "ready" /\ tmpl.ready # q.new
      BY <2>2, <2>4 DEF CurrentIsReady, None
    <3>2. ~(q.marked /\ tmpl.ready = q.seen)
      BY <1>0, <2>2, <3>1 DEF TmplOK, RunningIsListed
    <3> QED
      BY <2>3, <2>4, <3>1, <3>2
  <2>7. ASSUME NEW x \in Builds PROVE RecordedOnce(x)'
    <3>1. tmpl'.builds[x] = "ready" => tmpl.builds[x] = "ready"
      BY <2>3
    <3>2. CASE job[x].pc # "save"
      BY <2>1, <2>5, <3>1, <3>2, RecordKept
    <3>3. CASE job[x].pc = "save"
      <4>1. tmpl.builds[x] # "ready"
        BY <3>3 DEF RecordedOnce, None
      <4> QED
        BY <2>1, <2>5, <3>1, <3>3, <4>1 DEF RecordedOnce, NoJob, None
    <3> QED
      BY <3>2, <3>3
  <2> QED
    BY <2>6, <2>7
<1> QED
  BY <1>1, <1>2, <1>3, <1>4 DEF Request

\* The other changes of the Template, which no watcher's save survives.
LEMMA EditRecords ==
  ASSUME BuildIInv, CurrentIsReady, \A x \in Builds : RecordedOnce(x),
         UpdateTemplate \/ DeleteTemplate \/ OnDeleteTemplate
  PROVE  CurrentIsReady' /\ \A x \in Builds : RecordedOnce(x)'
<1>1. /\ tmpl'.builds = tmpl.builds /\ tmpl'.ready = tmpl.ready
      /\ UNCHANGED <<ws, pods, added>> /\ job' \in {job, StaleJobs(job)}
  BY DEF UpdateTemplate, DeleteTemplate, OnDeleteTemplate, BuildIInv, TypeOK, TemplateRecords
<1>2. \A x \in Builds : StaleJobs(job)[x] = IF job[x].pc = "save" THEN NoJob ELSE job[x]
  BY DEF StaleJobs
<1>3. ASSUME NEW x \in Builds PROVE RecordedOnce(x)'
  <2>1. CASE job'[x] = job[x]
    BY <1>1, <2>1, RecordKept
  <2>2. CASE job[x].pc = "save" /\ job'[x] = NoJob
    BY <1>1, <2>2 DEF RecordedOnce, NoJob, None
  <2> QED
    BY <1>1, <1>2, <2>1, <2>2
<1> QED
  BY <1>1, <1>3 DEF CurrentIsReady

\* onStopped: a build that is READY already has no save left to do.
LEMMA SaveRecords ==
  ASSUME BuildIInv, CurrentIsReady, \A x \in Builds : RecordedOnce(x), NEW b \in Builds,
         OnStoppedSave(b)
  PROVE  CurrentIsReady' /\ \A x \in Builds : RecordedOnce(x)'
<1> DEFINE r == Result(tmpl, b)
           j == [job[b] EXCEPT !.pc = IF r = "ready" THEN "snap" ELSE "status"]
<1>1. /\ tmpl \in TemplateRecords /\ None \notin Builds /\ job \in [Builds -> JobRecords]
      /\ tmpl.builds \in [Builds -> {None, "running", "ready", "failed"}]
      /\ tmpl.ready # None => tmpl.ready \in Builds
  BY TemplateBuildsAssumption DEF BuildIInv, TypeOK, TemplateRecords, None
<1>2. /\ job[b].pc = "save" /\ tmpl.builds[b] # "ready"
      /\ UNCHANGED <<ws, pods, added>> /\ ws[b] # None
      /\ b \in added => job[b].failed
  BY DEF OnStoppedSave, RecordedOnce, None
<1>3. r = "ready" => ~job[b].failed
  BY DEF Result
<1>4. /\ tmpl'.builds = [tmpl.builds EXCEPT ![b] = r]
      /\ tmpl'.ready = IF r = "ready" THEN b ELSE tmpl.ready
  BY <1>1 DEF OnStoppedSave, Recorded, TemplateRecords
<1>5. job' = [StaleJobs(job) EXCEPT ![b] = j]
  BY DEF OnStoppedSave
<1>6. j.pc = IF r = "ready" THEN "snap" ELSE "status"
  BY <1>1 DEF JobRecords
<1> HIDE DEF r, j
<1>7. \A x \in Builds : tmpl'.builds[x] = IF x = b THEN r ELSE tmpl.builds[x]
  BY <1>1, <1>4
<1>8. \A x \in Builds : job'[x] = IF x = b THEN j ELSE IF job[x].pc = "save" THEN NoJob ELSE job[x]
  BY <1>1, <1>5 DEF StaleJobs
<1>9. CurrentIsReady'
  BY <1>1, <1>2, <1>4, <1>7 DEF CurrentIsReady
<1>10. ASSUME NEW x \in Builds PROVE RecordedOnce(x)'
  <2>1. CASE x = b
    BY <1>2, <1>3, <1>6, <1>7, <1>8, <2>1 DEF RecordedOnce, None
  <2>2. CASE x # b /\ job[x].pc = "save"
    BY <1>2, <1>7, <1>8, <2>2 DEF RecordedOnce, NoJob, None
  <2>3. CASE x # b /\ job[x].pc # "save"
    BY <1>2, <1>7, <1>8, <2>3, RecordKept
  <2> QED
    BY <2>1, <2>2, <2>3
<1> QED
  BY <1>9, <1>10

\* The other steps of a build, by what they do to its watcher.
LEMMA RunRecords ==
  ASSUME BuildIInv, CurrentIsReady, \A x \in Builds : RecordedOnce(x), crashes = 0,
         NEW b \in Builds, (Run(b) /\ ~OnStoppedSave(b)) \/ Report(b) \/ StopWorkspace(b)
                           \/ Resume(b) \/ StalledInit(b) \/ StalledStop(b) \/ PodLost(b)
  PROVE  CurrentIsReady' /\ \A x \in Builds : RecordedOnce(x)'
<1>0. /\ ws \in [Builds -> WsStates] /\ job \in [Builds -> JobRecords]
      /\ ws[b] = None => tmpl.builds[b] = None
      /\ pods \subseteq Builds /\ added \subseteq Builds
  BY DEF BuildIInv, TypeOK, WsStates, RunningIsListed
<1>1. UNCHANGED tmpl
  BY DEF Run, OnAdd, Stopping, OnStopped, ForceOnStop, OnStoppedGet, CreateTemplateSnapshot,
         SetStopped, Report, StopWorkspace, Resume, StalledInit, StalledStop, PodLost
<1>2. RecordedOnce(b)
  OBVIOUS
<1> DEFINE Others == \A x \in Builds \ {b} : /\ ws'[x] = ws[x] /\ job'[x] = job[x]
                                             /\ x \in pods' => x \in pods
                                             /\ x \in added' => x \in added
           Goal == Others /\ RecordedOnce(b)'
<1>3. Goal => CurrentIsReady' /\ \A x \in Builds : RecordedOnce(x)'
  BY <1>1, RecordKept DEF CurrentIsReady
<1>4. ASSUME NEW st, SetState(b, st)
      PROVE  /\ ws'[b] = st /\ \A x \in Builds \ {b} : ws'[x] = ws[x]
  BY <1>0, <1>4 DEF SetState
<1>5. CASE OnAdd(b)
  <2>1. /\ b \in added /\ added' = added \ {b} /\ UNCHANGED ws
        /\ pods' \in {pods, pods \cup {b}}
        /\ job' \in {job, [job EXCEPT ![b] = [NoJob EXCEPT !.pc = "watch"]]}
    BY <1>5 DEF OnAdd
  <2>2. Others
    BY <1>0, <2>1
  <2>3. tmpl.builds[b] # "ready" /\ ws[b] # None
    BY <1>2, <2>1 DEF RecordedOnce
  <2>4. RecordedOnce(b)'
    BY <1>1, <2>1, <2>3 DEF RecordedOnce
  <2> QED
    BY <1>3, <2>2, <2>4
<1>6. CASE Stopping(b)
  <2>1. /\ job[b].pc = "watch" /\ b \in pods /\ UNCHANGED <<pods, added>>
        /\ job' = [job EXCEPT ![b].pc = "ending"]
    BY <1>6 DEF Stopping, Watched
  <2>2. ws[b] # None /\ b \notin added /\ tmpl.builds[b] # "ready"
    BY <1>2, <2>1 DEF RecordedOnce, None
  <2>3. ws'[b] # None /\ \A x \in Builds \ {b} : ws'[x] = ws[x]
    BY <1>4, <1>6, <2>2 DEF Stopping, None
  <2>4. Others
    BY <1>0, <2>1, <2>3
  <2>5. RecordedOnce(b)'
    BY <1>1, <2>1, <2>2, <2>3 DEF RecordedOnce
  <2> QED
    BY <1>3, <2>4, <2>5
<1>7. ASSUME NEW f \in BOOLEAN, OnStopped(b, f) PROVE Goal
  <2>1. /\ job[b].pc = "ending" /\ b \in pods /\ UNCHANGED <<ws, added>> /\ pods' = pods \ {b}
        /\ job' = [job EXCEPT ![b] = [NoJob EXCEPT !.pc = "get", !.failed = f]]
    BY <1>7 DEF OnStopped
  <2>2. ws[b] # None /\ b \notin added /\ tmpl.builds[b] # "ready"
    BY <1>2, <2>1 DEF RecordedOnce, None
  <2> QED
    BY <1>0, <1>1, <2>1, <2>2 DEF RecordedOnce
<1>8. CASE ForceOnStop(b)
  <2>1. /\ job[b].pc \in {"watch", "ending"} /\ b \notin pods /\ UNCHANGED <<pods, added>>
        /\ job' = [job EXCEPT ![b] = [NoJob EXCEPT !.pc = "get", !.failed = TRUE]]
    BY <1>8 DEF ForceOnStop
  <2>2. ws[b] # None /\ tmpl.builds[b] # "ready"
    BY <1>2, <2>1 DEF RecordedOnce, None
  <2>3. ws'[b] # None /\ \A x \in Builds \ {b} : ws'[x] = ws[x]
    BY <1>4, <1>8, <2>2 DEF ForceOnStop, None
  <2>4. Others
    BY <1>0, <2>1, <2>3
  <2>5. job'[b].pc = "get" /\ job'[b].failed
    BY <1>0, <2>1 DEF NoJob
  <2>6. RecordedOnce(b)'
    BY <1>1, <1>2, <2>1, <2>2, <2>3, <2>5 DEF RecordedOnce
  <2> QED
    BY <1>3, <2>4, <2>6
<1>9. CASE OnStoppedGet(b)
  <2>1. job[b].pc = "get" /\ UNCHANGED <<ws, pods, added>>
    BY <1>9 DEF OnStoppedGet
  <2>2. /\ job'[b].pc \in {"save", "status"} /\ job'[b].failed = job[b].failed
        /\ \A x \in Builds \ {b} : job'[x] = job[x]
    BY <1>0, <1>9 DEF OnStoppedGet, JobRecords
  <2>3. tmpl.builds[b] # "ready" /\ ws[b] # None
    BY <1>2, <2>1 DEF RecordedOnce, None
  <2>4. RecordedOnce(b)'
    BY <1>1, <1>2, <2>1, <2>2, <2>3 DEF RecordedOnce
  <2> QED
    BY <1>3, <2>1, <2>2, <2>4
<1>10. CASE CreateTemplateSnapshot(b)
  <2>1. job[b].pc = "snap" /\ UNCHANGED <<ws, pods, added>>
    BY <1>10 DEF CreateTemplateSnapshot
  <2>2. job'[b].pc = "status" /\ \A x \in Builds \ {b} : job'[x] = job[x]
    BY <1>0, <1>10 DEF CreateTemplateSnapshot, JobRecords
  <2>3. RecordedOnce(b)'
    BY <1>1, <1>2, <2>1, <2>2 DEF RecordedOnce, None
  <2> QED
    BY <1>3, <2>1, <2>2, <2>3
<1>11. CASE SetStopped(b)
  <2>1. /\ job[b].pc = "status" /\ UNCHANGED <<pods, added>> /\ job' = [job EXCEPT ![b] = NoJob]
        /\ ws[b] # None
    BY <1>2, <1>11 DEF SetStopped, RecordedOnce, None
  <2>2. ws'[b] \in {"stopped", "gone"} /\ \A x \in Builds \ {b} : ws'[x] = ws[x]
    BY <1>4, <1>11, <2>1 DEF SetStopped, Exists
  <2>3. Others
    BY <1>0, <2>1, <2>2
  <2>4. job'[b].pc = None
    BY <1>0, <2>1 DEF NoJob
  <2>5. RecordedOnce(b)'
    BY <1>1, <1>2, <2>1, <2>2, <2>4 DEF RecordedOnce, None
  <2> QED
    BY <1>3, <2>3, <2>5
<1>12. CASE Report(b) \/ StalledInit(b)
  <2>1. UNCHANGED <<job, pods, added>>
    BY <1>12 DEF Report, StalledInit
  <2>2. /\ ws'[b] \in {"active", "gone"} /\ \A x \in Builds \ {b} : ws'[x] = ws[x]
        /\ ws[b] \in {"init", "stopreq", "active"}
        /\ job[b].pc \in {"watch", None}
    BY <1>4, <1>12 DEF Report, StalledInit, Watched, Unwatched
  <2>3. tmpl.builds[b] # "ready" /\ ws[b] # None
    BY <1>2, <2>2 DEF RecordedOnce, None
  <2>4. RecordedOnce(b)'
    BY <1>1, <1>2, <2>1, <2>2, <2>3 DEF RecordedOnce, None
  <2> QED
    BY <1>3, <2>1, <2>2, <2>4
<1>13. CASE StopWorkspace(b)
  <2>1. UNCHANGED <<job, added>> /\ pods' \subseteq pods
    BY <1>13 DEF StopWorkspace
  <2>2. /\ ws'[b] = ws[b] \/ (ws[b] # None /\ ws'[b] = "stopped")
        /\ \A x \in Builds \ {b} : ws'[x] = ws[x]
    BY <1>4, <1>13 DEF StopWorkspace, None
  <2>3. RecordedOnce(b)'
    BY <1>1, <1>2, <2>1, <2>2 DEF RecordedOnce, None
  <2> QED
    BY <1>3, <2>1, <2>2, <2>3
<1>14. CASE Resume(b)
  <2>1. /\ job[b].pc = None /\ ws[b] \in {"active", "stopreq", "stopping"}
        /\ UNCHANGED <<ws, pods, added>>
    BY <1>14 DEF Resume, Unwatched
  <2>2. job'[b].pc = "watch" /\ \A x \in Builds \ {b} : job'[x] = job[x]
    BY <1>0, <1>14 DEF Resume, JobRecords
  <2>3. tmpl.builds[b] # "ready" /\ ws[b] # None
    BY <1>2, <2>1 DEF RecordedOnce, None
  <2>4. RecordedOnce(b)'
    BY <1>1, <1>2, <2>1, <2>2, <2>3 DEF RecordedOnce
  <2> QED
    BY <1>3, <2>1, <2>2, <2>4
<1>15. CASE PodLost(b)
  <2>1. UNCHANGED <<job, ws, added>> /\ pods' \subseteq pods
    BY <1>15 DEF PodLost
  <2>2. RecordedOnce(b)'
    BY <1>1, <1>2, <2>1 DEF RecordedOnce
  <2> QED
    BY <1>3, <2>1, <2>2
<1>16. ~StalledStop(b)
  BY DEF StalledStop
<1> HIDE DEF Goal
<1> QED
  BY <1>3, <1>5, <1>6, <1>7, <1>8, <1>9, <1>10, <1>11, <1>12, <1>13, <1>14, <1>15, <1>16 DEF Run

LEMMA ReadyNext == BuildIInv /\ ReadyIInv /\ [Next]_vars => ReadyIInv'
<1> SUFFICES ASSUME BuildIInv, ReadyIInv, [Next]_vars, crashes' = 0
             PROVE  CurrentIsReady' /\ \A x \in Builds : RecordedOnce(x)'
  BY DEF ReadyIInv
<1>1. ~Crash /\ crashes = 0
  <2>1. crashes \in Nat
    BY TemplateBuildsAssumption DEF BuildIInv, TypeOK
  <2>2. ~Crash
    BY <2>1 DEF Crash
  <2>3. UNCHANGED crashes
    BY <2>2 DEF Next, Request, Run, vars, BuildTemplate, CancelBuildTemplate, CancelGet,
      CancelStop, CreateRefused, CreateBuildRun, SaveTemplate, UpdateTemplate, DeleteTemplate,
      OnDeleteTemplate, OnAdd, Stopping, OnStopped, ForceOnStop, OnStoppedGet, OnStoppedSave,
      CreateTemplateSnapshot, SetStopped, Report, StopWorkspace, Resume, StalledInit,
      StalledStop, PodLost, Restart
  <2> QED
    BY <2>2, <2>3
<1>2. CurrentIsReady /\ \A x \in Builds : RecordedOnce(x)
  BY <1>1 DEF ReadyIInv
<1>3. ASSUME NEW c \in Callers, BuildTemplate(c) \/ CancelBuildTemplate(c) \/ Request(c)
      PROVE  CurrentIsReady' /\ \A x \in Builds : RecordedOnce(x)'
  BY <1>2, <1>3, RequestRecords
<1>4. ASSUME UpdateTemplate \/ DeleteTemplate \/ OnDeleteTemplate
      PROVE  CurrentIsReady' /\ \A x \in Builds : RecordedOnce(x)'
  BY <1>2, <1>4, EditRecords
<1>5. ASSUME NEW b \in Builds, OnStoppedSave(b)
      PROVE  CurrentIsReady' /\ \A x \in Builds : RecordedOnce(x)'
  BY <1>2, <1>5, SaveRecords
<1>6. ASSUME NEW b \in Builds, \/ (Run(b) /\ ~OnStoppedSave(b)) \/ Report(b) \/ StopWorkspace(b)
                               \/ Resume(b) \/ StalledInit(b) \/ StalledStop(b) \/ PodLost(b)
      PROVE  CurrentIsReady' /\ \A x \in Builds : RecordedOnce(x)'
  BY <1>1, <1>2, <1>6, RunRecords
<1>7. ASSUME Restart \/ UNCHANGED vars
      PROVE  CurrentIsReady' /\ \A x \in Builds : RecordedOnce(x)'
  <2>1. UNCHANGED <<tmpl, ws, pods, added, job>>
    BY <1>7 DEF Restart, vars
  <2> QED
    BY <1>2, <2>1, RecordKept DEF CurrentIsReady
<1> QED
  BY <1>1, <1>3, <1>4, <1>5, <1>6, <1>7 DEF Next

\* Until Nocturne crashes, the build that new Workspaces are restored from is one that
\* is READY, whatever requests cancel or replace builds meanwhile: nothing records a
\* build that is READY a second time (onStopped, doCancelBuild).
THEOREM CurrentReady == Spec => []CurrentStaysReady
<1>1. Init => BuildIInv
  BY InitInv
<1>2. Init => ReadyIInv
  BY DEF Init, ReadyIInv, CurrentIsReady, RecordedOnce, NoJob, None
<1>3. BuildIInv /\ [Next]_vars => BuildIInv'
  BY NextInv
<1>4. BuildIInv /\ ReadyIInv /\ [Next]_vars => ReadyIInv'
  BY ReadyNext
<1>5. ReadyIInv => CurrentStaysReady
  BY DEF ReadyIInv, CurrentStaysReady
<1> QED
  BY <1>1, <1>2, <1>3, <1>4, <1>5, PTL DEF Spec
=============================================================================
