-------------------------- MODULE WatchTriggerProofs ---------------------------
(***************************************************************************)
(* What the watches do to the rows of trigger_log they answer, and what    *)
(* their subscribers are told: the properties of WatchProperties about     *)
(* triggers and notifications.                                             *)
(*                                                                         *)
(* The effects of WatchProofs forget which end a watch came to, where its  *)
(* worker went and who was told.  Here the steps of a worker and of a tool *)
(* handler are summed up again with these (WorkerOutcome, WorkerPosition,  *)
(* HandlerOutcome), and each property is proved from the summaries.        *)
(***************************************************************************)
EXTENDS WatchProofs

\* The watch w becomes y, and who could see a difference is told.
Becomes(w, y) ==
  /\ watch' = [watch EXCEPT ![w] = y]
  /\ \/ View(y) = View(watch[w]) /\ UNCHANGED notify
     \/ Announce(w)

\* What the step of its worker makes of a watch: never a cancelled one.
WorkerOutcome(w) ==
  \/ UNCHANGED <<watch, notify>>
  \/ \E y \in Watch :
       /\ Live(w) /\ Becomes(w, y)
       /\ y.status # "CANCELLED"
       /\ \/ y.trigger = watch[w].trigger
          \/ worker[w].pc = "apply" /\ y.trigger = worker[w].trigger

\* Where the step leaves the worker, and trigger_log.
WorkerPosition(w) ==
  \/ \E s \in Worker :
       /\ worker' = [worker EXCEPT ![w] = s]
       /\ s.pc \notin {"settle", "apply"}
       /\ UNCHANGED triggerLog
  \/ \E s \in Worker :
       /\ worker' = [worker EXCEPT ![w] = s]
       /\ s.trigger \in LatestIds(triggerLog, PROf(watch[w].key))
       /\ s.pc = "apply" /\ ~s.low /\ s.review \in FinalReview
            => ~IsPending(triggerLog, s.trigger)
       /\ UNCHANGED triggerLog
  \/ /\ worker[w].pc = "settle"
     /\ worker' = [worker EXCEPT ![w].pc = "apply"]
     /\ triggerLog' = UpdateCompletedAt(triggerLog, worker[w].trigger)

LEMMA FinishedFields ==
  ASSUME NEW x \in Watch, NEW status \in FinalStatus, NEW reason \in Reason,
         NEW hint \in BOOLEAN
  PROVE  /\ Finished(x, status, reason, hint) \in Watch
         /\ Finished(x, status, reason, hint).trigger = x.trigger
         /\ Finished(x, status, reason, hint).status = status
  BY FinishedType DEF Finished, Watch

LEMMA DegradedFields ==
  ASSUME NEW x \in Watch
  PROVE  /\ Degraded(x) \in Watch
         /\ Degraded(x).trigger = x.trigger
         /\ Degraded(x).status # "CANCELLED"
  BY DegradedType DEF Degraded, Watch

LEMMA FinishOutcome ==
  ASSUME WellFormed, NEW w \in WatchId, NEW x \in Watch,
         NEW status \in FinalStatus, NEW reason \in Reason, NEW hint \in BOOLEAN,
         Finish(w, x, status, reason, hint)
  PROVE  \E y \in Watch :
           /\ Becomes(w, y)
           /\ y.status = "CANCELLED" => status = "CANCELLED"
           /\ y.trigger = x.trigger
<1> DEFINE f == Finished(x, status, reason, hint)
<1>1. f \in Watch /\ f.trigger = x.trigger /\ f.status = status
  BY FinishedFields
<1>2. Degraded(f) \in Watch /\ Degraded(f).trigger = x.trigger /\ Degraded(f).status # "CANCELLED"
  BY <1>1, DegradedFields
<1>3. Announce(w) /\ (watch' = [watch EXCEPT ![w] = f] \/ watch' = [watch EXCEPT ![w] = Degraded(f)])
  BY DEF Finish, Store
<1> HIDE DEF f
<1> QED
  BY <1>1, <1>2, <1>3 DEF Becomes

LEMMA FinishByWorker ==
  ASSUME WellFormed, NEW w \in WatchId, Live(w), NEW x \in Watch,
         NEW status \in FinalStatus, NEW reason \in Reason, NEW hint \in BOOLEAN,
         status # "CANCELLED", Finish(w, x, status, reason, hint),
         \/ x.trigger = watch[w].trigger
         \/ worker[w].pc = "apply" /\ x.trigger = worker[w].trigger
  PROVE  WorkerOutcome(w)
<1>1. PICK y \in Watch : Becomes(w, y) /\ y.status # "CANCELLED" /\ y.trigger = x.trigger
  BY FinishOutcome
<1> QED
  BY <1>1 DEF WorkerOutcome

LEMMA FinishStateOutcome ==
  ASSUME WellFormed, NEW w \in WatchId,
         NEW status \in FinalStatus, NEW reason \in Reason, NEW hint \in BOOLEAN,
         status # "CANCELLED", FinishState(w, status, reason, hint)
  PROVE  WorkerOutcome(w)
<1>1. CASE Live(w)
  <2>1. watch[w] \in Watch
    BY <1>1, LoadedType DEF Live, WellFormed
  <2> QED
    BY <1>1, <2>1, FinishByWorker DEF FinishState
<1>2. CASE ~Live(w)
  BY <1>2 DEF FinishState, WorkerOutcome
<1> QED
  BY <1>1, <1>2

\* A poll is only kept from the subscribers if they would see no difference.
LEMMA RecordOutcome ==
  ASSUME WellFormed, NEW w \in WatchId, Live(w), NEW x \in Watch, NEW tell \in BOOLEAN,
         Record(w, x, tell), ~tell => View(x) = View(watch[w]), x.status # "CANCELLED",
         \/ x.trigger = watch[w].trigger
         \/ worker[w].pc = "apply" /\ x.trigger = worker[w].trigger
  PROVE  WorkerOutcome(w)
<1>1. CASE Becomes(w, x)
  BY <1>1 DEF WorkerOutcome
<1>2. CASE Becomes(w, Degraded(x))
  BY <1>2, DegradedFields DEF WorkerOutcome
<1> QED
  BY <1>1, <1>2 DEF Record, Becomes

LEMMA WorkerStepOutcome ==
  ASSUME WellFormed, NEW w \in WatchId, WorkerStep(w)
  PROVE  WorkerOutcome(w)
<1> USE DEF WellFormed
<1>0. Live(w) => watch[w] \in Watch
  BY LoadedType DEF Live
<1>f. {"TIMEOUT", "FAILED", "RATE_LIMITED", "STALE", "COMPLETED", "BLOCKED"} \subseteq FinalStatus
      /\ {"NONE", "AUTH_EXPIRED", "GITHUB_ERROR", "INTERNAL_ERROR"} \subseteq Reason
  BY DEF FinalStatus, Reason
<1>1. CASE PollExpire(w)
  BY <1>1, <1>f, FinishStateOutcome DEF PollExpire
<1>2. CASE PollBegin(w)
  BY <1>2, <1>f, FinishStateOutcome DEF PollBegin, WorkerOutcome
<1>3. CASE PollCancelled(w) \/ WorkerTick(w) \/ WorkerDone(w)
  BY <1>3 DEF PollCancelled, WorkerTick, WorkerDone, WorkerOutcome, memory, events
<1>4. CASE PollError(w)
  BY <1>4, <1>f, FinishStateOutcome DEF PollError
<1>5. CASE PollUpstreamFailure(w)
  <2> DEFINE x == [watch[w] EXCEPT !.failures = @ + 1]
  <2>1. CASE ~Live(w)
    BY <1>5, <2>1 DEF PollUpstreamFailure, WorkerOutcome
  <2>2. CASE Live(w)
    <3>1. x \in Watch /\ x.trigger = watch[w].trigger /\ View(x) = View(watch[w])
      BY <1>0, <2>2 DEF Watch, View
    <3>2. x.status # "CANCELLED"
      BY <2>2, LiveIsWatching DEF Watch
    <3>3. Finish(w, x, "FAILED", "AUTH_EXPIRED", TRUE) \/ Record(w, x, FALSE)
      BY <1>5, <2>2 DEF PollUpstreamFailure
    <3> HIDE DEF x
    <3>4. CASE Finish(w, x, "FAILED", "AUTH_EXPIRED", TRUE)
      BY <1>f, <2>2, <3>1, <3>4, FinishByWorker
    <3>5. CASE Record(w, x, FALSE)
      BY <2>2, <3>1, <3>2, <3>5, RecordOutcome
    <3> QED
      BY <3>3, <3>4, <3>5
  <2> QED
    BY <2>1, <2>2
<1>6. CASE PollAnswer(w)
  BY <1>6, <1>f, FinishStateOutcome DEF PollAnswer, WorkerOutcome
<1>7. CASE PollSettle(w)
  BY <1>7, <1>f, FinishStateOutcome DEF PollSettle, WorkerOutcome
<1>8. CASE PollApply(w)
  <2> DEFINE x == Answered(watch[w], worker[w])
             y == [x EXCEPT !.failures = 0]
             tell == StatusChanged(watch[w].review, y.review)
  <2>1. CASE ~Live(w)
    BY <1>8, <2>1 DEF PollApply, WorkerOutcome
  <2>2. CASE Live(w)
    <3>0. worker[w].review \in ReviewStatus /\ worker[w].trigger \in Nat /\ worker[w].pc = "apply"
      BY <1>8 DEF PollApply, TypeOK, Worker
    <3>1. /\ x \in Watch
          /\ x.trigger = watch[w].trigger \/ x.trigger = worker[w].trigger
          /\ x.status = "WATCHING"
      BY <1>0, <2>2, <3>0, LiveIsWatching DEF Answered, Watch
    <3>2. /\ y \in Watch
          /\ y.trigger = x.trigger /\ y.status = "WATCHING" /\ y.review = x.review
      BY <3>1 DEF Watch
    <3>3. ~tell => View(y) = View(watch[w])
      BY <2>2, <3>2, LiveIsWatching DEF StatusChanged, View
    <3>4. \/ Finish(w, x, "RATE_LIMITED", "NONE", FALSE)
          \/ x.review \in FinalReview /\ Finish(w, x, x.review, "NONE", FALSE)
          \/ Record(w, y, tell)
      <4>1. tell = StatusChanged(watch[w].review, x.review)
        BY <3>2
      <4> HIDE DEF tell
      <4> QED
        BY <1>8, <2>2, <4>1 DEF PollApply
    <3>5. tell \in BOOLEAN
      BY DEF StatusChanged
    <3> HIDE DEF x, y, tell
    <3>6. CASE Finish(w, x, "RATE_LIMITED", "NONE", FALSE)
      BY <1>f, <2>2, <3>0, <3>1, <3>6, FinishByWorker
    <3>7. CASE x.review \in FinalReview /\ Finish(w, x, x.review, "NONE", FALSE)
      <4>1. x.review \in FinalStatus /\ x.review # "CANCELLED"
        BY <3>7 DEF FinalReview, FinalStatus
      <4> QED
        BY <1>f, <2>2, <3>0, <3>1, <3>7, <4>1, FinishByWorker
    <3>8. CASE Record(w, y, tell)
      BY <2>2, <3>0, <3>1, <3>2, <3>3, <3>5, <3>8, RecordOutcome
    <3> QED
      BY <3>4, <3>6, <3>7, <3>8
  <2> QED
    BY <2>1, <2>2
<1>9. CASE WorkerPanic(w)
  BY <1>9, <1>f, FinishStateOutcome DEF WorkerPanic
<1> QED
  BY <1>1, <1>2, <1>3, <1>4, <1>5, <1>6, <1>7, <1>8, <1>9 DEF WorkerStep

\* The worker moves to a position where it holds no trigger.
LEMMA GotoPosition ==
  ASSUME NEW w \in WatchId, NEW s \in Worker, s.pc \notin {"settle", "apply"},
         worker' = [worker EXCEPT ![w] = s], UNCHANGED triggerLog
  PROVE  WorkerPosition(w)
  BY DEF WorkerPosition

LEMMA AtPosition ==
  ASSUME NEW w \in WatchId, NEW pc \in {"poll", "wait", "done"},
         Goto(w, pc), UNCHANGED triggerLog
  PROVE  WorkerPosition(w)
<1>1. At(pc) \in Worker /\ At(pc).pc = pc
  BY AtType DEF At
<1> QED
  BY <1>1, GotoPosition DEF Goto

LEMMA WorkerStepPosition ==
  ASSUME WellFormed, NEW w \in WatchId, WorkerStep(w)
  PROVE  WorkerPosition(w)
<1> USE DEF WellFormed, memory, disk, bounds, events
<1>a. IsLog(triggerLog, PR, RequestTime)
  BY DEF TypeOK, IsLog
<1>b. ASSUME NEW status, NEW reason, NEW hint,
             FinishState(w, status, reason, hint), UNCHANGED triggerLog
      PROVE  WorkerPosition(w)
  BY <1>b, AtPosition DEF FinishState, Stop
<1>1. CASE PollExpire(w)
  BY <1>1, <1>b DEF PollExpire
<1>2. CASE PollBegin(w)
  <2>1. CASE NoClient(w)
    BY <1>2, <1>b, <2>1 DEF PollBegin
  <2>2. CASE ~NoClient(w)
    <3>1. watch[w] \in Watch
      BY <1>2, LoadedType DEF PollBegin, WorkersAreLoaded
    <3>2. [pc |-> "fetch", token |-> watch[w].token] \in Worker
      BY <2>2, <3>1 DEF NoClient, Watch, Worker
    <3> QED
      BY <1>2, <2>2, <3>2, GotoPosition DEF PollBegin
  <2> QED
    BY <2>1, <2>2
<1>3. CASE PollCancelled(w) \/ WorkerTick(w) \/ WorkerDone(w)
  BY <1>3, AtPosition DEF PollCancelled, WorkerTick, WorkerDone, Stop
<1>4. CASE PollError(w)
  BY <1>4, <1>b DEF PollError
<1>5. CASE PollUpstreamFailure(w)
  BY <1>5, AtPosition DEF PollUpstreamFailure, Record, Stop
<1>6. CASE PollAnswer(w)
  <2>1. ASSUME NEW review \in ReviewStatus, NEW low \in BOOLEAN,
               NEW t \in LatestIds(triggerLog, PROf(watch[w].key)),
               worker' = [worker EXCEPT ![w] =
                 [pc |-> PhaseAfter(review, low, t),
                  review |-> review, low |-> low, trigger |-> t]],
               UNCHANGED triggerLog
        PROVE  WorkerPosition(w)
    <3> DEFINE s == [pc |-> PhaseAfter(review, low, t),
                     review |-> review, low |-> low, trigger |-> t]
    <3>1. t \in Nat
      BY <1>a, LatestIdsType
    <3>2. s \in Worker
      BY <3>1 DEF PhaseAfter, Worker
    <3>3. s.pc = "apply" /\ ~s.low /\ s.review \in FinalReview => ~IsPending(triggerLog, s.trigger)
      BY DEF PhaseAfter
    <3>4. s.trigger = t
      OBVIOUS
    <3> HIDE DEF s
    <3> QED
      BY <2>1, <3>2, <3>3, <3>4 DEF WorkerPosition, s
  <2> QED
    BY <1>6, <1>b, <2>1 DEF PollAnswer
<1>7. CASE PollSettle(w)
  BY <1>7, <1>b DEF PollSettle, WorkerPosition
<1>8. CASE PollApply(w)
  <2>1. Goto(w, "wait") \/ Goto(w, "done")
    BY <1>8 DEF PollApply, Record, Stop
  <2> QED
    BY <1>8, <2>1, AtPosition DEF PollApply
<1>9. CASE WorkerPanic(w)
  BY <1>9, <1>b DEF WorkerPanic
<1> QED
  BY <1>1, <1>2, <1>3, <1>4, <1>5, <1>6, <1>7, <1>8, <1>9 DEF WorkerStep

-----------------------------------------------------------------------------
(* The steps of a tool handler.                                            *)

\* What a handler makes of the watches, and who is told.
HandlerOutcome(c) ==
  \/ UNCHANGED <<watch, notify, seen>>
  \/ \E w \in WatchId : \E y \in Watch :
       /\ Live(w) /\ Becomes(w, y) /\ UNCHANGED <<seen, triggerLog>>
       /\ y.status # "CANCELLED"
       /\ \/ y.trigger = watch[w].trigger
          \/ call[c].op = "start" /\ y.trigger = call[c].trigger
  \/ \E w \in WatchId : \E y \in Watch :
       /\ Live(w) /\ Becomes(w, y) /\ UNCHANGED <<seen, triggerLog>>
       /\ y.trigger = watch[w].trigger
       /\ call' = [call EXCEPT ![c] = AfterCancel(w)]
  \/ \E w \in WatchId : \E y \in Watch :
       /\ watch' = [watch EXCEPT ![w] = y]
       /\ y.status = "WATCHING"
       /\ call[c].op = "start" /\ y.trigger = call[c].trigger
       /\ seen' = [seen EXCEPT ![w] = IF Notifies THEN View(y) ELSE @]
       /\ UNCHANGED <<notify, triggerLog>>

\* Where the step leaves the handler, and trigger_log.
HandlerPosition(c) ==
  \E d \in Call :
    /\ call' = [call EXCEPT ![c] = d]
    /\ d.op = "start" => \E k \in Key : d.trigger \in LatestIds(triggerLog, PROf(k))
    /\ \/ call[c].op # "cancel"
       \/ /\ triggerLog' = UpdateCompletedAt(triggerLog, call[c].trigger) \/ MaxFaults > 0
          /\ UNCHANGED watch
    /\ \/ UNCHANGED triggerLog
       \/ \E id : triggerLog' = UpdateCompletedAt(triggerLog, id)
       \/ \E pr \in PR, at \in RequestTime : triggerLog' = Insert(triggerLog, pr, at)

LEMMA StartReuseOutcome ==
  ASSUME WellFormed, NEW c \in Caller, StartReuse(c)
  PROVE  HandlerOutcome(c)
<1> DEFINE in == call[c]
           w == active[in.key]
           x == Reused(watch[w], in)
<1>1. in.key \in Key /\ in.token \in Token /\ in.trigger \in Nat
  BY DEF StartReuse, WellFormed, TypeOK, Call, Idle
<1>2. w \in WatchId /\ Live(w)
  BY <1>1 DEF StartReuse, ActiveWatch, WellFormed, TypeOK
<1>3. watch[w] \in Watch /\ watch[w].status = "WATCHING"
  BY <1>2, LiveIsWatching DEF WellFormed
<1>4. /\ x \in Watch
      /\ x.status = "WATCHING" /\ x.review = watch[w].review
      /\ x.trigger = watch[w].trigger \/ x.trigger = in.trigger
  BY <1>1, <1>3 DEF Reused, Watch
<1>5. /\ watch' = [watch EXCEPT ![w] = x] /\ in.op = "start"
      /\ UNCHANGED <<notify, seen, triggerLog>>
  BY DEF StartReuse, events
<1> HIDE DEF x, w
<1>6. View(x) = View(watch[w])
  BY <1>3, <1>4 DEF View
<1>7. Becomes(w, x)
  BY <1>5, <1>6 DEF Becomes
<1> QED
  BY <1>2, <1>4, <1>5, <1>7 DEF HandlerOutcome

LEMMA StartNewOutcome ==
  ASSUME WellFormed, NEW c \in Caller, NEW w \in WatchId, StartNew(c, w)
  PROVE  HandlerOutcome(c)
<1> DEFINE in == call[c]
           x == NewWatch(in)
<1>1. in.key \in Key /\ in.token \in Token /\ in.trigger \in Nat
  BY DEF StartNew, WellFormed, TypeOK, Call, Idle
<1>2. x \in Watch /\ x.status = "WATCHING" /\ x.trigger = in.trigger
  BY <1>1 DEF NewWatch, Watch, Status, Reason
<1>3. /\ in.op = "start" /\ UNCHANGED <<notify, triggerLog>>
      /\ \/ /\ watch' = [watch EXCEPT ![w] = x]
            /\ seen' = [seen EXCEPT ![w] = IF Notifies THEN View(x) ELSE @]
         \/ UNCHANGED <<watch, seen>>
  BY DEF StartNew
<1> HIDE DEF x
<1> QED
  BY <1>2, <1>3 DEF HandlerOutcome

LEMMA CancelOutcome ==
  ASSUME WellFormed, NEW c \in Caller, NEW w \in WatchId, CancelLocked(c, w)
  PROVE  HandlerOutcome(c)
<1>1. watch[w] \in Watch /\ Live(w)
  BY LoadedType DEF CancelLocked, Live, WellFormed
<1>2. Finish(w, watch[w], "CANCELLED", "NONE", FALSE)
  BY DEF CancelLocked
<1>3. "CANCELLED" \in FinalStatus /\ "NONE" \in Reason
  BY DEF FinalStatus, Reason
<1>4. \E y \in Watch : Becomes(w, y) /\ y.trigger = watch[w].trigger
  BY <1>1, <1>2, <1>3, FinishOutcome
<1>5. /\ call' = [call EXCEPT ![c] = AfterCancel(w)]
      /\ UNCHANGED <<seen, triggerLog>>
  BY DEF CancelLocked
<1> QED
  BY <1>1, <1>4, <1>5 DEF HandlerOutcome

LEMMA CallerStepOutcome ==
  ASSUME WellFormed, NEW c \in Caller, CallerStep(c)
  PROVE  HandlerOutcome(c)
<1>1. CASE \E k \in Key, tok \in Token : StartRead(c, k, tok)
  BY <1>1 DEF StartRead, HandlerOutcome, memory, events
<1>2. CASE StartRefused(c) \/ RequestAbandon(c)
  BY <1>2 DEF StartRefused, RequestAbandon, HandlerOutcome, memory, events
<1>3. CASE \E login \in Login, w \in WatchId : CancelByID(c, login, w)
  BY <1>3, CancelOutcome DEF CancelByID
<1>4. CASE \E k \in Key : CancelLatest(c, k)
  <2>1. PICK k \in Key : CancelLatest(c, k)
    BY <1>4
  <2>2. active[k] \in WatchId /\ CancelLocked(c, active[k])
    BY <2>1 DEF CancelLatest, WellFormed, TypeOK
  <2> QED
    BY <2>2, CancelOutcome
<1>5. CASE CancelTrigger(c)
  BY <1>5 DEF CancelTrigger, HandlerOutcome, memory, events
<1>6. CASE \E pr \in PR : RequestGuard(c, pr)
  BY <1>6 DEF RequestGuard, HandlerOutcome, memory, events
<1>7. CASE \E at \in RequestTime : RequestRecord(c, at)
  BY <1>7 DEF RequestRecord, HandlerOutcome, memory, events
<1> QED
  BY <1>1, <1>2, <1>3, <1>4, <1>5, <1>6, <1>7, StartReuseOutcome, StartNewOutcome
     DEF CallerStep

LEMMA CallerStepPosition ==
  ASSUME WellFormed, NEW c \in Caller, CallerStep(c)
  PROVE  HandlerPosition(c)
<1> USE DEF memory, disk, bounds, events
<1>a. Idle \in Call /\ Idle.op = "idle"
  BY DEF Call, Idle
<1>b. call \in [Caller -> Call] /\ IsLog(triggerLog, PR, RequestTime)
  BY DEF WellFormed, TypeOK, IsLog
<1>c. ASSUME NEW d \in Call, d.op # "start", call' = [call EXCEPT ![c] = d],
             call[c].op # "cancel",
             \/ UNCHANGED triggerLog
             \/ \E pr \in PR, at \in RequestTime : triggerLog' = Insert(triggerLog, pr, at)
      PROVE  HandlerPosition(c)
  BY <1>c DEF HandlerPosition
<1>1. ASSUME NEW k \in Key, NEW tok \in Token, StartRead(c, k, tok)
      PROVE  HandlerPosition(c)
  <2>1. PICK t \in LatestIds(triggerLog, PROf(k)) :
          call' = [call EXCEPT ![c] =
                    [op |-> "start", key |-> k, token |-> tok, trigger |-> t]]
    BY <1>1 DEF StartRead
  <2> DEFINE d == [op |-> "start", key |-> k, token |-> tok, trigger |-> t]
  <2>2. d \in Call /\ d.trigger = t
    BY <1>b, LatestIdsType DEF Call
  <2>3. call[c].op # "cancel" /\ UNCHANGED triggerLog
    BY <1>1, <1>a DEF StartRead
  <2> HIDE DEF d
  <2> QED
    BY <2>1, <2>2, <2>3 DEF HandlerPosition, d
<1>2. CASE StartRefused(c) \/ RequestAbandon(c) \/ StartReuse(c)
  BY <1>2, <1>a, <1>c DEF StartRefused, RequestAbandon, StartReuse
<1>3. CASE \E w \in WatchId : StartNew(c, w)
  BY <1>3, <1>a, <1>c DEF StartNew
<1>4. ASSUME NEW w \in WatchId, CancelLocked(c, w), call[c] = Idle
      PROVE  HandlerPosition(c)
  <2>1. watch[w] \in Watch
    BY <1>4, LoadedType DEF CancelLocked, Live, WellFormed
  <2>2. AfterCancel(w) \in Call /\ AfterCancel(w).op # "start"
    BY <1>a, <2>1 DEF AfterCancel, Call, Watch
  <2> QED
    BY <1>4, <1>a, <1>c, <2>2 DEF CancelLocked
<1>5. CASE \E login \in Login, w \in WatchId : CancelByID(c, login, w)
  BY <1>4, <1>5 DEF CancelByID
<1>6. CASE \E k \in Key : CancelLatest(c, k)
  <2>1. PICK k \in Key : CancelLatest(c, k)
    BY <1>6
  <2>2. active[k] \in WatchId /\ CancelLocked(c, active[k]) /\ call[c] = Idle
    BY <2>1 DEF CancelLatest, WellFormed, TypeOK
  <2> QED
    BY <1>4, <2>2
<1>7. CASE CancelTrigger(c)
  BY <1>7, <1>a DEF CancelTrigger, HandlerPosition
<1>8. CASE \E pr \in PR : RequestGuard(c, pr)
  <2>1. \A pr \in PR : [op |-> "request", pr |-> pr] \in Call
    BY DEF Call
  <2> QED
    BY <1>8, <1>a, <1>c, <2>1 DEF RequestGuard
<1>9. CASE \E at \in RequestTime : RequestRecord(c, at)
  <2>1. call[c].op = "request" => call[c].pr \in PR
    BY <1>b, NoIdle
  <2> QED
    BY <1>9, <1>a, <1>c, <2>1 DEF RequestRecord
<1> QED
  BY <1>1, <1>2, <1>3, <1>5, <1>6, <1>7, <1>8, <1>9 DEF CallerStep

-----------------------------------------------------------------------------
(* Every step, summed up.                                                  *)

HandlerActs(c) ==
  /\ HandlerOutcome(c) /\ HandlerPosition(c)
  /\ UNCHANGED worker \/ \E w \in WatchId : worker' = [worker EXCEPT ![w] = At("poll")]
  /\ UNCHANGED <<closed, restarts>>

WorkerActs(w) ==
  /\ WorkerOutcome(w) /\ WorkerPosition(w)
  /\ Loaded(w)
  /\ UNCHANGED <<closed, call, seen, restarts>>

\* What concerns neither triggers nor a watch under way.
Idles ==
  UNCHANGED <<watch, closed, worker, call, triggerLog, restarts, notify, seen>>

LEMMA StepActs ==
  ASSUME WellFormed, [Next]_vars
  PROVE  \/ \E c \in Caller : HandlerActs(c)
         \/ \E w \in WatchId : WorkerActs(w) \/ Notify(w)
         \/ Close
         \/ Restart
         \/ Idles
<1>1. ASSUME NEW c \in Caller, CallerStep(c)
      PROVE  HandlerActs(c)
  BY <1>1, CallerStepOutcome, CallerStepPosition, CallerStepOnGoroutines DEF HandlerActs
<1>2. ASSUME NEW w \in WatchId, WorkerStep(w)
      PROVE  WorkerActs(w)
  BY <1>2, WorkerStepOutcome, WorkerStepPosition, WorkerStepMoves
     DEF WorkerActs, WorkerMoves, WellFormed, WorkersAreLoaded
<1>3. CASE UNCHANGED vars
  BY <1>3 DEF vars, memory, goroutines, events, disk, bounds, Idles
<1> QED
  BY <1>1, <1>2, <1>3 DEF Next

-----------------------------------------------------------------------------
(* The triggers goroutines and watches hold are keys of the table.         *)

\* The database has given out this key, or it is NoId.
Known(log, t) == t \in Nat /\ t <= Cardinality(log)

\* Without this a new row could get a key that somebody already holds.
TriggersAreKnown ==
  /\ IsKeyed(triggerLog, PR, RequestTime)
  /\ \A w \in WatchId :
       worker[w].pc \in {"settle", "apply"} => Known(triggerLog, worker[w].trigger)
  /\ \A w \in WatchId : Loaded(w) => Known(triggerLog, watch[w].trigger)
  /\ \A c \in Caller : call[c].op = "start" => Known(triggerLog, call[c].trigger)

LEMMA LatestIsKnown ==
  ASSUME NEW log, IsKeyed(log, PR, RequestTime), NEW pr, NEW t \in LatestIds(log, pr)
  PROVE  Known(log, t)
<1>1. t \in Nat
  BY LatestIdsType DEF IsKeyed
<1>2. Cardinality(log) \in Nat
  BY FS_CardinalityType DEF IsKeyed, IsLog
<1>3. CASE t = NoId
  BY <1>2, <1>3 DEF Known, NoId
<1>4. CASE t # NoId
  BY <1>1, <1>4, LatestIdsRow DEF Known, IsKeyed, RowsOf
<1> QED
  BY <1>3, <1>4

\* No row is deleted, and no key that was given out is pending again.
Grows(log, after) ==
  /\ IsKeyed(after, PR, RequestTime)
  /\ \A t : Known(log, t) => Known(after, t)
  /\ \A t : Known(log, t) /\ IsPending(after, t) => IsPending(log, t)

LEMMA SameGrows ==
  ASSUME NEW log, IsKeyed(log, PR, RequestTime)
  PROVE  Grows(log, log)
  BY DEF Grows

LEMMA UpdateGrows ==
  ASSUME NEW log, IsKeyed(log, PR, RequestTime), NEW id
  PROVE  Grows(log, UpdateCompletedAt(log, id))
<1>1. IsLog(log, PR, RequestTime)
  BY DEF IsKeyed
<1> QED
  BY <1>1, UpdateKeyed, UpdatePending DEF Grows, Known

LEMMA InsertGrows ==
  ASSUME NEW log, IsKeyed(log, PR, RequestTime), NEW pr \in PR, NEW at \in RequestTime
  PROVE  Grows(log, Insert(log, pr, at))
<1>1. /\ IsKeyed(Insert(log, pr, at), PR, RequestTime)
      /\ Cardinality(log) \in Nat
      /\ Cardinality(Insert(log, pr, at)) = Cardinality(log) + 1
  BY InsertKeyed
<1>2. \A t : Known(log, t) => Known(Insert(log, pr, at), t)
  BY <1>1 DEF Known
<1>3. \A t : Known(log, t) /\ IsPending(Insert(log, pr, at), t) => IsPending(log, t)
  BY InsertPending DEF Known
<1> QED
  BY <1>1, <1>2, <1>3 DEF Grows

LogMoves ==
  \/ UNCHANGED triggerLog
  \/ \E id : triggerLog' = UpdateCompletedAt(triggerLog, id)
  \/ \E pr \in PR, at \in RequestTime : triggerLog' = Insert(triggerLog, pr, at)

LEMMA StepGrows ==
  ASSUME WellFormed, TriggersAreKnown, [Next]_vars
  PROVE  Grows(triggerLog, triggerLog')
<1>0. IsKeyed(triggerLog, PR, RequestTime)
  BY DEF TriggersAreKnown
<1>1. LogMoves
  <2>1. \A c \in Caller : HandlerActs(c) => LogMoves
    BY DEF HandlerActs, HandlerPosition, LogMoves
  <2>2. \A w \in WatchId : WorkerActs(w) => LogMoves
    BY DEF WorkerActs, WorkerPosition, LogMoves
  <2>3. Close \/ Restart \/ Idles \/ (\E w \in WatchId : Notify(w)) => LogMoves
    BY DEF Close, Restart, Idles, Notify, disk, LogMoves
  <2> QED
    BY <2>1, <2>2, <2>3, StepActs
<1> QED
  BY <1>0, <1>1, SameGrows, UpdateGrows, InsertGrows DEF LogMoves

\* Close keeps the triggers of the watches it ends, and loads none.
LEMMA CloseKeepsTrigger ==
  ASSUME WellFormed, Close, NEW w \in WatchId, Loaded(w)'
  PROVE  Loaded(w) /\ watch'[w].trigger = watch[w].trigger
<1> DEFINE C(x) == [x EXCEPT !.status = "STALE", !.terminal = TRUE, !.token = NoToken]
<1>1. \/ watch'[w] = watch[w]
      \/ Live(w) /\ watch'[w] \in {C(watch[w]), Degraded(C(watch[w]))}
  BY DEF Close
<1>2. CASE watch'[w] = watch[w]
  BY <1>2 DEF Loaded
<1>3. CASE Live(w) /\ watch'[w] \in {C(watch[w]), Degraded(C(watch[w]))}
  <2>1. watch[w] \in Watch
    BY <1>3, LoadedType DEF Live, WellFormed
  <2>2. C(watch[w]) \in Watch /\ C(watch[w]).trigger = watch[w].trigger
    BY <2>1 DEF Watch, Status, FinalStatus
  <2> HIDE DEF C
  <2> QED
    BY <1>3, <2>2, DegradedFields DEF Live
<1> QED
  BY <1>1, <1>2, <1>3

\* What a step does to the triggers of watches, workers and handlers: they keep
\* them, read them from the table, or get them from each other.
LEMMA StepKeepsKnown ==
  ASSUME WellFormed, TriggersAreKnown, [Next]_vars
  PROVE  TriggersAreKnown'
<1> DEFINE K(t) == Known(triggerLog', t)
<1>1. Grows(triggerLog, triggerLog') /\ IsKeyed(triggerLog, PR, RequestTime)
  BY StepGrows DEF TriggersAreKnown
<1>2. \A t : Known(triggerLog, t) => K(t)
  BY <1>1 DEF Grows
<1>3. /\ \A w \in WatchId : worker[w].pc \in {"settle", "apply"} => K(worker[w].trigger)
      /\ \A w \in WatchId : Loaded(w) => K(watch[w].trigger)
      /\ \A c \in Caller : call[c].op = "start" => K(call[c].trigger)
      /\ \A pr : \A t \in LatestIds(triggerLog, pr) : K(t)
  BY <1>1, <1>2, LatestIsKnown DEF TriggersAreKnown
<1>4. TypeOK
  BY DEF WellFormed
<1> HIDE DEF K
<1> DEFINE WorkersKnow ==
             \A w \in WatchId : worker'[w].pc \in {"settle", "apply"} => K(worker'[w].trigger)
           WatchesKnow == \A w \in WatchId : Loaded(w)' => K(watch'[w].trigger)
           HandlersKnow == \A c \in Caller : call'[c].op = "start" => K(call'[c].trigger)
<1>5. ASSUME NEW c \in Caller, HandlerActs(c)
      PROVE  WorkersKnow /\ WatchesKnow /\ HandlersKnow
  <2>1. WorkersKnow
    BY <1>3, <1>4, <1>5 DEF HandlerActs, At, TypeOK
  <2>2. WatchesKnow
    BY <1>3, <1>4, <1>5 DEF HandlerActs, HandlerOutcome, Becomes, TypeOK, Loaded, Live
  <2>3. HandlersKnow
    BY <1>3, <1>4, <1>5 DEF HandlerActs, HandlerPosition, TypeOK
  <2> QED
    BY <2>1, <2>2, <2>3
<1>6. ASSUME NEW w \in WatchId, WorkerActs(w)
      PROVE  WorkersKnow /\ WatchesKnow /\ HandlersKnow
  <2>1. WorkersKnow
    <3>1. CASE worker[w].pc = "settle" /\ worker' = [worker EXCEPT ![w].pc = "apply"]
      <4>1. worker'[w] = [worker[w] EXCEPT !.pc = "apply"]
        BY <1>4, <3>1 DEF TypeOK
      <4>2. worker'[w].trigger = worker[w].trigger
        BY <1>4, <3>1, <4>1 DEF TypeOK, Worker
      <4> QED
        BY <1>3, <1>4, <3>1, <4>2 DEF TypeOK
    <3>2. ASSUME NEW s \in Worker, worker' = [worker EXCEPT ![w] = s],
                 s.pc \in {"settle", "apply"} => K(s.trigger)
          PROVE  WorkersKnow
      BY <1>3, <1>4, <3>2 DEF TypeOK
    <3> HIDE DEF WorkersKnow
    <3> QED
      BY <1>3, <1>6, <3>1, <3>2 DEF WorkerActs, WorkerPosition
  <2>2. WatchesKnow
    BY <1>3, <1>4, <1>6 DEF WorkerActs, WorkerOutcome, Becomes, TypeOK, Loaded, Live
  <2>3. HandlersKnow
    BY <1>3, <1>6 DEF WorkerActs
  <2> QED
    BY <2>1, <2>2, <2>3
<1>7. ASSUME Idles \/ \E w \in WatchId : Notify(w)
      PROVE  WorkersKnow /\ WatchesKnow /\ HandlersKnow
  <2>1. UNCHANGED <<worker, watch, call>>
    BY <1>7 DEF Idles, Notify, memory, goroutines
  <2> QED
    BY <1>3, <2>1 DEF Loaded
<1>8. ASSUME Close
      PROVE  WorkersKnow /\ WatchesKnow /\ HandlersKnow
  <2>1. WatchesKnow
    BY <1>3, <1>8, CloseKeepsTrigger
  <2>2. WorkersKnow /\ HandlersKnow
    BY <1>3, <1>8 DEF Close, goroutines
  <2> QED
    BY <2>1, <2>2
<1>9. ASSUME Restart
      PROVE  WorkersKnow /\ WatchesKnow /\ HandlersKnow
  <2>1. /\ worker' = [w \in WatchId |-> At("none")]
        /\ watch' = [w \in WatchId |-> NoWatch]
        /\ call' = [c \in Caller |-> Idle]
    BY <1>9 DEF Restart
  <2>2. At("none").pc = "none" /\ Idle.op = "idle"
    BY DEF At, Idle
  <2> QED
    BY <2>1, <2>2 DEF Loaded
<1> HIDE DEF WorkersKnow, WatchesKnow, HandlersKnow
<1>10. WorkersKnow /\ WatchesKnow /\ HandlersKnow
  BY <1>5, <1>6, <1>7, <1>8, <1>9, StepActs
<1> QED
  BY <1>1, <1>10 DEF TriggersAreKnown, Grows, K, WorkersKnow, WatchesKnow, HandlersKnow

LEMMA TriggersAlwaysKnown == Spec => []TriggersAreKnown
<1>1. Init => TriggersAreKnown
  BY FS_EmptySet DEF Init, TriggersAreKnown, IsKeyed, IsLog, At, Idle, Loaded
<1>2. WellFormed /\ TriggersAreKnown /\ [Next]_vars => TriggersAreKnown'
  BY StepKeepsKnown
<1> QED
  BY <1>1, <1>2, WellFormedAlways, PTL DEF Spec

-----------------------------------------------------------------------------
(* A finished review has completed its trigger.                            *)

\* A worker in state s that is about to report a finished review.
Reports(s) == s.pc = "apply" /\ ~s.low /\ s.review \in FinalReview

LEMMA StepKeepsSettled ==
  ASSUME WellFormed, TriggersAreKnown, AnswerIsSettled, [Next]_vars
  PROVE  AnswerIsSettled'
<1> SUFFICES ASSUME NEW w \in WatchId, Reports(worker'[w])
             PROVE  ~IsPending(triggerLog', worker'[w].trigger)
  BY DEF AnswerIsSettled, Reports
<1>1. Grows(triggerLog, triggerLog')
  BY StepGrows
<1>2. \A t : Known(triggerLog, t) /\ ~IsPending(triggerLog, t) => ~IsPending(triggerLog', t)
  BY <1>1 DEF Grows
<1>3. Reports(worker[w]) => /\ Known(triggerLog, worker[w].trigger)
                            /\ ~IsPending(triggerLog, worker[w].trigger)
  BY DEF Reports, AnswerIsSettled, TriggersAreKnown
<1>4. worker \in [WatchId -> Worker] /\ IsLog(triggerLog, PR, RequestTime)
  BY DEF WellFormed, TypeOK, IsLog
<1>5. CASE worker'[w] = worker[w]
  BY <1>2, <1>3, <1>5
<1>6. ASSUME NEW c \in Caller, HandlerActs(c)
      PROVE  worker'[w] = worker[w]
  BY <1>4, <1>6 DEF HandlerActs, At, Reports
<1>7. ASSUME NEW v \in WatchId, WorkerActs(v)
      PROVE  ~IsPending(triggerLog', worker'[w].trigger)
  <2>1. CASE v # w
    <3>1. worker'[w] = worker[w]
      BY <1>4, <1>7, <2>1 DEF WorkerActs, WorkerPosition
    <3> QED
      BY <1>5, <3>1
  <2>2. CASE v = w /\ worker[w].pc = "settle"
             /\ worker' = [worker EXCEPT ![w].pc = "apply"]
             /\ triggerLog' = UpdateCompletedAt(triggerLog, worker[w].trigger)
    <3>1. worker'[w] = [worker[w] EXCEPT !.pc = "apply"]
      BY <1>4, <2>2
    <3>2. worker'[w].trigger = worker[w].trigger
      BY <1>4, <2>2, <3>1 DEF Worker
    <3> QED
      BY <1>4, <2>2, <3>2, UpdatePending
  <2>3. ASSUME NEW s \in Worker, v = w, worker' = [worker EXCEPT ![w] = s],
               s.pc \notin {"settle", "apply"}
        PROVE  FALSE
    BY <1>4, <2>3 DEF Reports
  <2>4. ASSUME NEW s \in Worker, v = w, worker' = [worker EXCEPT ![w] = s],
               Reports(s) => ~IsPending(triggerLog, s.trigger), UNCHANGED triggerLog
        PROVE  ~IsPending(triggerLog', worker'[w].trigger)
    BY <1>4, <2>4
  <2> QED
    BY <1>7, <2>1, <2>2, <2>3, <2>4 DEF WorkerActs, WorkerPosition, Reports
<1>8. CASE Close \/ Idles \/ \E v \in WatchId : Notify(v)
  BY <1>5, <1>8 DEF Close, Idles, Notify, goroutines
<1>9. CASE Restart
  BY <1>9 DEF Restart, At, Reports
<1> QED
  BY <1>5, <1>6, <1>7, <1>8, <1>9, StepActs

\* A poll that is about to report a finished review has completed the trigger
\* it answers, whichever writes fail and however often the process restarts.
THEOREM ReportsAreSettled == Spec => []AnswerIsSettled
<1>1. Init => AnswerIsSettled
  BY DEF Init, AnswerIsSettled, At
<1>2. WellFormed /\ TriggersAreKnown /\ AnswerIsSettled /\ [Next]_vars => AnswerIsSettled'
  BY StepKeepsSettled
<1> QED
  BY <1>1, <1>2, WellFormedAlways, TriggersAlwaysKnown, PTL DEF Spec

-----------------------------------------------------------------------------
(* A cancelled watch settles its trigger.                                  *)

\* A handler is at it.
Settling(calls, t) == \E c \in Caller : calls[c] = [op |-> "cancel", trigger |-> t]

LEMMA NoIdIsNotPending ==
  ASSUME NEW log, NEW prs, NEW times, IsLog(log, prs, times)
  PROVE  ~IsPending(log, NoId)
  BY DEF IsLog, IsPending, TriggerRow

\* A trigger that a handler was at stays in its hands or is completed.
LEMMA SettlingGoesOn ==
  ASSUME MaxFaults = 0, WellFormed, NEW c \in Caller, HandlerActs(c),
         NEW t, Settling(call, t), IsPending(triggerLog', t)
  PROVE  Settling(call', t)
<1>1. PICK d \in Caller : call[d] = [op |-> "cancel", trigger |-> t]
  BY DEF Settling
<1>2. call \in [Caller -> Call] /\ IsLog(triggerLog, PR, RequestTime)
  BY DEF WellFormed, TypeOK, IsLog
<1>3. CASE d # c
  <2>1. call'[d] = call[d]
    BY <1>2, <1>3 DEF HandlerActs, HandlerPosition
  <2> QED
    BY <1>1, <2>1 DEF Settling
<1>4. CASE d = c
  <2>1. call[c].op = "cancel" /\ call[c].trigger = t
    BY <1>1, <1>4
  <2>2. triggerLog' = UpdateCompletedAt(triggerLog, t)
    BY <2>1 DEF HandlerActs, HandlerPosition
  <2> QED
    BY <1>2, <2>2, UpdatePending
<1> QED
  BY <1>3, <1>4

LEMMA StepKeepsCancelled ==
  ASSUME MaxFaults = 0, WellFormed, TriggersAreKnown, CancelSettlesTrigger, [Next]_vars
  PROVE  CancelSettlesTrigger'
<1> SUFFICES ASSUME NEW w \in WatchId, Loaded(w)', watch'[w].status = "CANCELLED",
                    IsPending(triggerLog', watch'[w].trigger)
             PROVE  Settling(call', watch'[w].trigger)
  BY DEF CancelSettlesTrigger, Settling
<1> DEFINE t == watch[w].trigger
<1>1. /\ watch \in [WatchId -> Watch \cup {NoWatch}]
      /\ call \in [Caller -> Call]
      /\ IsLog(triggerLog, PR, RequestTime)
  BY DEF WellFormed, TypeOK, IsLog
<1>2. Grows(triggerLog, triggerLog')
  BY StepGrows
<1>3. ASSUME watch'[w] = watch[w]
      PROVE  Settling(call, t) /\ IsPending(triggerLog', t)
  <2>1. Loaded(w)
    BY <1>3 DEF Loaded
  <2>2. IsPending(triggerLog, t)
    BY <1>2, <1>3, <2>1 DEF Grows, TriggersAreKnown
  <2> QED
    BY <1>3, <2>1, <2>2 DEF CancelSettlesTrigger, Settling
<1>4. CASE watch'[w] = watch[w] /\ UNCHANGED call
  BY <1>3, <1>4 DEF Settling
<1>5. ASSUME NEW c \in Caller, HandlerActs(c)
      PROVE  Settling(call', watch'[w].trigger)
  <2>1. CASE watch'[w] = watch[w]
    <3>1. Settling(call', t)
      BY <1>3, <1>5, <2>1, SettlingGoesOn
    <3> QED
      BY <2>1, <3>1
  <2>2. ASSUME NEW v \in WatchId, NEW y \in Watch, Live(v), Becomes(v, y),
               UNCHANGED triggerLog, y.trigger = watch[v].trigger,
               call' = [call EXCEPT ![c] = AfterCancel(v)]
        PROVE  Settling(call', watch'[w].trigger)
    <3>1. CASE v # w
      <4>1. watch'[w] = watch[w]
        BY <1>1, <2>2, <3>1 DEF Becomes
      <4> QED
        BY <2>1, <4>1
    <3>2. CASE v = w
      <4>1. watch'[w].trigger = t
        BY <1>1, <2>2, <3>2 DEF Becomes
      <4>2. t # NoId
        BY <1>1, <2>2, <4>1, NoIdIsNotPending
      <4>3. call'[c] = [op |-> "cancel", trigger |-> t]
        BY <1>1, <2>2, <3>2, <4>2 DEF AfterCancel
      <4> QED
        BY <4>1, <4>3 DEF Settling
    <3> QED
      BY <3>1, <3>2
  <2>3. ASSUME NEW v \in WatchId, NEW y \in Watch, y.status # "CANCELLED",
               watch' = [watch EXCEPT ![v] = y]
        PROVE  watch'[w] = watch[w]
    BY <1>1, <2>3
  <2> QED
    BY <1>5, <2>1, <2>2, <2>3 DEF HandlerActs, HandlerOutcome, Becomes
<1>6. ASSUME NEW v \in WatchId, WorkerActs(v)
      PROVE  watch'[w] = watch[w] /\ UNCHANGED call
  BY <1>1, <1>6 DEF WorkerActs, WorkerOutcome, Becomes
<1>7. CASE Idles \/ \E v \in WatchId : Notify(v)
  BY <1>4, <1>7 DEF Idles, Notify, memory, goroutines
<1>8. CASE Close
  <2> DEFINE C(x) == [x EXCEPT !.status = "STALE", !.terminal = TRUE, !.token = NoToken]
  <2>1. \/ watch'[w] = watch[w]
        \/ Live(w) /\ watch'[w] \in {C(watch[w]), Degraded(C(watch[w]))}
    BY <1>8 DEF Close
  <2>2. ASSUME Live(w), watch'[w] \in {C(watch[w]), Degraded(C(watch[w]))}
        PROVE  FALSE
    <3>1. watch[w] \in Watch
      BY <1>1, <2>2 DEF Live, Loaded
    <3>2. C(watch[w]) \in Watch /\ C(watch[w]).status = "STALE"
      BY <3>1 DEF Watch, Status, FinalStatus
    <3> HIDE DEF C
    <3> QED
      BY <2>2, <3>2, DegradedFields
  <2>3. UNCHANGED call
    BY <1>8 DEF Close, goroutines
  <2> QED
    BY <1>4, <2>1, <2>2, <2>3
<1>9. CASE Restart
  BY <1>9 DEF Restart, Loaded
<1> QED
  BY <1>4, <1>5, <1>6, <1>7, <1>8, <1>9, StepActs

\* When no write fails, a cancelled watch leaves its trigger pending only while
\* the handler that cancelled it is still at it, whatever other handlers,
\* workers and requests do in between.
THEOREM CancelledAreSettled == ASSUME MaxFaults = 0 PROVE Spec => []CancelSettlesTrigger
<1>1. Init => CancelSettlesTrigger
  BY DEF Init, CancelSettlesTrigger, Loaded
<1>2. WellFormed /\ TriggersAreKnown /\ CancelSettlesTrigger /\ [Next]_vars
        => CancelSettlesTrigger'
  BY StepKeepsCancelled
<1> QED
  BY <1>1, <1>2, WellFormedAlways, TriggersAlwaysKnown, PTL DEF Spec

-----------------------------------------------------------------------------
(* No update is missed.                                                    *)

LEMMA StepKeepsSeen ==
  ASSUME WellFormed, NoMissedUpdate, [Next]_vars
  PROVE  NoMissedUpdate'
<1> SUFFICES ASSUME Notifies, ~closed', NEW w \in WatchId, Loaded(w)', w \notin notify'
             PROVE  seen'[w] = View(watch'[w])
  BY DEF NoMissedUpdate
<1>1. /\ watch \in [WatchId -> Watch \cup {NoWatch}]
      /\ seen \in [WatchId -> Seen \cup {NoWatch}]
  BY DEF WellFormed, TypeOK
<1>2. ASSUME ~closed, w \notin notify, Loaded(w), View(watch'[w]) = View(watch[w]),
             seen'[w] = seen[w]
      PROVE  seen'[w] = View(watch'[w])
  BY <1>2 DEF NoMissedUpdate
<1>3. ASSUME NEW v \in WatchId, NEW y \in Watch, Becomes(v, y), Live(v), UNCHANGED <<closed, seen>>
      PROVE  seen'[w] = View(watch'[w])
  <2>1. w \notin notify /\ ~closed
    BY <1>3 DEF Becomes, Announce
  <2>2. CASE v = w
    BY <1>1, <1>2, <1>3, <2>1, <2>2 DEF Becomes, Announce, Live
  <2>3. CASE v # w
    <3>1. watch'[w] = watch[w]
      BY <1>1, <1>3, <2>3 DEF Becomes
    <3> QED
      BY <1>2, <1>3, <2>1, <3>1 DEF Loaded
  <2> QED
    BY <2>2, <2>3
<1>4. CASE UNCHANGED <<watch, closed, notify, seen>>
  BY <1>2, <1>4 DEF Loaded
<1>5. ASSUME NEW c \in Caller, HandlerActs(c)
      PROVE  seen'[w] = View(watch'[w])
  <2>1. ASSUME NEW v \in WatchId, NEW y, watch' = [watch EXCEPT ![v] = y],
               seen' = [seen EXCEPT ![v] = View(y)], UNCHANGED <<closed, notify>>
        PROVE  seen'[w] = View(watch'[w])
    <3>1. CASE v = w
      BY <1>1, <2>1, <3>1
    <3>2. CASE v # w
      BY <1>1, <1>2, <2>1, <3>2 DEF Loaded
    <3> QED
      BY <3>1, <3>2
  <2> QED
    BY <1>3, <1>4, <1>5, <2>1 DEF HandlerActs, HandlerOutcome
<1>6. ASSUME NEW v \in WatchId, WorkerActs(v)
      PROVE  seen'[w] = View(watch'[w])
  BY <1>3, <1>4, <1>6 DEF WorkerActs, WorkerOutcome
<1>7. ASSUME NEW v \in WatchId, Notify(v)
      PROVE  seen'[w] = View(watch'[w])
  <2>1. UNCHANGED <<watch, closed>>
    BY <1>7 DEF Notify, memory
  <2>2. CASE v = w
    BY <1>1, <1>7, <2>1, <2>2 DEF Notify
  <2>3. CASE v # w
    BY <1>1, <1>2, <1>7, <2>1, <2>3 DEF Notify, Loaded
  <2> QED
    BY <2>2, <2>3
<1>8. CASE Idles
  BY <1>4, <1>8 DEF Idles
<1>9. CASE Close
  BY <1>9 DEF Close
<1>10. CASE Restart
  BY <1>10 DEF Restart, Loaded
<1> QED
  BY <1>5, <1>6, <1>7, <1>8, <1>9, <1>10, StepActs

\* A subscriber that reads the watch back on each notification has seen its
\* current state, unless one is still on its way: also when a start changes the
\* watch without telling, and when a failed write ends it.
THEOREM UpdatesAreSeen == Spec => []NoMissedUpdate
<1>1. Init => NoMissedUpdate
  BY DEF Init, NoMissedUpdate, Loaded
<1>2. WellFormed /\ NoMissedUpdate /\ [Next]_vars => NoMissedUpdate'
  BY StepKeepsSeen
<1> QED
  BY <1>1, <1>2, WellFormedAlways, PTL DEF Spec
=============================================================================
