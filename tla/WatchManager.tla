----------------------------- MODULE WatchManager -----------------------------
(***************************************************************************)
(* The background review watches of internal/watch/manager.go, together    *)
(* with the two SQLite tables of internal/store/db.go they write.          *)
(*                                                                         *)
(* A step is one critical section of Manager.mu, one database statement    *)
(* made outside it, or one GitHub call.  Between two steps of a goroutine  *)
(* any other goroutine may run: tool handlers (Caller), one worker for     *)
(* each watch, the goroutines that deliver notifications, and the shutdown *)
(* of the process.  The process may also crash between any two steps.      *)
(*                                                                         *)
(* Any database write may fail: MaxFaults bounds how many writes of a      *)
(* review_watch row do, and no update of trigger_log fails when it is 0.   *)
(* What GitHub answers is not constrained here, nor is the review status   *)
(* DeriveStatus computes from it.                                          *)
(*                                                                         *)
(* A definition whose name ends in _V and a word is a faulty variant of    *)
(* the one that follows it: no action uses it.  Put in place of that       *)
(* definition, it shows that a property can fail.                          *)
(***************************************************************************)
EXTENDS TriggerLog

CONSTANTS
  Login,          \* GitHub logins
  PR,             \* pull requests: one (owner, repo, number) each
  Token,          \* access tokens a caller may present
  NoToken,        \* the empty token of a finished watch, and its nil client
  OpenReview,     \* review statuses that keep a watch going
  NoReview,       \* the nil review status of a watch that has not polled
  Notifies,       \* Options.NotifyResourceUpdated is set
  Caller,         \* tool handlers that may run at the same time
  Threshold,      \* Options.UpstreamFailureThreshold
  RequestTime,    \* bound: the values requested_at may take
  MaxWatches,     \* bound: watches ever created
  MaxTriggers,    \* bound: rows of trigger_log
  MaxFaults,      \* bound: failed database writes
  MaxRestarts     \* bound: restarts of the process

FinalReview == {"COMPLETED", "BLOCKED"}
ReviewStatus == OpenReview \cup FinalReview

ASSUME ThresholdAssumption == Threshold \in Nat \ {0}
ASSUME BoundsAssumption ==
  /\ MaxWatches \in Nat
  /\ MaxTriggers \in Nat
  /\ MaxFaults \in Nat
  /\ MaxRestarts \in Nat
  /\ RequestTime \subseteq Nat
ASSUME NotifiesAssumption == Notifies \in BOOLEAN
ASSUME TokenAssumption == NoToken \notin Token
ASSUME ReviewAssumption ==
  NoReview \notin ReviewStatus /\ OpenReview \cap FinalReview = {}

WatchId == 1..MaxWatches
Key == Login \X PR
PROf(key) == key[2]

FinalStatus == {"COMPLETED", "BLOCKED", "TIMEOUT", "RATE_LIMITED",
                "FAILED", "STALE", "CANCELLED"}
Status == {"WATCHING"} \cup FinalStatus
Reason == {"NONE", "AUTH_EXPIRED", "GITHUB_ERROR", "INTERNAL_ERROR"}

(***************************************************************************)
(* A watchState.  token stands for the token and the client made from it,  *)
(* which the code sets and clears together; hint says whether recoveryHint *)
(* is set.  workerRunning is always the negation of terminal.              *)
(***************************************************************************)
Watch == [key : Key, trigger : Nat, token : Token \cup {NoToken},
          status : Status, reason : Reason, hint : BOOLEAN,
          terminal : BOOLEAN, review : ReviewStatus \cup {NoReview},
          failures : Nat]

\* A review_watch row, without the columns that are only timestamps or text.
Row == [key : Key, trigger : Nat, status : Status, reason : Reason,
        hint : BOOLEAN, active : BOOLEAN, review : ReviewStatus \cup {NoReview}]

NoWatch == [status |-> "NONE"]
NoRow == [status |-> "NONE"]

VARIABLES
  watch,      \* watchesByID: WatchId -> Watch, or NoWatch when absent
  active,     \* activeByKey: Key -> id, or NoId
  latest,     \* latestByKey: Key -> id, or NoId
  closed,     \* Manager.closed
  worker,     \* where the goroutine that runs a watch is
  call,       \* where each tool handler is
  notify,     \* watches with a notification goroutine under way
  seen,       \* what a subscriber last read of a watch
  row,        \* the review_watch table
  triggerLog, \* the trigger_log table
  faults,     \* failed database writes so far
  restarts    \* restarts so far

memory == <<watch, active, latest, closed>>
goroutines == <<worker, call>>
events == <<notify, seen>>
disk == <<row, triggerLog>>
bounds == <<faults, restarts>>
vars == <<memory, goroutines, events, disk, bounds>>

Loaded(w) == watch[w] # NoWatch
Live(w) == Loaded(w) /\ ~watch[w].terminal
View(x) == [status |-> x.status, review |-> x.review]

Idle == [op |-> "idle"]
At(pc) == [pc |-> pc]

Init ==
  /\ watch = [w \in WatchId |-> NoWatch]
  /\ active = [k \in Key |-> NoId]
  /\ latest = [k \in Key |-> NoId]
  /\ closed = FALSE
  /\ worker = [w \in WatchId |-> At("none")]
  /\ call = [c \in Caller |-> Idle]
  /\ notify = {}
  /\ seen = [w \in WatchId |-> NoWatch]
  /\ row = [w \in WatchId |-> NoRow]
  /\ triggerLog = {}
  /\ faults = 0
  /\ restarts = 0

-----------------------------------------------------------------------------
(* The database.                                                           *)

Fault == faults < MaxFaults /\ faults' = faults + 1
NoFault == UNCHANGED faults

RowOf(x) == [key |-> x.key, trigger |-> x.trigger, status |-> x.status,
             reason |-> x.reason, hint |-> x.hint, active |-> ~x.terminal,
             review |-> x.review]

\* The unique index on the active row of a login and pull request.
IndexAllows(w, x) ==
  x.terminal \/ \A v \in WatchId \ {w} :
                  row[v] # NoRow => ~(row[v].active /\ row[v].key = x.key)

\* persistLocked: UpsertReviewWatch succeeds, or fails and changes nothing.
Persisted(w, x) ==
  IndexAllows(w, x) /\ row' = [row EXCEPT ![w] = RowOf(x)] /\ NoFault
NotPersisted(w, x) ==
  /\ IF IndexAllows(w, x) THEN Fault ELSE NoFault
  /\ UNCHANGED row

\* Variant: the credentials are not dropped.
Degraded_VKeepsToken(x) ==
  [x EXCEPT !.terminal = TRUE,
            !.status = IF x.status = "STALE" THEN "STALE" ELSE "FAILED",
            !.reason = IF x.status = "STALE" THEN "NONE" ELSE "INTERNAL_ERROR"]

\* What persistOrDegradeLocked makes of a watch it could not write.
Degraded(x) ==
  [x EXCEPT !.terminal = TRUE,
            !.token = NoToken,
            !.status = IF x.status = "STALE" THEN "STALE" ELSE "FAILED",
            !.reason = IF x.status = "STALE" THEN "NONE" ELSE "INTERNAL_ERROR"]

\* Variant: the error of the write is dropped.
Store_VIgnoresError(w, x) ==
  (Persisted(w, x) \/ NotPersisted(w, x)) /\ watch' = [watch EXCEPT ![w] = x]

\* Variant: the row is written before the failure reason is set.
Store_VTooEarly(w, x) ==
  \/ Persisted(w, [x EXCEPT !.reason = "NONE"]) /\ watch' = [watch EXCEPT ![w] = x]
  \/ NotPersisted(w, x) /\ watch' = [watch EXCEPT ![w] = Degraded(x)]

\* The watch becomes x in memory and, if the write succeeds, in its row.
Store(w, x) ==
  \/ Persisted(w, x) /\ watch' = [watch EXCEPT ![w] = x]
  \/ NotPersisted(w, x) /\ watch' = [watch EXCEPT ![w] = Degraded(x)]

\* Variant: the ended watch stays in activeByKey.
Release_VForgotten(w) == UNCHANGED active

\* delete(m.activeByKey, w.key)
Release(w) == active' = [active EXCEPT ![watch[w].key] = NoId]

\* finishLocked: a final status for watch w, whose other fields are those of x.
Finished(x, status, reason, hint) ==
  [x EXCEPT !.status = status, !.reason = reason, !.hint = hint,
            !.terminal = TRUE, !.token = NoToken]

\* go m.notifyResourceUpdated(uri)
Announce(w) == notify' = IF Notifies THEN notify \cup {w} ELSE notify

\* Variant: the end of a watch is not announced.
Finish_VSilent(w, x, status, reason, hint) ==
  Store(w, Finished(x, status, reason, hint)) /\ Release(w) /\ UNCHANGED notify

Finish(w, x, status, reason, hint) ==
  /\ Store(w, Finished(x, status, reason, hint))
  /\ Release(w)
  /\ Announce(w)

Goto(w, pc) == worker' = [worker EXCEPT ![w] = At(pc)]
Stop(w) == Goto(w, "done")

\* A poll that leaves the watch watching as x, for which tell says whether
\* subscribers are told.  If the write fails the watch is finished after all.
Record(w, x, tell) ==
  \/ /\ Persisted(w, x)
     /\ watch' = [watch EXCEPT ![w] = x]
     /\ IF tell THEN Announce(w) ELSE UNCHANGED notify
     /\ Goto(w, "wait")
     /\ UNCHANGED active
  \/ /\ NotPersisted(w, x)
     /\ watch' = [watch EXCEPT ![w] = Degraded(x)]
     /\ Release(w)
     /\ Announce(w)
     /\ Stop(w)

-----------------------------------------------------------------------------
(* start_copilot_review_watch.                                             *)

\* Manager.Start, before the lock: the latest trigger of the pull request.
StartRead(c, k, tok) ==
  /\ call[c] = Idle
  /\ \E t \in LatestIds(triggerLog, PROf(k)) :
       call' = [call EXCEPT ![c] =
                 [op |-> "start", key |-> k, token |-> tok, trigger |-> t]]
  /\ UNCHANGED <<memory, worker, events, disk, bounds>>

ActiveWatch(k) == active[k] # NoId /\ Loaded(active[k]) /\ Live(active[k])

\* Manager.Start under the lock, the manager closed.
StartRefused(c) ==
  /\ call[c].op = "start"
  /\ closed
  /\ call' = [call EXCEPT ![c] = Idle]
  /\ UNCHANGED <<memory, worker, events, disk, bounds>>

\* The active watch of the key with the caller's token and trigger taken over.
Reused(x, in) ==
  LET linked == IF x.trigger = NoId THEN [x EXCEPT !.trigger = in.trigger] ELSE x
  IN  IF x.token = in.token
      THEN linked
      ELSE [linked EXCEPT !.token = in.token, !.failures = 0, !.hint = FALSE]

\* Variant: only a new token is worth a write.
Changes_VTokenOnly(w, x) == x.token # watch[w].token

\* tokenChanged || triggerLinked
Changes(w, x) == x # watch[w]

\* Manager.Start under the lock, an active watch for the key: a failed write
\* is reported to the caller, but leaves the watch as it became in memory.
StartReuse(c) ==
  /\ call[c].op = "start"
  /\ ~closed
  /\ ActiveWatch(call[c].key)
  /\ LET w == active[call[c].key]
         x == Reused(watch[w], call[c])
     IN  /\ watch' = [watch EXCEPT ![w] = x]
         /\ IF Changes(w, x)
            THEN Persisted(w, x) \/ NotPersisted(w, x)
            ELSE UNCHANGED <<row, faults>>
  /\ call' = [call EXCEPT ![c] = Idle]
  /\ UNCHANGED <<active, latest, closed, worker, events, triggerLog, restarts>>

Unused(w) == ~Loaded(w) /\ row[w] = NoRow

NewWatch(in) ==
  [key |-> in.key, trigger |-> in.trigger, token |-> in.token,
   status |-> "WATCHING", reason |-> "NONE", hint |-> FALSE,
   terminal |-> FALSE, review |-> NoReview, failures |-> 0]

Register(k, w) ==
  /\ active' = [active EXCEPT ![k] = w]
  /\ latest' = [latest EXCEPT ![k] = w]

\* Manager.Start under the lock, no active watch: the row is written first, and
\* only then is the watch registered and its worker started.  nextID never
\* returns an id twice; ids are taken in order.
StartNew(c, w) ==
  /\ call[c].op = "start"
  /\ ~closed
  /\ ~ActiveWatch(call[c].key)
  /\ Unused(w)
  /\ \A v \in 1..(w - 1) : ~Unused(v)
  /\ LET k == call[c].key
         x == NewWatch(call[c])
     IN  \/ /\ Persisted(w, x)
            /\ watch' = [watch EXCEPT ![w] = x]
            /\ Register(k, w)
            /\ worker' = [worker EXCEPT ![w] = At("poll")]
            /\ seen' = [seen EXCEPT ![w] = IF Notifies THEN View(x) ELSE @]
         \/ /\ NotPersisted(w, x)
            /\ active' = [active EXCEPT ![k] = NoId]
            /\ UNCHANGED <<watch, latest, worker, seen>>
  /\ call' = [call EXCEPT ![c] = Idle]
  /\ UNCHANGED <<closed, notify, triggerLog, restarts>>

-----------------------------------------------------------------------------
(* cancel_copilot_review_watch.                                            *)

\* Variant: the trigger is left alone.
AfterCancel_VNothing(w) == Idle

\* What the handler still has to do once it has released the lock.
AfterCancel(w) ==
  IF watch[w].trigger = NoId
  THEN Idle
  ELSE [op |-> "cancel", trigger |-> watch[w].trigger]

\* The locked part of CancelByID and CancelLatest.  The trigger's row is
\* completed outside the lock, by CancelTrigger.
CancelLocked(c, w) ==
  /\ Live(w)
  /\ Finish(w, watch[w], "CANCELLED", "NONE", FALSE)
  /\ call' = [call EXCEPT ![c] = AfterCancel(w)]
  /\ UNCHANGED <<latest, closed, worker, seen, triggerLog, restarts>>

CancelByID(c, login, w) ==
  /\ call[c] = Idle
  /\ Loaded(w) /\ watch[w].key[1] = login
  /\ CancelLocked(c, w)

CancelLatest(c, k) ==
  /\ call[c] = Idle
  /\ active[k] # NoId
  /\ Loaded(active[k])
  /\ CancelLocked(c, active[k])

\* After the unlock: a failed update is only logged.
CancelTrigger(c) ==
  /\ call[c].op = "cancel"
  /\ \/ triggerLog' = UpdateCompletedAt(triggerLog, call[c].trigger)
     \/ MaxFaults > 0 /\ UNCHANGED triggerLog
  /\ call' = [call EXCEPT ![c] = Idle]
  /\ UNCHANGED <<memory, worker, events, row, bounds>>

-----------------------------------------------------------------------------
(* request_copilot_review, as far as trigger_log goes.                     *)

\* The handler finds no pending row; it then talks to GitHub.
RequestGuard(c, pr) ==
  /\ call[c] = Idle
  /\ Cardinality(triggerLog) < MaxTriggers
  /\ ~HasPending(triggerLog, pr)
  /\ call' = [call EXCEPT ![c] = [op |-> "request", pr |-> pr]]
  /\ UNCHANGED <<memory, worker, events, disk, bounds>>

\* GitHub accepted the request: the MANUAL row is inserted.
RequestRecord(c, at) ==
  /\ call[c].op = "request"
  /\ Cardinality(triggerLog) < MaxTriggers
  /\ triggerLog' = Insert(triggerLog, call[c].pr, at)
  /\ call' = [call EXCEPT ![c] = Idle]
  /\ UNCHANGED <<memory, worker, events, row, bounds>>

\* GitHub refused it or was not reached, or the insertion failed.
RequestAbandon(c) ==
  /\ call[c].op = "request"
  /\ call' = [call EXCEPT ![c] = Idle]
  /\ UNCHANGED <<memory, worker, events, disk, bounds>>

-----------------------------------------------------------------------------
(* The worker of a watch: Manager.run and pollOnce.                        *)
(*                                                                         *)
(*   poll    pollOnce is about to start                                    *)
(*   fetch   GetReviewData is under way, with the client captured then     *)
(*   settle  about to complete the trigger the review answers              *)
(*   apply   about to take the lock and record what was found              *)
(*   wait    asleep until the next tick                                    *)
(*   done    the goroutine has returned                                    *)

\* Variant: a watch that is over is finished again.
FinishState_VUnguarded(w, status, reason, hint) ==
  /\ Stop(w)
  /\ Finish(w, watch[w], status, reason, hint)

\* Variant: the worker of a watch that is over goes on polling.
FinishState_VGoesOn(w, status, reason, hint) ==
  IF Live(w)
  THEN Stop(w) /\ Finish(w, watch[w], status, reason, hint)
  ELSE Goto(w, "wait") /\ UNCHANGED <<watch, active, notify, row, faults>>

\* finishState: under the lock, and only if nobody finished the watch before.
FinishState(w, status, reason, hint) ==
  /\ Stop(w)
  /\ IF Live(w)
     THEN Finish(w, watch[w], status, reason, hint)
     ELSE UNCHANGED <<watch, active, notify, row, faults>>

\* Variant: the age of a watch is counted from its last poll.
PollExpire_VNever(w) == FALSE

\* pollOnce finds the watch older than MaxWatchDuration.
PollExpire(w) ==
  /\ worker[w].pc = "poll"
  /\ FinishState(w, "TIMEOUT", "NONE", FALSE)
  /\ UNCHANGED <<latest, closed, call, seen, triggerLog, restarts>>

NoClient(w) == watch[w].token = NoToken

\* pollOnce up to the GitHub call: the watch is not too old; its client is read.
PollBegin(w) ==
  /\ worker[w].pc = "poll"
  /\ IF NoClient(w)
     THEN FinishState(w, "FAILED", "INTERNAL_ERROR", FALSE)
     ELSE /\ worker' = [worker EXCEPT ![w] =
                         [pc |-> "fetch", token |-> watch[w].token]]
          /\ UNCHANGED <<watch, active, notify, row, faults>>
  /\ UNCHANGED <<latest, closed, call, seen, triggerLog, restarts>>

\* GetReviewData failed because the context of the watch was cancelled.
PollCancelled(w) ==
  /\ worker[w].pc = "fetch"
  /\ ~Live(w)
  /\ Stop(w)
  /\ UNCHANGED <<memory, call, events, disk, bounds>>

\* GetReviewData failed otherwise: a rate limit, an authentication error, or
\* any other error, a poll that timed out included.
PollError(w) ==
  /\ worker[w].pc = "fetch"
  /\ \/ FinishState(w, "RATE_LIMITED", "NONE", FALSE)
     \/ FinishState(w, "FAILED", "AUTH_EXPIRED", TRUE)
     \/ FinishState(w, "FAILED", "GITHUB_ERROR", FALSE)
  /\ UNCHANGED <<latest, closed, call, seen, triggerLog, restarts>>

\* handleUpstreamFailure.  A write that fails below the threshold degrades the
\* watch, which ends the worker and is announced.
PollUpstreamFailure(w) ==
  /\ worker[w].pc = "fetch"
  /\ IF ~Live(w)
     THEN Stop(w) /\ UNCHANGED <<watch, active, notify, row, faults>>
     ELSE LET x == [watch[w] EXCEPT !.failures = @ + 1]
          IN  IF x.failures >= Threshold
              THEN Stop(w) /\ Finish(w, x, "FAILED", "AUTH_EXPIRED", TRUE)
              ELSE Record(w, x, FALSE)
  /\ UNCHANGED <<latest, closed, call, seen, triggerLog, restarts>>

\* Variant: the trigger is not completed.
PhaseAfter_VSkipsSettle(review, low, t) == "apply"

\* A finished review first completes its trigger, unless that was done before.
PhaseAfter(review, low, t) ==
  IF ~low /\ review \in FinalReview /\ IsPending(triggerLog, t) THEN "settle" ELSE "apply"

\* GetReviewData answered; GetLatest reads the trigger, or fails.  low is the
\* rate limit being nearly exhausted, which comes before the review's status.
PollAnswer(w) ==
  /\ worker[w].pc = "fetch"
  /\ \/ \E review \in ReviewStatus, low \in BOOLEAN,
           t \in LatestIds(triggerLog, PROf(watch[w].key)) :
          /\ worker' = [worker EXCEPT ![w] =
               [pc |-> PhaseAfter(review, low, t),
                review |-> review, low |-> low, trigger |-> t]]
          /\ UNCHANGED <<watch, active, notify, row, faults>>
     \/ FinishState(w, "FAILED", "INTERNAL_ERROR", FALSE)
  /\ UNCHANGED <<latest, closed, call, seen, triggerLog, restarts>>

\* UpdateCompletedAt, outside the lock; a failure fails the watch.
PollSettle(w) ==
  /\ worker[w].pc = "settle"
  /\ \/ /\ triggerLog' = UpdateCompletedAt(triggerLog, worker[w].trigger)
        /\ worker' = [worker EXCEPT ![w].pc = "apply"]
        /\ UNCHANGED <<watch, active, notify, row, faults>>
     \/ /\ MaxFaults > 0
        /\ FinishState(w, "FAILED", "INTERNAL_ERROR", FALSE)
        /\ UNCHANGED triggerLog
  /\ UNCHANGED <<latest, closed, call, seen, restarts>>

\* The watch as the answer of the poll leaves it.
Answered(x, answer) ==
  [x EXCEPT !.review = answer.review,
            !.trigger = IF @ = NoId /\ ~answer.low THEN answer.trigger ELSE @]

\* Variant: the first status of a watch is no change.
StatusChanged_VNotFirst(prev, curr) == prev # NoReview /\ prev # curr

\* reviewStatusChanged
StatusChanged(prev, curr) == prev # curr

\* pollOnce under the lock, after an answer.
PollApply(w) ==
  /\ worker[w].pc = "apply"
  /\ LET x == Answered(watch[w], worker[w])
     IN  IF ~Live(w)
         THEN Stop(w) /\ UNCHANGED <<watch, active, notify, row, faults>>
         ELSE IF worker[w].low
         THEN Stop(w) /\ Finish(w, x, "RATE_LIMITED", "NONE", FALSE)
         ELSE IF x.review \in FinalReview
         THEN Stop(w) /\ Finish(w, x, x.review, "NONE", FALSE)
         ELSE Record(w, [x EXCEPT !.failures = 0], StatusChanged(watch[w].review, x.review))
  /\ UNCHANGED <<latest, closed, call, seen, triggerLog, restarts>>

\* The worker panicked outside the lock; the deferred recover calls markStale.
WorkerPanic(w) ==
  /\ worker[w].pc \in {"fetch", "settle", "apply"}
  /\ FinishState(w, "STALE", "NONE", FALSE)
  /\ UNCHANGED <<latest, closed, call, seen, triggerLog, restarts>>

\* The ticker fires; select may take it even when the context is done as well.
WorkerTick(w) ==
  /\ worker[w].pc = "wait"
  /\ Goto(w, "poll")
  /\ UNCHANGED <<memory, call, events, disk, bounds>>

WorkerDone(w) ==
  /\ worker[w].pc = "wait"
  /\ ~Live(w)
  /\ Stop(w)
  /\ UNCHANGED <<memory, call, events, disk, bounds>>

-----------------------------------------------------------------------------
(* Notifications, shutdown and restart.                                    *)

\* A notification carries only the watch's URI; the subscriber reads it back.
Notify(w) ==
  /\ w \in notify
  /\ notify' = notify \ {w}
  /\ seen' = [seen EXCEPT ![w] = View(watch[w])]
  /\ UNCHANGED <<memory, goroutines, disk, bounds>>

\* Manager.Close: every active watch becomes STALE.  No row it writes is
\* active, so only a fault can make a write fail; failed is where it did.
Close ==
  LET stopped == {w \in WatchId : Live(w) /\ active[watch[w].key] = w}
      Closed(x) == [x EXCEPT !.status = "STALE", !.terminal = TRUE, !.token = NoToken]
  IN  /\ ~closed
      /\ closed' = TRUE
      /\ \E failed \in SUBSET stopped :
           /\ faults + Cardinality(failed) <= MaxFaults
           /\ faults' = faults + Cardinality(failed)
           /\ row' = [w \in WatchId |-> IF w \in stopped \ failed
                                        THEN RowOf(Closed(watch[w])) ELSE row[w]]
           /\ watch' = [w \in WatchId |-> IF w \in failed
                                          THEN Degraded(Closed(watch[w]))
                                          ELSE IF w \in stopped
                                          THEN Closed(watch[w]) ELSE watch[w]]
      /\ active' = [k \in Key |-> NoId]
      /\ UNCHANGED <<latest, goroutines, events, triggerLog, restarts>>

\* Variant: the WHERE clause is missing.
MarkStale_VAll(r) ==
  IF r # NoRow
  THEN [r EXCEPT !.status = "STALE", !.reason = "NONE", !.active = FALSE]
  ELSE r

\* MarkActiveReviewWatchesStale, for one row.
MarkStale(r) ==
  IF r # NoRow /\ r.active
  THEN [r EXCEPT !.status = "STALE", !.reason = "NONE", !.active = FALSE]
  ELSE r

\* The process dies, closed or not, and starts again: Open marks every row
\* that is still active as STALE, and NewManager has no watches.
Restart ==
  /\ restarts < MaxRestarts
  /\ restarts' = restarts + 1
  /\ row' = [w \in WatchId |-> MarkStale(row[w])]
  /\ watch' = [w \in WatchId |-> NoWatch]
  /\ active' = [k \in Key |-> NoId]
  /\ latest' = [k \in Key |-> NoId]
  /\ closed' = FALSE
  /\ worker' = [w \in WatchId |-> At("none")]
  /\ call' = [c \in Caller |-> Idle]
  /\ notify' = {}
  /\ seen' = [w \in WatchId |-> NoWatch]
  /\ UNCHANGED <<triggerLog, faults>>

-----------------------------------------------------------------------------
WorkerStep(w) ==
  \/ PollExpire(w)
  \/ PollBegin(w)
  \/ PollCancelled(w)
  \/ PollError(w)
  \/ PollUpstreamFailure(w)
  \/ PollAnswer(w)
  \/ PollSettle(w)
  \/ PollApply(w)
  \/ WorkerPanic(w)
  \/ WorkerTick(w)
  \/ WorkerDone(w)

CallerStep(c) ==
  \/ \E k \in Key, tok \in Token : StartRead(c, k, tok)
  \/ StartRefused(c)
  \/ StartReuse(c)
  \/ \E w \in WatchId : StartNew(c, w)
  \/ \E login \in Login, w \in WatchId : CancelByID(c, login, w)
  \/ \E k \in Key : CancelLatest(c, k)
  \/ CancelTrigger(c)
  \/ \E pr \in PR : RequestGuard(c, pr)
  \/ \E at \in RequestTime : RequestRecord(c, at)
  \/ RequestAbandon(c)

Next ==
  \/ \E c \in Caller : CallerStep(c)
  \/ \E w \in WatchId : WorkerStep(w) \/ Notify(w)
  \/ Close
  \/ Restart

Spec == Init /\ [][Next]_vars

(***************************************************************************)
(* The Go scheduler runs every goroutine, the ticker goes on, and a GitHub *)
(* call returns within PollTimeout: weak fairness.  The clock goes on: a   *)
(* watch that is polled for ever is one day found too old, which is strong *)
(* fairness of PollExpire.  Nobody has to call a tool, GitHub never has to *)
(* complete a review, and the process never has to stop.                   *)
(***************************************************************************)
Fairness ==
  /\ \A w \in WatchId :
       WF_vars(WorkerStep(w)) /\ SF_vars(PollExpire(w)) /\ WF_vars(Notify(w))
  /\ \A c \in Caller :
       WF_vars(StartRefused(c) \/ StartReuse(c) \/ \E w \in WatchId : StartNew(c, w))
       /\ WF_vars(CancelTrigger(c)) /\ WF_vars(RequestAbandon(c))

FairSpec == Spec /\ Fairness
=============================================================================
