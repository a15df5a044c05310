----------------------------- MODULE ReviewRequest ----------------------------
(***************************************************************************)
(* A Copilot review of one pull request, from the request to the answer:   *)
(* request_copilot_review, get_copilot_review_status and                   *)
(* wait_for_copilot_review (internal/tools), GetReviewData and             *)
(* RequestCopilotReview (internal/github/client.go), trigger_log           *)
(* (internal/store/db.go), and GitHub as far as they see it.               *)
(*                                                                         *)
(* A step is one GitHub call or one database statement.  Between two steps *)
(* of a handler other handlers run, and GitHub changes.  A poll of a watch *)
(* makes the calls of get_copilot_review_status in the same order, so a    *)
(* call of that handler stands for it too.                                 *)
(*                                                                         *)
(* Everything that may go wrong (an error, an exhausted rate limit, a lost *)
(* response, a caller that goes away, a crash) counts against MaxFaults.   *)
(* A definition whose name ends in _V and a word is a faulty variant of    *)
(* the one that follows it, which no action uses.                          *)
(***************************************************************************)
EXTENDS TriggerLog, ReviewStatus, Sequences

CONSTANTS
  Caller,       \* tool handlers that may run at the same time
  ThisPR,       \* the pull request
  MaxPolls,     \* WaitInput.MaxPolls
  Verdict,      \* verdicts Copilot may give
  GivesUp,      \* users may withdraw a request, and cancel a watch
  MaxTriggers,  \* bound: rows of trigger_log
  MaxAsks,      \* bound: requests that others make on GitHub
  MaxTicks,     \* bound: seconds that pass with nothing happening on GitHub
  MaxFaults     \* bound: everything that goes wrong

ASSUME CallerAssumption == IsFiniteSet(Caller)
ASSUME PollsAssumption == MaxPolls \in Nat \ {0}
ASSUME VerdictAssumption == Verdict \subseteq Final
ASSUME GivesUpAssumption == GivesUp \in BOOLEAN
ASSUME ReviewBoundsAssumption ==
  /\ MaxTriggers \in Nat
  /\ MaxAsks \in Nat
  /\ MaxTicks \in Nat
  /\ MaxFaults \in Nat

VARIABLES
  asked,      \* Copilot is among the requested reviewers
  askedAt,    \* when it was last requested: the timeline's review_requested
  workAt,     \* when it last began: the timeline's copilot_work_started
  reviews,    \* the reviews Copilot submitted: [at, verdict]
  now,        \* the time
  asks,       \* requests made on GitHub by others
  triggerLog, \* the trigger_log table, but for prev_review_id
  prevReview, \* trigger_log.prev_review_id
  origin,     \* of a row: what GitHub was like when it was asked for (ghost)
  settled,    \* rows completed because of a review (ghost)
  call,       \* where each tool handler is
  answer,     \* what it last answered
  faults      \* what went wrong so far

github == <<asked, askedAt, workAt, reviews, asks>>
table == <<triggerLog, prevReview, origin, settled>>
vars == <<github, now, table, call, answer, faults>>

TriggerId == 1..MaxTriggers

Idle == [op |-> "idle"]
NoAnswer == [outcome |-> "NONE"]
NoOrigin == [reviews |-> 0, at |-> None]

Init ==
  /\ asked = FALSE
  /\ askedAt = None
  /\ workAt = None
  /\ reviews = <<>>
  /\ now = 1
  /\ asks = 0
  /\ triggerLog = {}
  /\ prevReview = [t \in TriggerId |-> None]
  /\ origin = [t \in TriggerId |-> NoOrigin]
  /\ settled = {}
  /\ call = [c \in Caller |-> Idle]
  /\ answer = [c \in Caller |-> NoAnswer]
  /\ faults = 0

Fault == faults < MaxFaults /\ faults' = faults + 1
NoFault == UNCHANGED faults

-----------------------------------------------------------------------------
(* GitHub and its users.                                                   *)

Tick ==
  /\ now - 1 - Len(reviews) < MaxTicks
  /\ now' = now + 1
  /\ UNCHANGED <<github, table, call, answer, faults>>

\* Copilot is added to the requested reviewers, unless it is there already.
Ask ==
  /\ asked' = TRUE
  /\ askedAt' = IF asked THEN askedAt ELSE now
  /\ UNCHANGED <<workAt, reviews>>

\* Somebody requests a review on GitHub, or GitHub does so by itself.
AskElsewhere ==
  /\ ~asked
  /\ asks < MaxAsks
  /\ Ask
  /\ asks' = asks + 1
  /\ UNCHANGED <<now, table, call, answer, faults>>

\* Somebody takes Copilot off the requested reviewers.
Withdraw ==
  /\ GivesUp
  /\ asked
  /\ asked' = FALSE
  /\ UNCHANGED <<askedAt, workAt, reviews, asks, now, table, call, answer, faults>>

Work ==
  /\ asked
  /\ workAt' = now
  /\ UNCHANGED <<asked, askedAt, reviews, asks, now, table, call, answer, faults>>

\* Copilot submits a review, at the earliest in the second after the request.
Review ==
  /\ asked
  /\ asked' = FALSE
  /\ now' = now + 1
  /\ \E v \in Verdict : reviews' = Append(reviews, [at |-> now + 1, verdict |-> v])
  /\ UNCHANGED <<askedAt, workAt, asks, table, call, answer, faults>>

-----------------------------------------------------------------------------
(* The start and the end of a call.                                        *)

Begin(c, op) ==
  /\ call[c] = Idle
  /\ call' = [call EXCEPT ![c] =
                [op |-> op, pc |-> "reviewers", data |-> NoData, polls |-> 0,
                 last |-> "NONE", reviews |-> Len(reviews)]]
  /\ answer' = [answer EXCEPT ![c] = NoAnswer]

Return(c, a) ==
  /\ call' = [call EXCEPT ![c] = Idle]
  /\ answer' = [answer EXCEPT ![c] = a]

Answered(outcome, status, data, t) ==
  [outcome |-> outcome, status |-> status, review |-> data.review, trigger |-> t]

\* An error ends the call: one of GitHub's, or a statement that failed.
Fails(c) ==
  /\ call[c] # Idle
  /\ Fault
  /\ Return(c, NoAnswer)
  /\ UNCHANGED <<github, now, table>>

\* The process restarts: trigger_log is all that is left.
Crash ==
  /\ Fault
  /\ call' = [c \in Caller |-> Idle]
  /\ answer' = [c \in Caller |-> NoAnswer]
  /\ UNCHANGED <<github, now, table>>

-----------------------------------------------------------------------------
(* GetReviewData: three GitHub calls, each of which may find the rate      *)
(* limit nearly exhausted, which ends it with what has been read so far.   *)

\* Variant: a later review does not replace an earlier one.
LatestCopilotReview_VFirst ==
  IF reviews = <<>> THEN NoReview
  ELSE [id |-> 1, at |-> reviews[1].at, verdict |-> reviews[1].verdict]

\* The review submitted last; of several in one second, the first.
LatestCopilotReview ==
  IF reviews = <<>> THEN NoReview
  ELSE LET i == CHOOSE i \in DOMAIN reviews :
                  \A j \in DOMAIN reviews :
                    \/ reviews[j].at < reviews[i].at
                    \/ reviews[j].at = reviews[i].at /\ i <= j
       IN  [id |-> i, at |-> reviews[i].at, verdict |-> reviews[i].verdict]

Reads(c, data, pc) == call' = [call EXCEPT ![c].data = data, ![c].pc = pc]

ReadReviewers(c) ==
  /\ call[c] # Idle /\ call[c].pc = "reviewers"
  /\ LET data == [call[c].data EXCEPT !.asked = asked]
     IN  \/ NoFault /\ Reads(c, data, "reviews")
         \/ Fault /\ Reads(c, [data EXCEPT !.low = TRUE], "fetched")
  /\ UNCHANGED <<github, now, table, answer>>

ReadReviews(c) ==
  /\ call[c] # Idle /\ call[c].pc = "reviews"
  /\ LET data == [call[c].data EXCEPT !.review = LatestCopilotReview]
         needsTimeline == data.asked \/ data.review # NoReview
     IN  \/ NoFault /\ Reads(c, data, IF needsTimeline THEN "timeline" ELSE "fetched")
         \/ Fault /\ Reads(c, [data EXCEPT !.low = TRUE], "fetched")
  /\ UNCHANGED <<github, now, table, answer>>

\* An error of this call is not fatal: the timeline is best effort.
ReadTimeline(c) ==
  /\ call[c] # Idle /\ call[c].pc = "timeline"
  /\ LET data == [call[c].data EXCEPT !.askedAt = askedAt, !.workAt = workAt]
     IN  \/ NoFault /\ Reads(c, data, "fetched")
         \/ Fault /\ Reads(c, [data EXCEPT !.low = TRUE], "fetched")
         \/ Fault /\ Reads(c, call[c].data, "fetched")
  /\ UNCHANGED <<github, now, table, answer>>

Fetched(c, ops) == call[c].op \in ops /\ call[c].pc = "fetched"

-----------------------------------------------------------------------------
(* request_copilot_review.                                                 *)

\* Variant: the guard is gone.
MayRequest_VAlways == TRUE

MayRequest == ~HasPending(triggerLog, ThisPR)

\* A request that is refused here does not begin.
RequestGuard(c) ==
  /\ MayRequest
  /\ Cardinality(triggerLog)
       + Cardinality({d \in Caller : call[d].op = "request"}) < MaxTriggers
  /\ Begin(c, "request")
  /\ UNCHANGED <<github, now, table, faults>>

\* Copilot is among the reviewers already.
RequestRefused(c) ==
  /\ Fetched(c, {"request"})
  /\ call[c].data.asked
  /\ Return(c, NoAnswer)
  /\ UNCHANGED <<github, now, table, faults>>

\* The mutation: it takes effect, and its response may be lost.
RequestCopilotReview(c) ==
  /\ Fetched(c, {"request"})
  /\ ~call[c].data.asked
  /\ Ask
  /\ UNCHANGED asks
  /\ \/ NoFault /\ UNCHANGED answer
        /\ call' = [call EXCEPT ![c] = [op |-> "request", pc |-> "record",
                      review |-> call[c].data.review,
                      origin |-> [reviews |-> call[c].reviews, at |-> askedAt']]]
     \/ Fault /\ Return(c, NoAnswer)
  /\ UNCHANGED <<now, table>>

\* Variant: the review that is there always dates the request.
IsNewest_VUnchecked(at, latest) == TRUE

\* latest == nil || candidate.After(latest.RequestedAt)
IsNewest(at, latest) == latest = {} \/ \A e \in latest : at > e.at

\* GetLatest decides how the request is recorded: as of the second after the
\* review that is there, with its id, or as of now, without one.
RequestPlan(c) ==
  /\ call[c].op = "request" /\ call[c].pc = "record"
  /\ LET latest == {e \in triggerLog : e.id \in LatestIds(triggerLog, ThisPR)}
         dated == /\ call[c].review # NoReview
                  /\ IsNewest(call[c].review.at + 1, latest)
     IN  call' = [call EXCEPT ![c].pc = IF dated THEN "insertDated" ELSE "insertNow"]
  /\ UNCHANGED <<github, now, table, answer, faults>>

RequestRecord(c) ==
  /\ call[c].op = "request" /\ call[c].pc \in {"insertDated", "insertNow"}
  /\ LET dated == call[c].pc = "insertDated"
         t == Cardinality(triggerLog) + 1
     IN  /\ triggerLog' = Insert(triggerLog, ThisPR,
                                 IF dated THEN call[c].review.at + 1 ELSE now)
         /\ prevReview' = [prevReview EXCEPT ![t] = IF dated THEN call[c].review.id ELSE None]
         /\ origin' = [origin EXCEPT ![t] = call[c].origin]
  /\ Return(c, NoAnswer)
  /\ UNCHANGED <<github, now, settled, faults>>

-----------------------------------------------------------------------------
(* get_copilot_review_status and wait_for_copilot_review.                  *)

BeginStatus(c) == Begin(c, "status") /\ UNCHANGED <<github, now, table, faults>>
BeginWait(c) == Begin(c, "wait") /\ UNCHANGED <<github, now, table, faults>>

EntryOf(t) ==
  IF t = NoId THEN NoEntry
  ELSE [at |-> (CHOOSE e \in triggerLog : e.id = t).at, prev |-> prevReview[t]]

\* A low rate limit is an error of a status call.  A waiting call ends with
\* what status there is to derive from the data that was read.
LowRate(c) ==
  /\ Fetched(c, {"status", "wait"})
  /\ call[c].data.low
  /\ \E t \in LatestIds(triggerLog, ThisPR) :
       Return(c, IF call[c].op = "status" THEN NoAnswer
                 ELSE Answered("RATE_LIMITED", DeriveStatus(call[c].data, EntryOf(t)),
                               call[c].data, t))
  /\ UNCHANGED <<github, now, table, faults>>

\* Variant: polls are not counted.
PollsDone_VStuck(c) == call[c].polls

PollsDone(c) == call[c].polls + 1

\* The call answers, or waits for the next poll; the last poll times out, or
\* finds that the caller has gone away.
Conclude(c, status, t) ==
  \/ /\ call[c].op = "status" \/ status \in Final
     /\ NoFault
     /\ Return(c, Answered("ANSWER", status, call[c].data, t))
  \/ /\ call[c].op = "wait" /\ status \notin Final
     /\ PollsDone(c) < MaxPolls
     /\ NoFault
     /\ call' = [call EXCEPT ![c].pc = "asleep", ![c].data = NoData,
                             ![c].polls = PollsDone(c), ![c].last = status]
     /\ UNCHANGED answer
  \/ /\ call[c].op = "wait" /\ status \notin Final
     /\ PollsDone(c) >= MaxPolls
     /\ \/ NoFault /\ Return(c, Answered("TIMEOUT", status, call[c].data, t))
        \/ Fault /\ Return(c, Answered("CANCELLED", status, call[c].data, t))

\* Variant: the row is left pending.
MustSettle_VNever(status, t) == FALSE

\* Variant: there may be no row.
MustSettle_VNoRow(status, t) == status \in Final

MustSettle(status, t) == status \in Final /\ IsPending(triggerLog, t)

\* GetLatest and DeriveStatus.
Derive(c) ==
  /\ Fetched(c, {"status", "wait"})
  /\ ~call[c].data.low
  /\ \E t \in LatestIds(triggerLog, ThisPR) :
       LET status == DeriveStatus(call[c].data, EntryOf(t))
       IN  IF MustSettle(status, t)
           THEN /\ call' = [call EXCEPT ![c] = [op |-> @.op, pc |-> "settle",
                              data |-> @.data, status |-> status, trigger |-> t]]
                /\ UNCHANGED <<answer, faults>>
           ELSE Conclude(c, status, t)
  /\ UNCHANGED <<github, now, table>>

\* UpdateCompletedAt
Settle(c) ==
  /\ call[c] # Idle /\ call[c].pc = "settle"
  /\ triggerLog' = UpdateCompletedAt(triggerLog, call[c].trigger)
  /\ settled' = IF IsPending(triggerLog, call[c].trigger)
                THEN settled \cup {call[c].trigger} ELSE settled
  /\ Conclude(c, call[c].status, call[c].trigger)
  /\ UNCHANGED <<github, now, prevReview, origin>>

\* The timer fires.
Wake(c) ==
  /\ call[c].op = "wait" /\ call[c].pc = "asleep"
  /\ call' = [call EXCEPT ![c].pc = "reviewers"]
  /\ UNCHANGED <<github, now, table, answer, faults>>

\* The caller goes away: the call ends with the status of the last poll (what
\* else that poll found is repeated in the answer, and left out here).
WaitCancelled(c) ==
  /\ call[c].op = "wait" /\ call[c].pc \in {"asleep", "reviewers", "reviews"}
  /\ Fault
  /\ Return(c, Answered("CANCELLED", call[c].last, NoData, NoId))
  /\ UNCHANGED <<github, now, table>>

-----------------------------------------------------------------------------
\* cancel_copilot_review_watch completes the trigger of the watch.
CancelWatch ==
  /\ GivesUp
  /\ \E e \in triggerLog : ~e.done /\ triggerLog' = UpdateCompletedAt(triggerLog, e.id)
  /\ UNCHANGED <<github, now, prevReview, origin, settled, call, answer, faults>>

HandlerStep(c) ==
  \/ ReadReviewers(c) \/ ReadReviews(c) \/ ReadTimeline(c)
  \/ RequestRefused(c) \/ RequestCopilotReview(c) \/ RequestPlan(c) \/ RequestRecord(c)
  \/ LowRate(c) \/ Derive(c) \/ Settle(c) \/ Wake(c)

Next ==
  \/ Tick \/ AskElsewhere \/ Withdraw \/ Work \/ Review
  \/ \E c \in Caller :
       \/ RequestGuard(c) \/ BeginStatus(c) \/ BeginWait(c)
       \/ HandlerStep(c)
       \/ WaitCancelled(c)
       \/ Fails(c)
  \/ CancelWatch
  \/ Crash

Spec == Init /\ [][Next]_vars

(***************************************************************************)
(* Calls go on, Copilot answers what it is asked, and somebody keeps       *)
(* polling: weak fairness.  Nobody has to request a review, and what goes  *)
(* wrong goes wrong MaxFaults times at most.                               *)
(***************************************************************************)
Fairness ==
  /\ WF_vars(Review)
  /\ \A c \in Caller : WF_vars(HandlerStep(c)) /\ WF_vars(BeginStatus(c) \/ BeginWait(c))

FairSpec == Spec /\ Fairness
=============================================================================
