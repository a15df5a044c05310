--------------------------- MODULE ReviewProperties ---------------------------
(***************************************************************************)
(* What is claimed of ReviewRequest.                                       *)
(***************************************************************************)
EXTENDS ReviewRequest

Time == Nat \ {None}
ReviewRecord == {NoReview} \cup [id : Nat \ {None}, at : Time, verdict : Verdict]
Data == [asked : BOOLEAN, review : ReviewRecord, askedAt : Nat, workAt : Nat, low : BOOLEAN]
Origin == [reviews : Nat, at : Nat]

\* A call that reads from GitHub or sleeps, one that is about to record its
\* request, and one that is about to complete a row.
Reading ==
  [op : {"request", "status", "wait"},
   pc : {"reviewers", "reviews", "timeline", "fetched", "asleep"},
   data : Data, polls : 0..(MaxPolls - 1), last : Status \cup {"NONE"}, reviews : Nat]
Recording ==
  [op : {"request"}, pc : {"record", "insertDated", "insertNow"},
   review : ReviewRecord, origin : Origin]
Settling ==
  [op : {"status", "wait"}, pc : {"settle"}, data : Data,
   status : Final, trigger : TriggerId]
Call == {Idle} \cup Reading \cup Recording \cup Settling

Outcome == {"ANSWER", "RATE_LIMITED", "TIMEOUT", "CANCELLED"}
Answer ==
  {NoAnswer}
  \cup [outcome : Outcome, status : Status \cup {"NONE"}, review : ReviewRecord,
        trigger : TriggerId \cup {NoId}]

\* Every variable has its type.
TypeOK ==
  /\ asked \in BOOLEAN
  /\ askedAt \in Nat /\ workAt \in Nat /\ now \in Time /\ asks \in Nat /\ faults \in Nat
  /\ reviews \in Seq([at : Time, verdict : Verdict])
  /\ triggerLog \subseteq TriggerRow({ThisPR}, Time)
  /\ prevReview \in [TriggerId -> Nat]
  /\ origin \in [TriggerId -> Origin]
  /\ settled \subseteq TriggerId
  /\ call \in [Caller -> Call]
  /\ answer \in [Caller -> Answer]

\* "so future HasPending checks can prevent duplicate review requests": while
\* a request is pending no other is recorded.
OnePending == \A e, f \in triggerLog : ~e.done /\ ~f.done => e = f

\* "so that GetLatest() continues to return the most-recent row": a pending
\* request is the one the next poll looks at, and so the one it can complete.
PendingIsLatest ==
  \A e \in triggerLog : ~e.done => e.id \in LatestIds(triggerLog, ThisPR)

\* "a different ID means Copilot has submitted a new review": no request is
\* completed by a review from before the call that made it, unless that review
\* and the request on GitHub fell into the same second.
CompletedIsAnswered ==
  \A t \in settled :
    \E i \in DOMAIN reviews : i > origin[t].reviews \/ reviews[i].at >= origin[t].at

\* A call that has told its caller of a finished review has completed the
\* request it answers: a new one is not refused because of it.
AnswerIsSettled ==
  \A c \in Caller :
    answer[c] # NoAnswer /\ answer[c].outcome = "ANSWER" /\ answer[c].status \in Final
    => ~IsPending(triggerLog, answer[c].trigger)

\* Every recorded request is completed in the end, if Copilot answers and
\* somebody polls: otherwise no review could ever be requested again.
RequestIsSettled ==
  \A t \in TriggerId :
    IsPending(triggerLog, t) ~> ~IsPending(triggerLog, t)

\* Every call returns, a waiting one after MaxPolls polls.
CallsReturn == \A c \in Caller : call[c] # Idle ~> call[c] = Idle
=============================================================================
