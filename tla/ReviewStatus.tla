----------------------------- MODULE ReviewStatus -----------------------------
(***************************************************************************)
(* DeriveStatus of internal/github/client.go as a function: the state of a *)
(* Copilot review, from what GitHub was read to say of the pull request    *)
(* and from the latest row of trigger_log.                                 *)
(*                                                                         *)
(* Times are seconds, from 1 on.  Reviews are numbered in the order they   *)
(* were submitted; their numbers stand for GitHub's ids.                   *)
(***************************************************************************)
EXTENDS Naturals

None == 0      \* no time, and no prev_review_id
NoReview == [id |-> None]

Final == {"COMPLETED", "BLOCKED"}
Status == {"NOT_REQUESTED", "PENDING", "IN_PROGRESS"} \cup Final

(***************************************************************************)
(* ReviewData: asked is IsCopilotInReviewers, askedAt ReviewRequestedAt,   *)
(* workAt WorkStartedAt, and low a rate limit that is nearly exhausted.    *)
(***************************************************************************)
NoData == [asked |-> FALSE, review |-> NoReview, askedAt |-> None,
           workAt |-> None, low |-> FALSE]

\* The requested_at and prev_review_id of no row.
NoEntry == [at |-> None, prev |-> None]

\* When the review was asked for: the timeline comes before trigger_log.
RequestedAt(data, entry) ==
  IF data.askedAt # None THEN data.askedAt ELSE entry.at

\* Variant: any review there is answers any request.
Relevant_VAlways(data, entry) == TRUE

\* The review is not one that was there before it was asked for.
Relevant(data, entry) ==
  \/ RequestedAt(data, entry) = None
  \/ entry.prev # None /\ data.review.id # entry.prev
  \/ entry.prev = None /\ data.review.at >= RequestedAt(data, entry)

WorkHasBegun(data) ==
  data.workAt # None /\ (data.askedAt = None \/ data.workAt > data.askedAt)

DeriveStatus(data, entry) ==
  IF data.review # NoReview /\ Relevant(data, entry) THEN data.review.verdict
  ELSE IF ~data.asked THEN "NOT_REQUESTED"
  ELSE IF WorkHasBegun(data) THEN "IN_PROGRESS"
  ELSE "PENDING"
=============================================================================
