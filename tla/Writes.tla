--------------------------------- MODULE Writes --------------------------------
(***************************************************************************)
(* All writing tools on one pull request, with what others do to it.       *)
(***************************************************************************)
EXTENDS FollowUps, PullRequestUpdates

Next ==
  \/ Elsewhere
  \/ \E c \in Caller : FollowUpStep(c) \/ UpdateStep(c)

Spec == Init /\ [][Next]_vars
=============================================================================
