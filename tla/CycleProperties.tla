---------------------------- MODULE CycleProperties ----------------------------
(***************************************************************************)
(* What is claimed of the advice of get_pr_review_cycle_status.  GitHub    *)
(* changes while the handler reads, so what holds is said of the moments   *)
(* of the call.                                                            *)
(***************************************************************************)
EXTENDS CycleStatus

\* The call of c ends in this step with this advice.
Advises(c, action) == call[c].op = "cycle" /\ answer'[c] = Advice(action)

\* "never mark an unreviewed PR as ready to merge", "unresolved=0 and CI=OK":
\* when the advice is to merge then, at moments of this call, no thread was
\* unresolved, the last request was reviewed, and the checks were green of a
\* commit that was the head.  It need not have been the same moment.
ReadyWasEarned ==
  [][\A c \in Caller :
       Advises(c, "READY_TO_MERGE") =>
         /\ observed[c].clear
         /\ observed[c].reviewed
         /\ observed[c].heads \cap observed[c].green # {}]_cycleVars

\* An agent is not made to go round again for nothing: when all that was so
\* throughout the call, nothing was asked of Copilot, and cycles are left, the
\* only advice after a fix that needs no review is to merge.
EarnedIsReady ==
  [][\A c \in Caller :
       /\ observed[c].ready
       /\ call[c].done < MaxCycles
       /\ ~RereviewRequired(call[c].fix)
       => \A action \in {"WAIT", "REPLY_RESOLVE", "REQUEST_REREVIEW", "ESCALATE"} :
            ~Advises(c, action)]_cycleVars
=============================================================================
