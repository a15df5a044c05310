------------------------------ MODULE CycleStatus ------------------------------
(***************************************************************************)
(* get_pr_review_cycle_status (internal/tools/cycle.go): what the agent    *)
(* that works on a pull request should do next.  The handler decides from  *)
(* four things it reads one after the other: the check runs of the head,   *)
(* the review threads, GetReviewData and trigger_log.  The last two, and   *)
(* the tools that ask for reviews, are those of ReviewRequest, which this  *)
(* module extends with the other two, their users and this handler.        *)
(*                                                                         *)
(* All pages of the check runs of a commit are one step, and so are those  *)
(* of the threads.  How long Copilot has been silent is left open.         *)
(***************************************************************************)
EXTENDS ReviewRequest, SequencesExt

CONSTANTS
  Check,      \* a check, by its app and name
  FixType,    \* what the last fix may have been
  MaxCycles,  \* max_cycles
  MaxHeads,   \* bound: commits that become the head
  MaxRuns,    \* bound: check runs
  MaxThreads  \* bound: review threads

ASSUME FixTypeAssumption == FixType \subseteq {"logic", "spec_change", "trivial", "none"}
ASSUME CyclesAssumption == MaxCycles \in Nat \ {0}
ASSUME CycleBoundsAssumption == MaxHeads \in Nat \ {0} /\ MaxRuns \in Nat /\ MaxThreads \in Nat

VARIABLES
  head,     \* the head commit
  runs,     \* the runs of each check for each commit, in the order of their ids
  threads,  \* the review threads: resolved, and replied to by a second author
  observed  \* what was true at some moment of a call, or all through it (ghost)

cycleVars == <<vars, head, runs, threads, observed>>

Commit == 1..MaxHeads
NewThread == [resolved |-> FALSE, replied |-> FALSE]

-----------------------------------------------------------------------------
(* The ghost: what can be seen at one moment, and what a call has seen.    *)

Green(h) == \A n \in Check : runs[h][n] = << >> \/ runs[h][n][Len(runs[h][n])] = "passed"
Clear == \A i \in DOMAIN threads : threads[i].resolved

\* There is a review, and one that the latest row of trigger_log asked for.
Reviewed ==
  /\ reviews # << >>
  /\ \A t \in LatestIds(triggerLog, ThisPR) \ {NoId} :
       \E i \in DOMAIN reviews : i > origin[t].reviews \/ reviews[i].at >= origin[t].at

Moment ==
  [heads |-> {head}, green |-> {h \in 1..head : Green(h)},
   clear |-> Clear, reviewed |-> Reviewed,
   ready |-> Green(head) /\ Clear /\ Reviewed /\ ~asked]

NoMoment == [heads |-> {}, green |-> {}, clear |-> FALSE, reviewed |-> FALSE, ready |-> FALSE]

Merge(o, p) ==
  [heads |-> o.heads \cup p.heads, green |-> o.green \cup p.green,
   clear |-> o.clear \/ p.clear, reviewed |-> o.reviewed \/ p.reviewed,
   ready |-> o.ready /\ p.ready /\ o.heads = p.heads]

Observe ==
  observed' = [c \in Caller |->
                 IF call'[c].op # "cycle" THEN NoMoment
                 ELSE IF call[c].op # "cycle" THEN Moment'
                 ELSE Merge(observed[c], Moment')]

-----------------------------------------------------------------------------
(* The users of the pull request, and its checks.                          *)

Push ==
  /\ head < MaxHeads
  /\ head' = head + 1
  /\ UNCHANGED <<vars, runs, threads>>

RunCount == Cardinality({<<h, n, i>> \in Commit \X Check \X (1..MaxRuns) : i \in DOMAIN runs[h][n]})

\* The first run of a check for a commit that is or was the head, or a rerun.
StartRun(h, n) ==
  /\ RunCount < MaxRuns
  /\ runs[h][n] # << >> => Last(runs[h][n]) # "pending"
  /\ runs' = [runs EXCEPT ![h][n] = Append(@, "pending")]
  /\ UNCHANGED <<vars, head, threads>>

EndRun(h, n) ==
  /\ runs[h][n] # << >> /\ Last(runs[h][n]) = "pending"
  /\ \E result \in {"passed", "failed"} : runs' = [runs EXCEPT ![h][n] = Append(Front(@), result)]
  /\ UNCHANGED <<vars, head, threads>>

Reply(i) ==
  /\ ~threads[i].replied
  /\ threads' = [threads EXCEPT ![i].replied = TRUE]
  /\ UNCHANGED <<vars, head, runs>>

ToggleThread(i) ==
  /\ threads' = [threads EXCEPT ![i].resolved = ~@]
  /\ UNCHANGED <<vars, head, runs>>

\* Everything ReviewRequest has; a review may come with a thread.
ReviewStep ==
  /\ Next
  /\ \/ UNCHANGED threads
     \/ /\ reviews' # reviews /\ Len(threads) < MaxThreads
        /\ threads' = Append(threads, NewThread)
  /\ UNCHANGED <<head, runs>>

-----------------------------------------------------------------------------
(* The handler.                                                            *)

\* The call begins with GetCIStatus, which asks for the head, and then for the
\* check runs of that commit.
BeginCycle(c, done, fix) ==
  /\ call[c] = Idle
  /\ call' = [call EXCEPT ![c] =
                [op |-> "cycle", pc |-> "checks", done |-> done, fix |-> fix, sha |-> head,
                 ciOK |-> FALSE, unresolved |-> 0, allReplied |-> TRUE, data |-> NoData]]
  /\ answer' = [answer EXCEPT ![c] = NoAnswer]

At(c, pc) == call[c].op = "cycle" /\ call[c].pc = pc

\* Variant: a check is judged by its first run.
LatestRun_VFirst(h, n) == Head(runs[h][n])

\* Reruns are collapsed to the run with the highest id.
LatestRun(h, n) == Last(runs[h][n])

\* No check is pending or failed; there may be none at all.
CIOK(h) == \A n \in Check : runs[h][n] = << >> \/ LatestRun(h, n) = "passed"

ReadChecks(c) ==
  /\ At(c, "checks")
  /\ call' = [call EXCEPT ![c].ciOK = CIOK(call[c].sha), ![c].sha = None,
                          ![c].pc = "threads"]
  /\ UNCHANGED answer

Unresolved == {i \in DOMAIN threads : ~threads[i].resolved}

\* Resolved threads are done with, replied to or not.
AllReplied == \A i \in Unresolved : threads[i].replied

Advice(action) == [outcome |-> "CYCLE", action |-> action]

\* The cycles are used up: the call reads the threads all the same, and no more.
ReadThreads(c) ==
  /\ At(c, "threads")
  /\ IF call[c].done >= MaxCycles
     THEN Return(c, Advice("ESCALATE"))
     ELSE /\ call' = [call EXCEPT ![c].unresolved = Cardinality(Unresolved),
                                  ![c].allReplied = AllReplied, ![c].pc = "reviewers"]
          /\ UNCHANGED answer

RereviewRequired(fix) == fix \in {"logic", "spec_change"}

\* Variant: unresolved threads do not matter.
RecommendedAction_VThreads(status, k, silent) ==
  IF status \notin Final THEN "WAIT"
  ELSE IF RereviewRequired(k.fix) THEN IF k.allReplied THEN "REQUEST_REREVIEW" ELSE "REPLY_RESOLVE"
  ELSE IF (k.unresolved = 0 \/ silent) /\ k.ciOK THEN "READY_TO_MERGE"
  ELSE "WAIT"

\* An unreviewed pull request is never ready.  With unresolved threads out of
\* the way, the second condition of the last case adds nothing to the first.
RecommendedAction(status, k, silent) ==
  IF status \notin Final THEN "WAIT"
  ELSE IF k.unresolved > 0 THEN "REPLY_RESOLVE"
  ELSE IF RereviewRequired(k.fix) THEN IF k.allReplied THEN "REQUEST_REREVIEW" ELSE "REPLY_RESOLVE"
  ELSE IF (k.unresolved = 0 \/ silent) /\ k.ciOK THEN "READY_TO_MERGE"
  ELSE "WAIT"

\* A low rate limit is an error.  Otherwise GetLatest, DeriveStatus, and the
\* answer; trigger_log is left as it is.
Decide(c) ==
  /\ Fetched(c, {"cycle"})
  /\ IF call[c].data.low
     THEN Return(c, NoAnswer)
     ELSE \E t \in LatestIds(triggerLog, ThisPR), silent \in BOOLEAN :
            Return(c, Advice(RecommendedAction(DeriveStatus(call[c].data, EntryOf(t)),
                                               call[c], silent)))

CycleStep(c) ==
  /\ \/ \E done \in 0..MaxCycles, fix \in FixType : BeginCycle(c, done, fix)
     \/ ReadChecks(c) \/ ReadThreads(c) \/ Decide(c)
  /\ UNCHANGED <<github, now, table, faults, head, runs, threads>>

-----------------------------------------------------------------------------
CycleInit ==
  /\ Init
  /\ head = 1
  /\ runs = [h \in Commit |-> [n \in Check |-> << >>]]
  /\ threads = << >>
  /\ observed = [c \in Caller |-> NoMoment]

CycleNext ==
  /\ \/ Push
     \/ \E h \in 1..head, n \in Check : StartRun(h, n) \/ EndRun(h, n)
     \/ \E i \in DOMAIN threads : Reply(i) \/ ToggleThread(i)
     \/ ReviewStep
     \/ \E c \in Caller : CycleStep(c)
  /\ Observe

CycleSpec == CycleInit /\ [][CycleNext]_cycleVars
=============================================================================
