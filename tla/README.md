# Review Raven in TLA+

Review Raven is an MCP server for the reviewed side of a pull request: it asks
GitHub for a Copilot review, watches for the answer in the background, and reads
and answers the discussion. This directory holds TLA+ modules of its parts,
configurations that model-check them with TLC, and proofs of the properties
that matter most, checked by TLAPS. Paths below are relative to the repository.

## 1. The system

### 1.1 Components

| Component | State | Operations | Model |
|---|---|---|---|
| Watch manager, `internal/watch/manager.go` | `watchesByID`, `activeByKey`, `latestByKey`, `closed` under `mu`; one goroutine for each watch | `Start`, `GetByID`, `GetLatest`, `List`, `CancelByID`, `CancelLatest`, `Close`; the polling loop | `WatchManager`, `WatchQuery` |
| Store, `internal/store/db.go` | the tables `trigger_log` and `review_watch` | insert, complete and look up triggers; upsert and look up watches; mark watches stale at start-up | `TriggerLog`, and the tables in `WatchManager` and `ReviewRequest` |
| Review status, `internal/github/client.go` | none (GitHub's) | `GetReviewData`, `DeriveStatus`, `RequestCopilotReview` | `ReviewStatus`, `ReviewRequest` |
| Review tools, `internal/tools/request.go`, `status.go`, `wait.go` | the progress of a call | `request_copilot_review`, `get_copilot_review_status`, `wait_for_copilot_review` | `ReviewRequest` |
| Watch tools and resources, `internal/tools/watch.go`, `server.go` | none | hand calls to the manager; notifications | part of `WatchManager` and `WatchQuery` |
| Comment reader, `internal/reader`, `internal/github/comments.go`, `tools/read_comments.go` | the progress of a call | read a discussion twice, compare, retry | `CommentReader` |
| Follow-up comments, `tools/follow_up.go`, `github/follow_up.go` | the progress of a call | look for an earlier reply or issue, post, read back | `FollowUps` |
| Threads, `tools/threads.go` | the progress of a call | reply, resolve, reply and resolve | `PullRequestUpdates` |
| PR description, `tools/description.go`, `github/description.go` | the progress of a call | read, compare, PATCH, read back | `PullRequestUpdates` |
| Cycle and escalation comments, `github/cycle_comment.go` | the progress of a call | check state and head, post | `PullRequestUpdates` |
| Token sources, `internal/githubapp`, `github/gateway_token_source.go` | a cached token with its expiry | issue, reuse, invalidate | `TokenSources` |
| Review cycle, `tools/cycle.go` | the progress of a call | read check runs, threads, reviews and the log, and advise | `CycleStatus` |
| Trusted authors, PR context, checks, authentication of requests | none, or constant | one read each | as other components use them |
| Diagnostics, output schemas, legacy handshake, configuration | none, or constant | no state to relate to anything | not modelled |

### 1.2 How they interact

A tool handler runs in a goroutine of its own. `request_copilot_review` checks
`trigger_log` for a pending row, reads GitHub, asks GitHub for a review, and then
writes a row. `get_copilot_review_status`, `wait_for_copilot_review` and the
polls of a watch read GitHub, read the latest row, derive a status from the two,
and complete the row when the review is there. The watch manager keeps its
watches in memory under one mutex and mirrors each in a row of `review_watch`;
it takes the mutex only before and after a GitHub call, so everything it learned
may be out of date when it acts on it. Notifications are sent by goroutines of
their own and carry nothing but the URI of a watch; the subscriber reads it
back. A process that starts marks the rows its predecessor left active as
`STALE`; watches are not resumed.

`read_review_comments` asks GitHub for the discussion page by page, and so do
the writing tools before and after they write. These tools keep nothing between
calls: what protects one call from another, and from people, is only what it
reads back. `get_pr_review_cycle_status` reads four things one after the other
and decides. All of them take their credentials from one of the two token
sources; a refused call tells the source of its token.

### 1.3 What is hard

* *Concurrency.* Handlers, pollers, notifications and shutdown interleave
  between critical sections, GitHub calls and database statements.
* *Failure.* Any write may fail after the memory has changed, any GitHub call
  may fail or answer with the rate limit exhausted, and the response to a
  mutation may be lost.
* *Restart.* The process may die between any two steps; memory and goroutines
  go, the tables stay.
* *Order.* Times in `trigger_log` are partly chosen by the program, one second
  after an existing review, and have a resolution of one second.
* *Liveness.* Watches and waiting calls must end whatever GitHub does; a pending
  row must be completed or no review can be asked for again.

`PROJECT.json` lists each hazard with its line and the properties that cover it.

### 1.4 What makes each part correct

* Watch manager: one watch at a time for a user and pull request; a watch ends
  once, consistently, and is then never changed; every watch ends, its
  goroutine returns and its subscriber learns of it; memory and table agree as
  far as writes succeed.
* Statuses and lists of watches: what is told was so at a moment of the call, and
  no active watch is left out.
* Triggers and requests: one pending request; it is the one the pollers see; it
  is completed by a review that answers it, and by no older one; it is completed
  in the end.
* Reader: what is returned is one moment of the discussion, by trusted authors
  only, complete, after a bounded number of attempts.
* Follow-up, threads, description: a write that a check could have prevented is
  not made twice; an error that does not say so wrote nothing; a concurrent
  change is not overwritten but in the gap between reading and writing.
* Token sources: an expired token is not handed out; a rejected one is dropped
  and no other; a good one is shared.
* Review cycle: the advice to merge was earned during the call, and is given
  when it was earned all through it.

## 2. Modules

| Module | What it is |
|---|---|
| `TriggerLog` | the statements on `trigger_log` as operators on a set of rows |
| `TriggerLogProofs` | lemmas on these: what they return, that the log stays a finite log |
| `WatchManager` | the manager, its workers, its callers, both tables, shutdown, restart |
| `WatchLifecycle` | the abstract specification: what users are told of a watch |
| `WatchProperties` | the properties of `WatchManager`, and the refinement mapping |
| `MCWatchManager` | symmetry sets for TLC |
| `WatchQuery` | statuses and lists: memory, then the table |
| `QueryProperties`, `MCWatchQuery` | its properties, its symmetry set |
| `WatchProofs` | well-formed states, the effects of a step, one active watch, ends are for ever, the table follows; `WatchManager` implements `WatchLifecycle` |
| `WatchTriggerProofs` | the triggers of watches are completed in time, and no update is missed |
| `QueryProofs` | what queries answer was so, and misses nothing |
| `ReviewStatus` | `DeriveStatus` as a function of what was read and the latest row |
| `ReviewRequest` | the three review tools, `trigger_log` and GitHub as they see it |
| `ReviewProperties`, `MCReviewRequest` | its properties, its symmetry set |
| `ReviewProofs` | its types, and its properties for one handler or for many |
| `CycleStatus` | `ReviewRequest` with check runs, threads and the handler of the cycle status |
| `CycleProperties`, `MCCycleStatus` | its properties |
| `CommentReader` | one read of a discussion that goes on meanwhile |
| `ReaderProperties`, `MCCommentReader` | its properties |
| `ReaderProofs` | its types; answers are by trusted people, existed together and are complete |
| `PullRequest` | what the writing tools share: the pull request, its people, a call |
| `FollowUps`, `PullRequestUpdates` | the writing tools, each over `PullRequest` |
| `Writes` | their composition |
| `WriteProperties`, `MCWrites` | its properties, its symmetry set |
| `WriteProofs` | all of them, for any calls, changes by others and failures |
| `TokenSources` | both token sources, their callers, time, GitHub and the gateway |
| `TokenProperties`, `MCTokens` | its properties, its symmetry set |
| `TokenProofs` | all of them, for any callers, tokens and margins |

Names with `_V` are variants: what a plausible bug would make of the definition
that follows them. No specification uses one.

### 2.1 WatchManager and the code

A step is one critical section of `mu`, one database statement outside it, or
one GitHub call.

| Code | Model |
|---|---|
| `watchState` | a record in `watch`; `token` stands for the token and its client |
| `Start`: the read before the lock; refused; an active watch; a new one | `StartRead`; `StartRefused`; `StartReuse`; `StartNew` |
| `CancelByID`, `CancelLatest`; the update after the unlock | `CancelByID`, `CancelLatest`; `CancelTrigger` |
| `run`: tick, context done, recovered panic | `WorkerTick`, `WorkerDone`, `WorkerPanic` |
| `pollOnce`: too old; up to the call; the call's answers; completing the trigger; the rest under the lock | `PollExpire`; `PollBegin`; `PollCancelled`, `PollError`, `PollUpstreamFailure`, `PollAnswer`; `PollSettle`; `PollApply` |
| `finishState`, `finishLocked` | `FinishState`, `Finish` |
| `persistLocked`, `persistOrDegradeLocked` | `Persisted`, `NotPersisted`; `Store` |
| the partial unique index | `IndexAllows` |
| `go notifyResourceUpdated` | `Announce` puts the watch in `notify`; `Notify` delivers |
| `Close`; `store.Open` | `Close`; `Restart` |

The review a poll sees is not constrained: GitHub may answer anything. The
requests in this module only make triggers come and go next to the watches;
`ReviewRequest` models them properly.

`WatchQuery` adds the queries, each of which reads the memory and then the table:
`GetByID` and `GetByIDFromTable`, `GetLatest` and `GetLatestFromTable`, `List` and
`ListFromTable`, with the filter (`Wanted`), the order and the limit (`Before`,
`Firsts`, applied to the rows and again to the result) and the precedence of the
memory (`Merged`). `told` holds the answer until `Heard`. `during` is a ghost: what
each watch was in the course of the query. The code orders by `updated_at`, `started_at` and the row: among watches of
one user and pull request, which do not overlap, that is the order of their ids,
and among others the model leaves it open.

### 2.2 ReviewRequest and the code

A step is one GitHub call or one statement on `trigger_log`. GitHub consists of
the list of requested reviewers (`asked`), two events of the timeline
(`askedAt`, `workAt`) and the submitted reviews; `AskElsewhere`, `Withdraw`,
`Work` and `Review` are what its users and Copilot do, at any time between two
steps of a handler.

| Code | Model |
|---|---|
| `GetReviewData`: reviewers; reviews; timeline | `ReadReviewers`; `ReadReviews`; `ReadTimeline` |
| `HasPending` at the start of the request | `RequestGuard` |
| Copilot is a reviewer already | `RequestRefused` |
| the mutation, with or without its response | `RequestCopilotReview` |
| `GetLatest` and the choice of the time; the insertion | `RequestPlan`; `RequestRecord` |
| rate limit; `GetLatest` and `DeriveStatus`; `UpdateCompletedAt` | `LowRate`; `Derive`; `Settle` |
| the loop of a waiting call, its timer and its cancellation | `Conclude`, `Wake`, `WaitCancelled` |
| any error | `Fails` |

`origin` and `settled` are history variables: what GitHub was like when a row's
call began and made its request, and which rows were completed because of a
review. No action reads them.

### 2.3 CycleStatus and the code

`CycleStatus` extends `ReviewRequest` and adds to its steps those of people who
push, resolve and reply, of the checks, and of the handler.

| Code | Model |
|---|---|
| the head that `GetCIStatus` asks for; its check runs; reruns collapsed | `BeginCycle`; `ReadChecks`; `LatestRun` |
| the threads; `ESCALATE` when the cycles are used up | `ReadThreads` |
| `GetReviewData` | the reading steps of `ReviewRequest` |
| `GetLatest`, `DeriveStatus` and the decision | `Decide`, `RecommendedAction` |

`observed` is a ghost: what was so at some moment of the call, and whether all
was so throughout. That is as much as can be said, because the handler reads the
check runs first, then the threads, then the reviews: its conditions need not
have held at one moment. Three things the model makes plain:

* A head without any check run counts as one whose checks are in order, as it is
  right after a push (`Green`, as in the code).
* In the last case of the decision the second condition (silence) adds nothing
  to the first, for no thread is unresolved there.
* `REPLY_RESOLVE` for a fix that needs a review again cannot be reached: with no
  thread unresolved, all count as replied.

### 2.4 CommentReader and the code

A step is one query. Pages are numbered in the order in which they are fetched;
a comment stays on its page. Comments are written, edited, deleted and orphaned
(their author's account is deleted), both branches move, and time passes, between
any two pages. A read keeps nothing for the next, so one is modelled, from every
discussion and every set of allowlist files it may begin with.

| Code | Model |
|---|---|
| `CommentSnapshot`, one page; `setRefs` | `ReadPage`; `Moved` (a `Continuation` of a thread shows no refs) |
| `ReadMetadata`, `ProjectAllowlist`, `checkAuthors` | `CheckAuthors` |
| `fingerprint`; the comparison; the loop | `Fingerprint`, `Same`; `Compare`; `Stale`, `LastAttempt` |
| errors and their codes | `Fails`, `Refuse` |

`before`, `check` and `checkedAt` are ghosts: what was there when the attempt
began, and the discussion at the moment its authors were checked.

### 2.5 Writes and the code

A step is one query, or one reading of the discussion, which `CommentReader`
justifies: its answers are one moment. `Snapshot` is what the `snapshotId` of the
reader names. A call that is tried again is another call. Every query may fail
and every write may succeed with its response lost.

| Code | Model |
|---|---|
| `prepare`; `checkRefs`; the check of the arguments | `ReadDiscussion`, `ReadContext`; `CheckRefs`, `Confirm`; `Expected` |
| `reply`: look, read the one found; POST; read back | `LookForReply`, `ReadPrevious`; `PostReply`; `VerifyReply`, `ReadBackReply` |
| `createIssue`: search, read the candidates; labels and discussion; POST | `FindIssues`, `ReadCandidate`, `ReadCandidateAgain`, `Candidates`; `ReadAgain`; `PostIssue` |
| `readIssue`; the end of `getIssue` | `ReadIssue`, `ReadIssueAgain`; `GotIssue` |
| errors after a write, `mayHaveChanged` | `Written`, `FollowUpFails` |
| `UpdatePRDescription` | `ReadBefore`, `Patch`, `ReadAfter` |
| `reply_to_`, `resolve_`, `reply_and_resolve_review_thread` | `ReadThread`, `PostThreadReply`, `Resolve` |
| `PostReviewCycleComment`, `PostEscalationComment` | `ReadHead`, `PostComment` |

GitHub's search knows an issue some time after it was made (`indexed`, `Index`)
and may list fewer than it counts. `checked`, `searched`, `patched`,
`resolvers` and the `edits` of the description are ghosts: what a write had
looked at, who wrote, what it replaced.

### 2.6 TokenSources and the code

`mode` is `REVIEW_RAVEN_AUTH_MODE`. In `github-app` mode one source serves all
calls; `Token` keeps its mutex while it asks GitHub. In `gateway` mode each watch
has a source of its own under `oauth2.ReuseTokenSource`. The clock moves between
any two steps, so that an answer may come after the token it brings expired.

| Code | Model |
|---|---|
| `ValidateInstallation` | `ValidateInstallation` |
| `Token`: cached; asking; the answer | `TokenCached`, `Usable`; `TokenAsks`; `TokenAccepted`, `TokenUnfit`, `TokenFails` |
| `invalidatingTransport`, `Invalidate` | `Refused`; `Invalidate`, `Remaining` |
| `ReuseTokenSource.Token` (external) | `Reuse`, `Reusable` |
| `gatewayTokenSource.Token`; the expiry | `AskGateway`, `GatewayAccepted`, `GatewayFails`; `Dated`, `GatewayUndated` |
| GitHub and the gateway (external) | `GitHubIssues`, `Revoke`, `Rotate`, `GatewayAnswers` |

## 3. What TLC checks

A configuration keeps numbers small; every bound is a constant and a guard of
the action it bounds. Deadlock is not checked in the runs of `WatchManager`:
nobody has to call a tool, and once the bounds on watches and restarts are used
up and all is over, nothing need happen. The same goes for `comment_reader` (one
read), `writes` (its calls are used up) and `tokens` (time and tokens are used
up). `ReviewRequest` and `CycleStatus` never stop, since a status can always be
asked for, and deadlock is checked there.

| Run | Shows | Bounds |
|---|---|---|
| `watch_safety` | ends are for ever in memory and table, the table follows, what a status or list tells was so during the call, no active watch is left out | 1 handler, 2 tokens, 2 pull requests, 2 watches, 1 failed write or query, 1 restart, a list of 1 |
| `watch_callers` | one active watch, memory and table equal when no write fails, triggers settled, the refinement | 2 handlers, 2 watches, 1 trigger, 1 restart, no failed write |
| `watch_liveness` | consistent ends, every watch ends, workers return, ends are announced, no update is missed | 1 watch, 2 tokens, 1 trigger, 1 failed write, 1 restart, notifications |
| `review_sequential` | one pending request, completed by no older review, and before the caller hears of it | 1 handler, 2 rows, 1 request from elsewhere, 2 polls, 1 fault, 1 idle second |
| `review_liveness` | the pending row is the latest, is completed in the end, calls return | 1 handler, 2 rows, 2 polls, 1 fault, 2 idle seconds |
| `review_cycle` | the advice to merge was earned in the call; what is earned throughout is advised | 1 handler, 1 row, 1 request from elsewhere, 2 heads, 2 check runs, 1 thread, 1 cycle, no fault |
| `comment_reader` | answers are trusted, one moment, complete; texts come after the check; reads return | 3 pages, the second of them a continuation, 1 comment each, 2 attempts, 2 changes, 2 commits, 1 second |
| `writes` | types, no duplicate after a check, no silent write, no false success, no avoidable overwriting | any 2 calls, 1 source, 2 issues of others, 2 changes by others, 2 faults |
| `tokens` | a good token is kept and shared, a rejected or expired one given to nobody | 2 callers, 3 tokens, lives of up to 3, clock up to 5, either mode |
| `watch_start_blocked` | *violated:* see 3.2 | 2 watches, 1 failed write |
| `review_duplicate` | *violated* | 2 handlers, 2 rows |
| `review_stale_read` | *violated* | 2 handlers, 1 row, 2 requests from elsewhere, 1 idle second |

### 3.1 Why the bounds are enough

Watches of different keys share nothing but the mutex and the closed flag, so
one user and one pull request carry the interesting cases, and two watches the
case of a successor that meets the late steps of its predecessor. A second
restart meets the same table as the first. One failed write is what tells
memory and table apart; the proofs of section 4 hold for any number. `Threshold`
is 2 in `watch_callers` and `watch_liveness`: one upstream failure that is
survived and one that is not. Two tokens are
what a changed credential takes; two handlers what a race of callers takes. Two
rows of `trigger_log` let the latest differ from the pending one. Two polls let
a waiting call sleep once. An idle second is what makes a request fall into a
later second than the review before it, and two of them are what makes a row
dated by a review older than one dated by the clock. With a request from
elsewhere and two rows there are up to three reviews, so that a status may see
one that is neither the first nor the last.

`watch_safety` is `WatchManager` with its queries. It needs two pull requests, so
that an active watch can be older than one that is over, and a limit of one, so
that the two compete for the list. A restart brings rows that the memory does not
know. To keep it small, a watch ends with its first poll there: reviews are final
at once (`OpenReview` is empty) and `Threshold` is 1. Watches that poll on
are in `watch_callers`, and failing writes between their polls in `watch_liveness`.

The verdict `BLOCKED` differs from `COMPLETED` in no guard; `review_sequential`
uses one and `review_liveness` the other. The properties of `review_sequential`
hold for one handler at a time and `review_duplicate` and `review_stale_read`
show that two are too many: the first for `OnePending`, the second for
`CompletedIsAnswered`.

`CompletedIsAnswered` excepts a review that was submitted in the very second of
the request: times have no more resolution than that, and the code decides in
favour of the review (`client.go:354`).

`review_cycle`: one thread, two heads and two check runs let each of the four
readings be out of date when the decision is made, including a rerun and a push
right after the head was asked for. `FixType` has one value of each kind that the
decision tells apart.

`comment_reader`: a page before, on and after the continuation, and two changes:
one to disturb the first attempt and one for the second, or both between the two
fetches of one. Its proofs hold for any number of pages, attempts and changes.

`writes`: two calls cover any two tools, or one and its retry; two faults are a
lost response and a query of the retry that fails. Two changes by others are a
change and its undoing (`ToggleThread`, `EditDescription`), which no comparison
of contents could see. With two issues of others the search has more
than the one candidate that `createIssue` tolerates.

`tokens`: three tokens are the one rejected, the one that replaced it and one
more; a life is longer than the margin and the clock outlives it.

### 3.2 Where the program and its text differ

* `watch_start_blocked` (`manager.go:1079`): when the end of a watch cannot be
  written, the watch leaves `activeByKey` but its row stays active, and the
  unique index refuses the user's next watch until the process restarts.
  `docs/design/watch-redesign.md` says a new watch is made when there is no
  active one.
* `review_duplicate` (`request.go:52`): overlapping requests both pass the check
  and both record a row. Only the latest row is ever completed by a poll, so the
  other one stays pending and refuses every later request.
* `review_stale_read` (`client.go:351`): a status that read GitHub before a
  request, and its row after it, finds a review that differs from
  `prev_review_id` because it is *older*, and completes the new request with it.

Five more things are in the models as the code has them, without a run of their own:

* `manager.go:248`: `Close` makes watches `STALE` without a notification,
  although the callback is documented (`manager.go:95`) as called whenever a
  watch changes state. `EndIsAnnounced` and `NoMissedUpdate` except it.
* `manager.go:865`: a poll that was under way with the old token counts against
  the budget that `Start` calls fresh (`manager.go:316`).
* `manager.go:440`: a list of active watches only may show one that is over: when
  its end could not be written, the filter hides what the memory says and the row,
  which still says `WATCHING`, is listed. `ListedWasTrue` excepts exactly this.
* `manager.go:450`: a list may show two active watches of one user and pull
  request, the one found in memory, which then ends, and its successor, found in
  the table. Each was active during the call.
* `client.go:347`: a row with a `prev_review_id` makes `DeriveStatus` ignore the
  timeline, which its comment calls the primary source: a review asked for again
  on GitHub is answered with the previous one.

### 3.3 Fairness

`WatchManager!Fairness`: the Go scheduler runs every goroutine that can run, the
ticker goes on, and a GitHub call returns within `PollTimeout`, hence weak
fairness of the workers, of notifications and of handlers that have begun. A
watch that polls again and again is one day older than `MaxWatchDuration`, since
the clock goes on; the model has no clock there, and says so as strong fairness
of `PollExpire`. Nobody has to call a tool and GitHub never has to complete a
review.

`ReviewRequest!Fairness`: handlers go on, Copilot answers a request that is not
withdrawn, and somebody asks for the status again and again (a poller does).
`RequestIsSettled` needs all of it; `review_liveness` therefore runs without
withdrawals (`GivesUp = FALSE`), which would leave a row pending for ever: the
code completes a row for a review or a cancelled watch only. Faults are
transient: there are `MaxFaults` of them.

`CommentReader!FairSpec`: a read that has begun goes on, since a query answers
or fails within the client's timeout. Nothing is assumed of the discussion: it
may change before every page, and the bound on attempts alone ends the read.

## 4. What is proved

`TLAPS` checks the following of `WatchManager`, for all sets of users, pull
requests, tokens and handlers, every threshold and every bound, from the
assumptions on the constants that `WatchManager` names (`ThresholdAssumption`,
`BoundsAssumption`, `NotifiesAssumption`, `TokenAssumption`, `ReviewAssumption`).

| Theorem | States |
|---|---|
| `TypeCorrect` | `[]TypeOK` |
| `EndsAreConsistent` | `[]EndIsConsistent` |
| `OneActiveWatch`, `LookupIsRight` | `[]ActiveIsLive`, `[]LookupFindsActive` |
| `EndsAreForever`, `RowEndsAreForever` | `EndIsForever`, `RowEndIsForever` |
| `RowsFollow`, `UnwrittenEndsAreFailures` | `[]RowFollowsWatch`, `[]UnwrittenEndIsFailure` |
| `ManagerImplementsLifecycle` | `Spec => LifecycleSpec` |
| `TableMirrorsMemory` | `[]RowsMirrorMemory`, if `MaxFaults = 0` |
| `ReportsAreSettled` | `[]AnswerIsSettled` |
| `CancelledAreSettled` | `[]CancelSettlesTrigger`, if `MaxFaults = 0` |
| `UpdatesAreSeen` | `[]NoMissedUpdate` |

`MaxFaults = 0` is what the two properties are about: "when no write fails". With
a failed write they do not hold, since the memory goes on without the table.

The argument about the watches has three layers.

1. `WellFormed` is inductive: `TypeOK`, a finite `trigger_log` (its cardinality
   is the next key), `WorkersAreLoaded` (a worker or a notification is for a
   watch that is in memory; without it a late worker would read fields of a
   watch that is not there) and `EndIsConsistent` (without it the type of the
   client a poll captures does not follow: only a watch that is over has none).
   The main lemma, `StepHasEffect`, says that every step from a well-formed state
   does one of eight things to the watches and their rows: nothing, end one,
   poll one, reuse one, create one, fail to create one, close all, restart.
   It has one step for each action.
2. Each property follows by cases on the eight effects. `ActiveIsLive` is
   inductive with `WellFormed`, and so is `TableFollows`, which strengthens
   `RowFollowsWatch` and `UnwrittenEndIsFailure` to one statement on a watch and
   its row. For the refinement, `PastRowsAreOver` is added: rows of an earlier
   process are inactive. Then ending a watch is `End`, creating one is `Begin`,
   close and restart are `Interrupt`, and every other effect stutters.
   `ActiveIsLive` is what shows the guard of `Begin`: a user with a watch under
   way gets no second one. `RowsMirrorMemory` is inductive next to `ActiveIsLive`:
   the partial unique index refuses nothing, because an active row is that of a
   watch under way (`IndexAllowsLive`).
3. What concerns triggers needs more than the effect of a step, namely who did
   it. `StepActs` sums up each step as an act of one worker, of one handler, or
   of neither, with what it may do to a watch, to the log and to the position of
   the actor. `TriggersAreKnown` is what is added: a trigger that a worker, a
   watch or a handler holds is a key the database has given out, so that a new
   row never gets a key somebody already holds. With it the rows of the log only
   grow and are only completed (`Grows`), and what was settled stays settled.

`QueryProofs` proves of `WatchQuery`, from the same assumptions and
`LimitAssumption`, for any limit and any interleaving of a query with the watches:

| Theorem | States |
|---|---|
| `StatusesAreTrue` | `FoundIsNewest` |
| `ListsAreTrue` | `ListedWasTrue` |
| `NoneUnderWayIsMissed` | `UnderWayIsListed` |

Two invariants carry them. `Sound` is what holds of the watches whatever is asked:
the inductive invariants above, and `LatestIsLoaded`, so that a lookup that finds
nothing in memory means that there is nothing. `QuerySound` says what the first
reading of a query still means at the second: what it found was so then, and a watch
in memory that it did not find was created since, and so has been `WATCHING`
during the call (`EffectOnLoaded`: a step puts a watch into memory only by
creating it). The row of a watch says either what the memory says or what the
watch was when it was created (`TableWasTrue`), but if its end could not be
written. `ActiveComeFirst` is the argument for the limit: if an active
item is left out, all that are not are active, and there are as many as the
limit.

`ReviewProofs` proves of `ReviewRequest`, for any verdicts, rows, polls, seconds
and faults, from `CallerAssumption`, `PollsAssumption`, `VerdictAssumption`,
`GivesUpAssumption` and `ReviewBoundsAssumption`:

| Theorem | States |
|---|---|
| `ReviewTypeCorrect` | `[]TypeOK` |
| `AnswersAreSettled` | `[]AnswerIsSettled`, for any number of handlers |
| `OneRequestPending` | `[]OnePending`, for one handler |
| `CompletedRequestsAreAnswered` | `[]CompletedIsAnswered`, for one handler |
| `PendingRequestIsLatest` | `[]PendingIsLatest`, for one handler and `GivesUp = FALSE` |

`ReviewInv` holds for any number of handlers: the table has a key in store for
every request under way (`TableIsKeyed`), the reviews of GitHub follow one
another (`GitHubIsOrdered`), and what a call holds is there (`CallsAreSound`). For
one handler (`OneHandler == \A c, d \in Caller : c = d`) `HandlerInv` adds when
things were read: a row is not older than the request it records, and what a call
has read is not older than the call. The hypothesis is needed: `review_duplicate`
and `review_stale_read` are TLC's counterexamples with two handlers. `LatestInv`
is for `PendingIsLatest`: a row that is done lies in the past, which a cancelled
watch would break by completing a row dated ahead.

`ReaderProofs` proves of `CommentReader`, for any number
of pages, comments of a page, attempts and changes, from `AuthorsAssumption`,
`CommitsAssumption`, `PagesAssumption`, `AttemptsAssumption` and
`ReaderBoundsAssumption`:

| Theorem | States |
|---|---|
| `ReaderTypeCorrect` | `[]TypeOK`, which bounds the attempts |
| `TextsComeAfterTheCheck`, `AnswersAreTrusted` | `[]TextAfterCheck`, `[]ReturnedIsTrusted` |
| `AnswersExistedTogether` | `[]ReturnedTogether` |
| `AnswersAreComplete` | `[]NothingIsMissing` |

`TrustInv`, the conjunction of the first two rows, is inductive: the authors of
the first fetch were checked, and `SameComments` carries that to the second
fetch through the equality of fingerprints. The other two need history
(`HistoryInv`). A comment is edited, orphaned or deleted, but never comes back
(`Goes`). So what the first fetch showed precedes the comment as it was at the
check (`Precedes`, kept by `FirstFetch`), and what the second shows follows it
(`Follows`, kept by `SecondFetch`): where the two agree, the comment at the check
lies between two equal ends and is equal to them. `PagesAreComplete` says the
same of comments that are not shown; it needs that a page once read cannot get a
comment that was there before. `ClockIsAhead` is why an edit after the check has
a later second than any before it, or the very same.

`TokenProofs` proves of `TokenSources`, for any callers, tokens, margins and
lives, from `TokenAssumption`:

| Theorem | States |
|---|---|
| `TokenTypeCorrect` | `[]TypeOK` |
| `GoodTokensAreKept` | `[]GoodTokenIsKept` |
| `RejectedTokensStayDropped` | `RejectedIsNotReturned` |
| `ExpiredTokensAreNotReturned` | `ExpiredIsNotReturned` |

`GoodTokenIsKept` alone is not inductive: two callers who renew at once would
each replace the other's token. `MutexIsHeld` and `RenewalIsNeeded` say that only
one does, and only when no good token is left; `AnswersAreNew` that what it gets
is not the token another caller is about to report; `CachedIsKnown`,
`HistoryIsOrdered` and `HeldIsAccepted` tie the cache, the ghosts and the tokens
in use together; `ReusedIsDated` is what makes a reused token of the gateway one
with an expiry.

`WriteProofs` proves of `Writes`, for any calls, sources, texts and heads, any
number of changes by others and any failures, from `CallersAssumption`,
`OthersAssumption` and `WriteBoundsAssumption`:

| Theorem | States |
|---|---|
| `WritesTypeCorrect` | `[]TypeOK` |
| `NoDuplicateWasSeen` | `[]NoDuplicateSeen` |
| `SilentErrorsWroteNothing` | `[]SilentErrorWroteNothing` |
| `SuccessWasWritten` | `[]SuccessIsWritten` |
| `OverwritesNeedARace` | `[]OverwriteNeedsRace` |
| `ResolvedWereAnswered` | `[]ResolvedWasAnswered` |

They follow from one invariant, `WriteInv`, which speaks of each call by itself
(`Sound`): at which places it has written and that it has done so once, what it
will answer if it ends there, and what its last readings still mean. The replies
it has looked through do not answer its source, and never will, since nobody
changes the source of a reply; the issues it has found are of others, and stay
so. A step of one call keeps all this of the others because it leaves what they
know alone (`Beside`): replies and issues are only added, and only in its own
name. `RowsSound` carries what an author knew over to what it wrote. For the
types it is counted that no call writes twice, so that there are no more replies
than calls (`Counted`), and that numbers a call has read are in those bounds
(`CallsBounded`).

Only model-checked are: everything about `CycleStatus`; and the
liveness properties, which are out of the prover's reach. The type invariants of `WatchManager`,
`CommentReader` and `TokenSources` and `LookupFindsActive` are proved and therefore
not checked again by a run; the
variables of `CycleStatus` that `ReviewRequest` does not have are given theirs by
its initial state and the updates of fields, without an invariant of their own.

## 5. What is left out

* Text, timestamps that are only reported, and next-poll times of a watch.
* `Manager` without a database (`db == nil`), which only tests use.
* A panic while `mu` is held. Nothing called under the lock panics in the
  modelled code, and the model's panics happen outside it.
* Contexts are cancelled with the watch; between the unlock of a cancellation
  and the cancelled call no step of the model could tell the difference.
* Notifications on their way for the same watch are one: each makes the
  subscriber read the present state.
* Pages of a GitHub answer, but for the discussion in `CommentReader`: a call
  reads one moment, the check runs and the threads of a cycle status included. A
  timeline that breaks off counts as one that was not read.
* In `CycleStatus`, for how long Copilot has been silent: either answer is
  possible. A failing query ends the call with no advice (`Fails`), so
  `review_cycle` runs without faults.
* Text: footers, markers and hashes are the facts they stand for; a text that is
  too long, or an argument of the wrong form, is refused before anything is read.
* Parsing: allowlist files are sets of logins or unreadable; headers, JSON and
  errors are classified by pure functions.
* Schema migrations, which run before anything else does.
* The legacy handshake, diagnostics, output schemas, and the test double of the
  reader: they keep no state that could disagree with another.
* In `ReviewRequest` Copilot takes at least a second for a review, and GitHub,
  the database and the server have one clock.

## 6. Plan

Done: `TriggerLog`, `WatchManager` with its queries, properties, abstraction and
proofs; `ReviewStatus`, `ReviewRequest` with its properties and proofs, and
`CycleStatus` with its properties; `CommentReader`, `TokenSources` and `Writes`
with their properties and proofs.

To come: `ReadyWasEarned`, for any number of heads, check runs and threads, from
the invariants of `ReviewRequest` with the calls of the cycle among them.
