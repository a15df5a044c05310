--------------------------- MODULE WatchProperties ---------------------------
(***************************************************************************)
(* What is claimed of WatchManager.                                        *)
(***************************************************************************)
EXTENDS WatchManager

Call ==
  {Idle}
  \cup [op : {"start"}, key : Key, token : Token, trigger : Nat]
  \cup [op : {"cancel"}, trigger : Nat]
  \cup [op : {"request"}, pr : PR]

Worker ==
  [pc : {"none", "poll", "wait", "done"}]
  \cup [pc : {"fetch"}, token : Token]
  \cup [pc : {"settle", "apply"}, review : ReviewStatus, low : BOOLEAN, trigger : Nat]

Seen == [status : Status, review : ReviewStatus \cup {NoReview}]

\* Every variable has its type.
TypeOK ==
  /\ watch \in [WatchId -> Watch \cup {NoWatch}]
  /\ active \in [Key -> WatchId \cup {NoId}]
  /\ latest \in [Key -> WatchId \cup {NoId}]
  /\ closed \in BOOLEAN
  /\ worker \in [WatchId -> Worker]
  /\ call \in [Caller -> Call]
  /\ notify \subseteq WatchId
  /\ seen \in [WatchId -> Seen \cup {NoWatch}]
  /\ row \in [WatchId -> Row \cup {NoRow}]
  /\ triggerLog \subseteq TriggerRow(PR, RequestTime)
  /\ faults \in Nat
  /\ restarts \in Nat

-----------------------------------------------------------------------------
(* One watch at a time.                                                    *)

\* The watches that are not over are exactly those of activeByKey, each under
\* its own key: a user has at most one watch under way for a pull request, it
\* is never lost from the map by the late end of an earlier one, and the map
\* never holds one that is over (delete in finishLocked and degrade).
ActiveIsLive ==
  /\ \A k \in Key : active[k] # NoId => Live(active[k]) /\ watch[active[k]].key = k
  /\ \A w \in WatchId : Live(w) => active[watch[w].key] = w

\* The lookup by user and pull request (GetLatest reads latestByKey) finds the
\* watch under way if there is one.
LookupFindsActive == \A k \in Key : active[k] # NoId => latest[k] = active[k]

-----------------------------------------------------------------------------
(* Ends.                                                                   *)

\* On every path to an end (poll, cancel, shutdown, failed write) status,
\* terminal flag, failure reason and credentials change together.
EndIsConsistent ==
  \A w \in WatchId : Loaded(w) =>
    /\ watch[w].terminal <=> watch[w].status \in FinalStatus
    /\ watch[w].terminal <=> watch[w].token = NoToken
    /\ watch[w].status = "FAILED" <=> watch[w].reason # "NONE"

\* Nothing a late worker, handler or shutdown does changes a watch that is over.
EndIsForever ==
  [][\A w \in WatchId :
       Loaded(w) /\ watch[w].terminal /\ restarts' = restarts
       => watch'[w] = watch[w]]_vars

\* The same of the table, over restarts too: an inactive row never changes.
RowEndIsForever ==
  [][\A w \in WatchId :
       row[w] # NoRow /\ ~row[w].active => row'[w] = row[w]]_vars

-----------------------------------------------------------------------------
(* Memory and table.                                                       *)

\* A watch in memory always has a row; the row is active while the watch is
\* under way, and an inactive row tells all the watch does.
RowFollowsWatch ==
  \A w \in WatchId : Loaded(w) =>
    /\ row[w] # NoRow
    /\ row[w].key = watch[w].key
    /\ Live(w) => row[w].active
    /\ row[w].active => row[w].status = "WATCHING"
    /\ ~row[w].active => row[w] = RowOf(watch[w])

\* An end that could not be written is never reported as the success or the
\* cancellation it was to be, only as a failure or as STALE.
UnwrittenEndIsFailure ==
  \A w \in WatchId : Loaded(w) /\ ~Live(w) /\ row[w].active =>
    \/ watch[w].status = "FAILED" /\ watch[w].reason = "INTERNAL_ERROR"
    \/ watch[w].status = "STALE"

\* When no write fails, the table and the memory of a running server are the
\* same at every step, and the rows of earlier processes are all inactive.
RowsMirrorMemory ==
  \A w \in WatchId :
    IF Loaded(w) THEN row[w] = RowOf(watch[w])
                 ELSE row[w] # NoRow => ~row[w].active

-----------------------------------------------------------------------------
(* Triggers.                                                               *)

\* A poll that is about to report a finished review has completed the trigger
\* it answers first, so that no crash can leave the watch's end recorded and
\* the request pending.
AnswerIsSettled ==
  \A w \in WatchId :
    worker[w].pc = "apply" /\ ~worker[w].low /\ worker[w].review \in FinalReview
    => ~IsPending(triggerLog, worker[w].trigger)

\* When no write fails and the process keeps running, a cancelled watch leaves
\* its trigger pending only while the handler that cancelled it is still at it.
CancelSettlesTrigger ==
  \A w \in WatchId :
    Loaded(w) /\ watch[w].status = "CANCELLED" /\ IsPending(triggerLog, watch[w].trigger)
    => \E c \in Caller : call[c] = [op |-> "cancel", trigger |-> watch[w].trigger]

-----------------------------------------------------------------------------
(* Notifications.                                                          *)

\* However notifications are delayed or overtake each other, a subscriber that
\* reads the watch back on each one has seen its current state, unless one is
\* still on its way.  Close sends none.
NoMissedUpdate ==
  Notifies /\ ~closed => \A w \in WatchId : Loaded(w) /\ w \notin notify => seen[w] = View(watch[w])

-----------------------------------------------------------------------------
(* Liveness.                                                               *)

\* Whatever GitHub answers, or does not, and on whatever path its goroutine
\* returns, a panic included, every watch comes to an end.
EveryWatchEnds == \A w \in WatchId : Live(w) ~> ~Live(w)

\* The goroutine of a watch that is over returns.
WorkersReturn == \A w \in WatchId : Loaded(w) /\ ~Live(w) ~> worker[w].pc \in {"none", "done"}

\* A subscriber learns of the end of a watch, unless the server goes down first.
EndIsAnnounced ==
  \A w \in WatchId :
    Live(w) ~> \/ Loaded(w) /\ seen[w].status \in FinalStatus
               \/ closed
               \/ ~Loaded(w)

-----------------------------------------------------------------------------
(* The abstract lifecycle: what GetByID reports, from memory if the watch  *)
(* is there and from its row otherwise.                                    *)

Reported(w) ==
  IF Loaded(w) THEN watch[w].status ELSE row[w].status
OwnerOf(w) ==
  IF Loaded(w) THEN {watch[w].key} ELSE IF row[w] # NoRow THEN {row[w].key} ELSE {}

Lifecycle == INSTANCE WatchLifecycle WITH
  Id <- WatchId,
  None <- "NONE",
  status <- [w \in WatchId |-> Reported(w)],
  owner <- [w \in WatchId |-> OwnerOf(w)]

\* The manager implements the lifecycle.
LifecycleSpec == Lifecycle!Spec

-----------------------------------------------------------------------------
(* What the documentation says and the program does not do.                *)

\* "When there is no active watch: create a new watch" (watch-redesign 5.5):
\* nothing but a failing write keeps Start from creating one.
StartIsPossible ==
  \A k \in Key : ~closed /\ ~ActiveWatch(k) =>
    \A w \in WatchId : row[w] # NoRow => ~(row[w].active /\ row[w].key = k)
=============================================================================
