------------------------------ MODULE TriggerLog ------------------------------
(***************************************************************************)
(* The trigger_log table of internal/store/db.go as a value: a set of rows *)
(* and the queries and updates the rest of the program makes of it. Every  *)
(* operator is one SQL statement, which SQLite runs atomically.            *)
(*                                                                         *)
(* requested_at has a resolution of one second and is chosen by the caller *)
(* (InsertWithPrevReviewID) or by the database's clock (Insert), so rows   *)
(* need not be inserted in the order of their request times.               *)
(***************************************************************************)
EXTENDS Naturals, FiniteSets

\* The nil *int64 of a watch, or of a query that found no row.
NoId == 0

\* A row: its primary key, the pull request, requested_at, whether
\* completed_at is set.
TriggerRow(prs, times) == [id : Nat \ {NoId}, pr : prs, at : times, done : BOOLEAN]

RowsOf(log, pr) == {e \in log : e.pr = pr}

\* ORDER BY requested_at DESC, id DESC
NotOlder(e, f) == e.at > f.at \/ (e.at = f.at /\ e.id >= f.id)

\* LIMIT 1: the set that holds the id of the most recent row, or NoId when the
\* pull request has none.
LatestIds(log, pr) ==
  IF RowsOf(log, pr) = {}
  THEN {NoId}
  ELSE {e.id : e \in {e \in RowsOf(log, pr) :
                        \A f \in RowsOf(log, pr) : NotOlder(e, f)}}

\* The row with this id is there and its completed_at is NULL.
IsPending(log, id) == \E e \in log : e.id = id /\ ~e.done

HasPending(log, pr) == \E e \in RowsOf(log, pr) : ~e.done

\* UPDATE ... WHERE id = ? AND completed_at IS NULL
UpdateCompletedAt(log, id) ==
  {IF e.id = id THEN [e EXCEPT !.done = TRUE] ELSE e : e \in log}

\* INTEGER PRIMARY KEY: one more than the largest key; no row is ever deleted.
Insert(log, pr, at) ==
  log \cup {[id |-> Cardinality(log) + 1, pr |-> pr, at |-> at, done |-> FALSE]}
=============================================================================
