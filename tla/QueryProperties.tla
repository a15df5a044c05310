----------------------------- MODULE QueryProperties ---------------------------
(***************************************************************************)
(* What is claimed of the answers of WatchQuery.  A query reads memory and *)
(* table at two moments, so what it tells is held against all the moments  *)
(* of the query.                                                           *)
(***************************************************************************)
EXTENDS WatchQuery, WatchProperties

Moments(w) == during[w] \cup {Now(w)}
Throughout(w) == \A m \in Moments(w) : m.active
Was(x) == [status |-> x.status, active |-> x.active] \in Moments(x.id)
Answers(op) == query.op = op /\ told'.op = op

KeyOf(w) == IF Loaded(w) THEN watch[w].key ELSE row[w].key

\* Its end could not be written: the row still says that it is under way.
Unwritten(w) == Loaded(w) /\ ~Live(w) /\ row[w].active

\* List prefers the memory ("if _, exists := byID[...]; exists"): whatever ends
\* or starts between its two readings, all it lists was so at some moment of
\* the call; but of active watches only, the filter hides what the memory says
\* of a watch whose end could not be written, and its row is listed.
ListedWasTrue ==
  [][Answers("list") =>
       \A x \in told'.items : Was(x) \/ (query.activeOnly /\ Unwritten(x.id))]_queryVars

\* "if you lose track of watch_id, recover it with list_copilot_review_watches":
\* a watch that is under way all through the call is listed, unless the limit
\* is used up by other active ones; older watches never push it out.
UnderWayIsListed ==
  [][Answers("list") =>
       \A w \in WatchId :
         Throughout(w) /\ watch[w].key[1] = query.login =>
           \/ \E x \in told'.items : x.id = w
           \/ Cardinality({x \in told'.items : x.active}) = Limit]_queryVars

\* A status that had to come from the table, after a restart, is true; the
\* newest watch of a user and pull request is told, and a watch that was there
\* all through the call is found.
FoundIsNewest ==
  [][/\ Answers("latest") =>
          \A w \in WatchId :
            Absent \notin Moments(w) /\ KeyOf(w) = query.key => \E x \in told'.items : x.id >= w
     /\ Answers("get") =>
          (Absent \notin Moments(query.id) /\ KeyOf(query.id)[1] = query.login => told'.items # {})
     /\ query.op \in {"get", "latest"} /\ told' # NoAnswer =>
          \A x \in told'.items : Was(x)]_queryVars
=============================================================================
