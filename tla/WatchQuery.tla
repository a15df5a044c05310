------------------------------- MODULE WatchQuery ------------------------------
(***************************************************************************)
(* GetByID, GetLatest and List of internal/watch/manager.go, for           *)
(* get_copilot_review_watch_status and list_copilot_review_watches, over   *)
(* the queries of internal/store/db.go.  Each reads the memory under the   *)
(* lock and then, unless it has its answer, the table without it: the      *)
(* watches of WatchManager go on in between.                               *)
(*                                                                         *)
(* One query at a time: queries change nothing, so that no two of them     *)
(* could meet.  updated_at and started_at grow with the watches of a user  *)
(* and pull request, which never overlap; between others the order is      *)
(* left open.                                                              *)
(***************************************************************************)
EXTENDS WatchManager

CONSTANT Limit  \* the limit of a list

ASSUME LimitAssumption == Limit \in Nat \ {0}

VARIABLES
  query,  \* the query that is between its two readings
  told,   \* the answer a query has just given
  during  \* what each watch was in the course of the query (ghost)

queryVars == <<vars, query, told, during>>

NoQuery == [op |-> "none"]
NoAnswer == [op |-> "none"]

\* A watch as it is reported, from memory or from its row.
InMemory(w) == [id |-> w, key |-> watch[w].key,
                status |-> watch[w].status, active |-> ~watch[w].terminal]
InTable(w) == [id |-> w, key |-> row[w].key,
               status |-> row[w].status, active |-> row[w].active]

\* The ghost: what there is to report of a watch at one moment.
Absent == [status |-> "NONE", active |-> FALSE]
Now(w) == IF Loaded(w) THEN [status |-> watch[w].status, active |-> Live(w)]
          ELSE IF row[w] # NoRow THEN [status |-> row[w].status, active |-> row[w].active]
          ELSE Absent

Observe ==
  during' = [w \in WatchId |-> IF query' = NoQuery THEN {} ELSE during[w] \cup {Now(w)'}]

Asks(q) == query' = q /\ told' = NoAnswer
Tells(op, items) == query' = NoQuery /\ told' = [op |-> op, items |-> items]

-----------------------------------------------------------------------------
(* get_copilot_review_watch_status                                         *)

\* A watch of another login is not shown.
Own(login, items) == {x \in items : x.key[1] = login}

GetByID(login, w) ==
  /\ query = NoQuery
  /\ IF Loaded(w)
     THEN Tells("get", Own(login, {InMemory(w)}))
     ELSE Asks([op |-> "get", login |-> login, id |-> w])

GetByIDFromTable ==
  /\ query.op = "get"
  /\ Tells("get", IF row[query.id] = NoRow THEN {} ELSE Own(query.login, {InTable(query.id)}))

GetLatest(k) ==
  /\ query = NoQuery
  /\ IF latest[k] # NoId /\ Loaded(latest[k])
     THEN Tells("latest", {InMemory(latest[k])})
     ELSE Asks([op |-> "latest", key |-> k])

RowsOfKey(k) == {w \in WatchId : row[w] # NoRow /\ row[w].key = k}

\* Variant: the order is not turned round.
LatestRow_VOldest(k) == {w \in RowsOfKey(k) : \A v \in RowsOfKey(k) : w <= v}

\* GetLatestReviewWatch
LatestRow(k) == {w \in RowsOfKey(k) : \A v \in RowsOfKey(k) : v <= w}

GetLatestFromTable ==
  /\ query.op = "latest"
  /\ Tells("latest", {InTable(w) : w \in LatestRow(query.key)})

-----------------------------------------------------------------------------
(* list_copilot_review_watches                                             *)

\* Variant: what changed last comes first, active or not.
Before_VByAge(x, y) == x.key = y.key /\ x.id > y.id

\* Active watches come first, then those that changed last.
Before(x, y) ==
  \/ x.active /\ ~y.active
  \/ x.active = y.active /\ x.key = y.key /\ x.id > y.id

\* The first Limit of a set of watches.
Firsts(items) ==
  {top \in SUBSET items :
     /\ Cardinality(top) = IF Cardinality(items) < Limit THEN Cardinality(items) ELSE Limit
     /\ \A x \in top, y \in items \ top : ~Before(y, x)}

Wanted(items, login, activeOnly) == {x \in Own(login, items) : activeOnly => x.active}

List(login, activeOnly) ==
  /\ query = NoQuery
  /\ Asks([op |-> "list", login |-> login, activeOnly |-> activeOnly,
           items |-> Wanted({InMemory(w) : w \in {v \in WatchId : Loaded(v)}}, login, activeOnly)])

\* Variant: a row takes the place of what the memory said.
Merged_VRowsWin(items, rows) == rows \cup {x \in items : \A y \in rows : y.id # x.id}

\* A row counts if the memory had nothing of its watch to show.
Merged(items, rows) == items \cup {y \in rows : \A x \in items : x.id # y.id}

\* ListReviewWatches, and the answer.
ListFromTable ==
  /\ query.op = "list"
  /\ \E page \in Firsts(Wanted({InTable(w) : w \in {v \in WatchId : row[v] # NoRow}},
                               query.login, query.activeOnly)) :
       \E top \in Firsts(Merged(query.items, page)) : Tells("list", top)

-----------------------------------------------------------------------------
\* The table cannot be read: a list is an error, a status is not found.
QueryFails ==
  /\ query # NoQuery
  /\ Fault
  /\ Tells("failed", {})
  /\ UNCHANGED <<memory, goroutines, events, disk, restarts>>

\* The caller has its answer.  Nothing else happens at that instant, which
\* changes no other state.
Heard == told # NoAnswer /\ told' = NoAnswer /\ UNCHANGED query

Query ==
  /\ told = NoAnswer
  /\ \/ \E login \in Login, w \in WatchId : GetByID(login, w)
     \/ GetByIDFromTable
     \/ \E k \in Key : GetLatest(k)
     \/ GetLatestFromTable
     \/ \E login \in Login, activeOnly \in BOOLEAN : List(login, activeOnly)
     \/ ListFromTable

\* A restart takes the query with it.
ManagerStep ==
  /\ told = NoAnswer
  /\ Next
  /\ query' = IF restarts' = restarts THEN query ELSE NoQuery
  /\ told' = NoAnswer

QueryInit ==
  /\ Init
  /\ query = NoQuery /\ told = NoAnswer /\ during = [w \in WatchId |-> {}]

QueryNext ==
  /\ \/ (Query \/ Heard) /\ UNCHANGED vars
     \/ QueryFails
     \/ ManagerStep
  /\ Observe

QuerySpec == QueryInit /\ [][QueryNext]_queryVars
=============================================================================
