--------------------------- MODULE TriggerLogProofs ---------------------------
(***************************************************************************)
(* What the operations on trigger_log preserve and return, for every table *)
(* and every set of pull requests and request times.                       *)
(***************************************************************************)
EXTENDS TriggerLog, FiniteSetTheorems, TLAPS

\* A table: finitely many rows, each of the right type.
IsLog(log, prs, times) == log \subseteq TriggerRow(prs, times) /\ IsFiniteSet(log)

\* A table whose keys were given out by Insert.
IsKeyed(log, prs, times) ==
  /\ IsLog(log, prs, times)
  /\ \A e \in log : e.id <= Cardinality(log)
  /\ \A e, f \in log : e.id = f.id => e = f

\* Every key LatestIds returns is a key of the table, or NoId.
LEMMA LatestIdsType ==
  ASSUME NEW log, NEW prs, NEW times, IsLog(log, prs, times), NEW pr,
         NEW t \in LatestIds(log, pr)
  PROVE  t \in Nat
  BY DEF LatestIds, RowsOf, IsLog, TriggerRow, NoId

\* The database gives a new row a key that is not NoId, and the table stays
\* a table.
LEMMA InsertType ==
  ASSUME NEW log, NEW prs, NEW times, IsLog(log, prs, times),
         NEW pr \in prs, NEW at \in times
  PROVE  IsLog(Insert(log, pr, at), prs, times)
<1> DEFINE e == [id |-> Cardinality(log) + 1, pr |-> pr, at |-> at, done |-> FALSE]
<1>1. Cardinality(log) \in Nat
  BY FS_CardinalityType DEF IsLog
<1>2. e \in TriggerRow(prs, times)
  BY <1>1 DEF TriggerRow, NoId
<1>3. IsFiniteSet(log \cup {e})
  BY FS_AddElement DEF IsLog
<1> QED
  BY <1>2, <1>3 DEF IsLog, Insert

\* Completing a row, whether it is there or not, leaves a table.
LEMMA UpdateCompletedAtType ==
  ASSUME NEW log, NEW prs, NEW times, IsLog(log, prs, times), NEW id
  PROVE  IsLog(UpdateCompletedAt(log, id), prs, times)
<1> DEFINE up(e) == IF e.id = id THEN [e EXCEPT !.done = TRUE] ELSE e
           f == [e \in log |-> up(e)]
           after == {up(e) : e \in log}
<1>1. \A e \in log : up(e) \in TriggerRow(prs, times)
  BY DEF IsLog, TriggerRow
<1>2. f \in Surjection(log, after)
  BY DEF Surjection
<1>3. IsFiniteSet(after)
  BY <1>2, FS_Surjection DEF IsLog
<1> QED
  BY <1>1, <1>3 DEF IsLog, UpdateCompletedAt

-----------------------------------------------------------------------------
(* Keys.                                                                   *)

\* An inserted row gets a key of its own, the largest.
LEMMA InsertKeyed ==
  ASSUME NEW log, NEW prs, NEW times, IsKeyed(log, prs, times),
         NEW pr \in prs, NEW at \in times
  PROVE  /\ IsKeyed(Insert(log, pr, at), prs, times)
         /\ Cardinality(log) \in Nat
         /\ Cardinality(Insert(log, pr, at)) = Cardinality(log) + 1
<1> DEFINE new == [id |-> Cardinality(log) + 1, pr |-> pr, at |-> at, done |-> FALSE]
<1>1. IsLog(log, prs, times) /\ IsLog(Insert(log, pr, at), prs, times)
  BY InsertType DEF IsKeyed
<1>2. Cardinality(log) \in Nat
  BY <1>1, FS_CardinalityType DEF IsLog
<1>3. \A e \in log : e.id # new.id
  BY <1>1, <1>2 DEF IsKeyed, IsLog, TriggerRow
<1>4. Cardinality(log \cup {new}) = Cardinality(log) + 1
  BY <1>1, <1>3, FS_AddElement DEF IsLog
<1>5. Insert(log, pr, at) = log \cup {new}
  BY DEF Insert
<1>6. \A e \in log \cup {new} : e.id <= Cardinality(log) + 1
  BY <1>1, <1>2 DEF IsKeyed, IsLog, TriggerRow
<1> HIDE DEF new
<1>7. \A e, f \in log \cup {new} : e.id = f.id => e = f
  BY <1>3 DEF IsKeyed
<1> QED BY <1>1, <1>2, <1>4, <1>5, <1>6, <1>7 DEF IsKeyed

\* What UpdateCompletedAt does to a table, row by row.
LEMMA UpdateRows ==
  ASSUME NEW log, NEW prs, NEW times, IsLog(log, prs, times), NEW id
  PROVE  /\ \A e \in log : e.id # id => e \in UpdateCompletedAt(log, id)
         /\ \A f \in UpdateCompletedAt(log, id) :
              \E e \in log :
                /\ f.id = e.id /\ f.pr = e.pr /\ f.at = e.at
                /\ f.done <=> e.done \/ e.id = id
         /\ \A e \in log :
              \E f \in UpdateCompletedAt(log, id) :
                 f.id = e.id /\ f.pr = e.pr /\ f.at = e.at
<1> DEFINE up(e) == IF e.id = id THEN [e EXCEPT !.done = TRUE] ELSE e
<1>1. UpdateCompletedAt(log, id) = {up(e) : e \in log}
  BY DEF UpdateCompletedAt
<1>2. ASSUME NEW e \in log
      PROVE  /\ e.id # id => up(e) = e
             /\ up(e).id = e.id /\ up(e).pr = e.pr /\ up(e).at = e.at
             /\ up(e).done <=> e.done \/ e.id = id
  <2>1. e \in TriggerRow(prs, times)
    BY DEF IsLog
  <2>2. CASE e.id = id
    BY <2>1, <2>2 DEF TriggerRow
  <2> QED BY <2>2
<1> HIDE DEF up
<1> QED BY <1>1, <1>2

\* It keeps the keys, completes the row it is asked to, and no row is pending
\* again.
LEMMA UpdateKeyed ==
  ASSUME NEW log, NEW prs, NEW times, IsKeyed(log, prs, times), NEW id
  PROVE  /\ IsKeyed(UpdateCompletedAt(log, id), prs, times)
         /\ Cardinality(UpdateCompletedAt(log, id)) = Cardinality(log)
<1> DEFINE up(e) == IF e.id = id THEN [e EXCEPT !.done = TRUE] ELSE e
           after == UpdateCompletedAt(log, id)
           f == [e \in log |-> up(e)]
<1>1. IsLog(log, prs, times) /\ IsLog(after, prs, times)
  BY UpdateCompletedAtType DEF IsKeyed
<1>2. after = {up(e) : e \in log}
  BY DEF UpdateCompletedAt
<1>3. \A e \in log : up(e).id = e.id
  BY <1>1 DEF IsLog, TriggerRow
<1> HIDE DEF up, after
<1>4. f \in Surjection(log, after) /\ f \in Injection(log, after)
  <2>1. f \in Surjection(log, after)
    BY <1>2 DEF Surjection
  <2>2. f \in Injection(log, after)
    BY <1>2, <1>3 DEF Injection, IsInjective, IsKeyed
  <2> QED BY <2>1, <2>2
<1> HIDE DEF f
<1>5. Cardinality(after) = Cardinality(log)
  BY <1>1, <1>4, FS_Surjection DEF IsLog
<1>6. \A e \in after : e.id <= Cardinality(after)
  BY <1>2, <1>3, <1>5 DEF IsKeyed
<1>7. \A e, g \in after : e.id = g.id => e = g
  BY <1>2, <1>3 DEF IsKeyed
<1> QED BY <1>1, <1>5, <1>6, <1>7 DEF IsKeyed, after

LEMMA UpdatePending ==
  ASSUME NEW log, NEW prs, NEW times, IsLog(log, prs, times), NEW id
  PROVE  /\ ~IsPending(UpdateCompletedAt(log, id), id)
         /\ \A t : IsPending(UpdateCompletedAt(log, id), t) => IsPending(log, t)
  BY UpdateRows DEF IsPending

\* A new row leaves those with smaller keys as they are.
LEMMA InsertPending ==
  ASSUME NEW log, NEW prs, NEW times, IsKeyed(log, prs, times), NEW pr, NEW at,
         NEW t \in Nat, t <= Cardinality(log), IsPending(Insert(log, pr, at), t)
  PROVE  IsPending(log, t)
<1>1. Cardinality(log) \in Nat
  BY FS_CardinalityType DEF IsKeyed, IsLog
<1> QED BY <1>1 DEF IsPending, Insert

\* The latest row is a row of the pull request that no other is newer than.
LEMMA LatestIdsRow ==
  ASSUME NEW log, NEW pr, NEW t \in LatestIds(log, pr), t # NoId
  PROVE  \E e \in RowsOf(log, pr) : e.id = t /\ \A f \in RowsOf(log, pr) : NotOlder(e, f)
  BY DEF LatestIds

\* A pull request with rows has a latest one: the rows newer than a given one
\* are fewer for each of them.
LEMMA LatestExists ==
  ASSUME NEW log, NEW prs, NEW times, times \subseteq Nat, IsLog(log, prs, times), NEW pr
  PROVE  LatestIds(log, pr) # {}
<1> DEFINE rows == RowsOf(log, pr)
           Newer(e) == {f \in rows : ~NotOlder(e, f)}
           T == {Newer(e) : e \in rows}
<1>1. CASE rows = {}
  BY <1>1 DEF LatestIds
<1>2. CASE rows # {}
  <2>1. \A e \in rows : e.at \in Nat /\ e.id \in Nat
    BY DEF RowsOf, IsLog, TriggerRow
  <2>2. IsWellFoundedOn(StrictSubsetOrdering(rows), SUBSET rows)
    <3>1. IsFiniteSet(rows)
      BY FS_Subset DEF RowsOf, IsLog
    <3> HIDE DEF rows
    <3> QED BY <3>1, FS_FiniteSubsetsOfFinite, FS_StrictSubsetOrderingWellFounded
  <2>3. T \subseteq SUBSET rows /\ T # {}
    BY <1>2
  <2>4. PICK x \in T : \A y \in T : <<y, x>> \notin StrictSubsetOrdering(rows)
    <3> HIDE DEF T, rows
    <3> QED BY <2>2, <2>3, WFMin
  <2>5. PICK e \in rows : x = Newer(e)
    OBVIOUS
  <2>6. ASSUME NEW f \in Newer(e) PROVE FALSE
    <3>1. Newer(f) \subseteq Newer(e) /\ f \notin Newer(f)
      BY <2>1 DEF NotOlder
    <3>2. <<Newer(f), x>> \in StrictSubsetOrdering(rows)
      BY <2>5, <2>6, <3>1 DEF StrictSubsetOrdering
    <3> QED BY <2>4, <3>2
  <2>7. \A f \in rows : NotOlder(e, f)
    BY <2>6
  <2> QED BY <1>2, <2>7 DEF LatestIds
<1> QED BY <1>1, <1>2
=============================================================================
