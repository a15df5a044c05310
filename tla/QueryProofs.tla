------------------------------ MODULE QueryProofs ------------------------------
(***************************************************************************)
(* The answers of the queries, for every interleaving with the watches:    *)
(* the properties of QueryProperties.                                      *)
(*                                                                         *)
(* Between its two readings a query has what it read (QuerySound): a watch *)
(* the memory did not have at the first reading, but has now, was created  *)
(* meanwhile, and so was seen under way.  With what is known of rows and   *)
(* watches at each moment (Sound), each answer from the table follows.     *)
(***************************************************************************)
EXTENDS QueryProperties, WatchProofs

-----------------------------------------------------------------------------
(* The watches, whatever is asked of them.                                 *)

\* GetLatest misses no watch that is in memory.
LatestIsLoaded ==
  \A w \in WatchId : Loaded(w) =>
    latest[watch[w].key] # NoId /\ Loaded(latest[watch[w].key])

Sound == Good /\ LatestIsLoaded

\* A watch in memory keeps its key, and a watch that was not there before was
\* created by this step, and is under way.
LEMMA EffectOnLoaded ==
  ASSUME Good, Effect, ~Restart, NEW w \in WatchId
  PROVE  /\ Loaded(w) => Loaded(w)' /\ watch'[w].key = watch[w].key
         /\ ~Loaded(w) /\ Loaded(w)' =>
              Creates /\ watch'[w].status = "WATCHING" /\ Live(w)'
<1> USE DEF Good, WellFormed, TypeOK
<1>1. Loaded(w) => Loaded(w)'
  BY EffectKeepsLoaded
<1>2. CASE Quiet \/ Fails
  BY <1>1, <1>2 DEF Quiet, Fails, Loaded
<1>3. CASE \E v \in WatchId : \E y \in Watch : Falls(v, y) \/ GoesOn(v, y)
  BY <1>1, <1>3 DEF Falls, GoesOn, Continues, Live, Loaded
<1>4. CASE Creates
  BY <1>1, <1>4 DEF Creates, Live, Loaded
<1>5. CASE Close
  BY <1>1, <1>5, CloseEnds DEF Live, Loaded
<1> QED
  BY <1>2, <1>3, <1>4, <1>5, OneWatchChanges DEF Effect

LEMMA StepKeepsLatest ==
  ASSUME Good, LatestIsLoaded, Effect
  PROVE  LatestIsLoaded'
<1> USE DEF Good, WellFormed, TypeOK
<1>1. CASE Restart
  BY <1>1 DEF Restart, LatestIsLoaded, Loaded
<1>2. CASE ~Restart /\ ~Creates /\ UNCHANGED latest
  <2>1. ASSUME NEW w \in WatchId, Loaded(w)'
        PROVE  Loaded(w) /\ watch'[w].key = watch[w].key
    BY <1>2, <2>1, EffectOnLoaded
  <2>2. ASSUME NEW w \in WatchId, Loaded(w)
        PROVE  latest[watch[w].key] \in WatchId \cup {NoId}
    BY <2>2, LoadedType DEF Watch
  <2> QED
    BY <1>2, <2>1, <2>2, EffectOnLoaded DEF LatestIsLoaded
<1>3. CASE ~Restart /\ Creates
  <2>1. PICK v \in WatchId, k \in Key, x \in Watch :
          x.key = k /\ watch' = [watch EXCEPT ![v] = x] /\ Register(k, v)
    BY <1>3 DEF Creates
  <2>2. Loaded(v)' /\ v # NoId
    BY <2>1, WatchIsThere DEF Loaded, WatchId, NoId
  <2>3. ASSUME NEW w \in WatchId, Loaded(w)'
        PROVE  latest'[watch'[w].key] # NoId /\ watch'[latest'[watch'[w].key]] # NoWatch
    <3>1. CASE watch'[w].key = k
      BY <2>1, <2>2, <3>1 DEF Register, Loaded
    <3>2. CASE watch'[w].key # k
      <4>1. w # v /\ Loaded(w) /\ watch'[w] = watch[w]
        BY <2>1, <2>3, <3>2 DEF Loaded
      <4>2. watch[w].key \in Key
        BY <4>1, LoadedType DEF Watch
      <4>3. latest'[watch[w].key] = latest[watch[w].key]
        BY <2>1, <3>2, <4>1, <4>2 DEF Register
      <4>4. latest[watch[w].key] \in WatchId /\ Loaded(latest[watch[w].key])
        BY <4>1, <4>2 DEF LatestIsLoaded
      <4>5. \A u \in WatchId : Loaded(u) => watch'[u] # NoWatch
        BY <1>3, EffectOnLoaded DEF Loaded
      <4> QED
        BY <4>1, <4>3, <4>4, <4>5, WatchIsThere DEF WatchId, NoId
    <3> QED
      BY <3>1, <3>2
  <2> QED
    BY <2>3 DEF LatestIsLoaded, Loaded
<1> QED
  BY <1>1, <1>2, <1>3 DEF Effect, Quiet, Ends, Polls, Reuses, Fails, Close

LEMMA NextKeepsSound ==
  ASSUME Sound, [Next]_vars
  PROVE  Effect /\ Sound'
<1>1. Effect /\ WellFormed'
  BY StepHasEffect, StepIsWellFormed DEF Sound, Good
<1>2. ActiveIsLive' /\ TableFollows' /\ LatestIsLoaded'
  BY <1>1, StepKeepsActive, StepKeepsTable, StepKeepsLatest DEF Sound, Good
<1> QED
  BY <1>1, <1>2, StepKeepsPastRows DEF Sound, Good

\* A reading of the table that fails changes no watch.
LEMMA FailureKeepsSound ==
  ASSUME Sound, QueryFails
  PROVE  Sound'
<1>1. UNCHANGED <<watch, active, latest, row>>
  BY DEF QueryFails, memory, disk
<1>2. WellFormed'
  <2>1. TypeOK'
    BY DEF QueryFails, Fault, memory, goroutines, events, disk, Sound, Good, WellFormed, TypeOK
  <2>2. IsFiniteSet(triggerLog)' /\ WorkersAreLoaded' /\ EndIsConsistent'
    BY DEF QueryFails, memory, goroutines, events, disk, Sound, Good, WellFormed,
           WorkersAreLoaded, EndIsConsistent, Loaded
  <2> QED
    BY <2>1, <2>2 DEF WellFormed
<1>3. ActiveIsLive' /\ TableFollows' /\ PastRowsAreOver' /\ LatestIsLoaded'
  BY <1>1 DEF Sound, Good, ActiveIsLive, TableFollows, PastRowsAreOver, LatestIsLoaded,
              Live, Loaded
<1> QED
  BY <1>2, <1>3 DEF Sound, Good

LEMMA StepKeepsSound ==
  ASSUME Sound, [QueryNext]_queryVars
  PROVE  Sound'
<1>1. CASE QueryFails
  BY <1>1, FailureKeepsSound
<1>2. CASE [Next]_vars
  BY <1>2, NextKeepsSound
<1> QED
  BY <1>1, <1>2 DEF QueryNext, ManagerStep, queryVars

-----------------------------------------------------------------------------
(* What a query has read.                                                  *)

UnderWay == [status |-> "WATCHING", active |-> TRUE]

\* Of what its first reading found, all was so; what it did not find, and is
\* there now, began meanwhile.
ListSound ==
  /\ IsFiniteSet(query.items)
  /\ query.activeOnly \in BOOLEAN
  /\ \A x \in query.items : x.id \in WatchId /\ [status |-> x.status, active |-> x.active] \in during[x.id]
  /\ \A w \in WatchId : Loaded(w) /\ watch[w].key[1] = query.login =>
       /\ ~query.activeOnly /\ (\A x \in query.items : x.id # w) => UnderWay \in during[w]
       /\ (\A m \in during[w] : m.active) => \E x \in query.items : x.id = w

QuerySound ==
  /\ query # NoQuery => \A w \in WatchId : Now(w) \in during[w]
  /\ query.op = "get" =>
       query.id \in WatchId /\ (Loaded(query.id) => UnderWay \in during[query.id])
  /\ query.op = "latest" =>
       \A w \in WatchId : Loaded(w) /\ watch[w].key = query.key => UnderWay \in during[w]
  /\ query.op = "list" => ListSound

LEMMA WatchIdIsFinite == IsFiniteSet(WatchId)
  BY FS_Interval, BoundsAssumption DEF WatchId

\* Nothing is under way that is not in memory.
LEMMA UnloadedIsOver ==
  ASSUME Good, NEW w \in WatchId, ~Loaded(w)
  PROVE  Now(w).active = FALSE
<1>1. CASE row[w] = NoRow
  BY <1>1 DEF Now, Absent
<1>2. CASE row[w] # NoRow
  <2>1. row[w] \in Row /\ ~row[w].active
    BY <1>2 DEF Good, WellFormed, TypeOK, PastRowsAreOver
  <2> QED
    BY <1>2, <2>1 DEF Now, Row
<1> QED
  BY <1>1, <1>2

LEMMA QueryTakesSight ==
  ASSUME Observe, query' # NoQuery, NEW w \in WatchId
  PROVE  during'[w] = during[w] \cup {Now(w)'}
  BY DEF Observe

\* The watches go on, and the query stays between its readings.
LEMMA MoveKeepsQuery ==
  ASSUME Sound, Sound', QuerySound, Effect, ~Restart, query' = query, Observe
  PROVE  QuerySound'
<1>1. CASE query = NoQuery
  BY <1>1 DEF QuerySound, NoQuery
<1> SUFFICES ASSUME query # NoQuery PROVE QuerySound'
  BY <1>1
<1>2. ASSUME NEW w \in WatchId
      PROVE  during'[w] = during[w] \cup {Now(w)'}
  BY <1>2, QueryTakesSight
<1>3. ASSUME NEW w \in WatchId, Loaded(w)'
      PROVE  \/ Loaded(w) /\ watch'[w].key = watch[w].key
             \/ ~Loaded(w) /\ UnderWay \in during'[w]
  <2>1. CASE Loaded(w)
    BY <2>1, EffectOnLoaded DEF Sound
  <2>2. CASE ~Loaded(w)
    <3>1. watch'[w].status = "WATCHING" /\ Live(w)'
      BY <1>3, <2>2, EffectOnLoaded DEF Sound
    <3>2. Now(w)' = UnderWay
      BY <1>3, <3>1 DEF Now, UnderWay
    <3> QED
      BY <1>2, <2>2, <3>2
  <2> QED
    BY <2>1, <2>2
<1>4. \A w \in WatchId : Now(w)' \in during'[w]
  BY <1>2
<1>5. ASSUME query.op = "get"
      PROVE  query'.id \in WatchId /\ (Loaded(query.id)' => UnderWay \in during'[query'.id])
  BY <1>2, <1>3, <1>5 DEF QuerySound, Loaded
<1>6. ASSUME query.op = "latest", NEW w \in WatchId, Loaded(w)', watch'[w].key = query'.key
      PROVE  UnderWay \in during'[w]
  BY <1>2, <1>3, <1>6 DEF QuerySound
<1>7. ASSUME query.op = "list"
      PROVE  ListSound'
  <2>1. ListSound
    BY <1>7 DEF QuerySound
  <2>2. \A x \in query.items : x.id \in WatchId /\ [status |-> x.status, active |-> x.active] \in during'[x.id]
    BY <1>2, <2>1 DEF ListSound
  <2>3. ASSUME NEW w \in WatchId, Loaded(w)', watch'[w].key[1] = query.login
        PROVE  /\ ~query.activeOnly /\ (\A x \in query.items : x.id # w) => UnderWay \in during'[w]
               /\ (\A m \in during'[w] : m.active) => \E x \in query.items : x.id = w
    <3>1. CASE Loaded(w)
      BY <1>2, <1>3, <2>1, <2>3, <3>1 DEF ListSound
    <3>2. CASE ~Loaded(w)
      <4>1. Now(w) \in during'[w] /\ Now(w).active = FALSE
        BY <1>2, <3>2, UnloadedIsOver DEF QuerySound, Sound
      <4> QED
        BY <1>3, <2>3, <3>2, <4>1
    <3> QED
      BY <3>1, <3>2
  <2> QED
    BY <2>1, <2>2, <2>3 DEF ListSound
<1> QED
  BY <1>4, <1>5, <1>6, <1>7 DEF QuerySound, Loaded

\* A query begins: what it read is what there is.
LEMMA AskIsSound ==
  ASSUME Sound, UNCHANGED vars, Query, Observe
  PROVE  QuerySound'
<1>1. CASE query' = NoQuery
  BY <1>1 DEF QuerySound, NoQuery
<1> SUFFICES ASSUME query' # NoQuery PROVE QuerySound'
  BY <1>1
<1>2. ASSUME NEW w \in WatchId
      PROVE  /\ Loaded(w)' = Loaded(w) /\ watch'[w] = watch[w] /\ Now(w)' = Now(w)
             /\ Now(w) \in during'[w] /\ Now(w)' \in during'[w]
  BY <1>2, QueryTakesSight DEF vars, memory, disk, Loaded, Live, Now
<1>3. ASSUME NEW login \in Login, NEW w \in WatchId, GetByID(login, w)
      PROVE  QuerySound'
  <2>1. ~Loaded(w) /\ query' = [op |-> "get", login |-> login, id |-> w]
    BY <1>3 DEF GetByID, Asks, Tells
  <2> QED
    BY <1>2, <2>1 DEF QuerySound
<1>4. ASSUME NEW k \in Key, GetLatest(k)
      PROVE  QuerySound'
  <2>1. query' = [op |-> "latest", key |-> k] /\ ~(latest[k] # NoId /\ Loaded(latest[k]))
    BY <1>4 DEF GetLatest, Asks, Tells
  <2>2. \A w \in WatchId : ~(Loaded(w) /\ watch[w].key = k)
    BY <2>1 DEF Sound, LatestIsLoaded
  <2> QED
    BY <1>2, <2>1, <2>2 DEF QuerySound
<1>5. ASSUME NEW login \in Login, NEW activeOnly \in BOOLEAN, List(login, activeOnly)
      PROVE  QuerySound'
  <2> DEFINE loaded == {v \in WatchId : Loaded(v)}
             all == {InMemory(w) : w \in loaded}
             items == Wanted(all, login, activeOnly)
  <2>1. query' = [op |-> "list", login |-> login, activeOnly |-> activeOnly, items |-> items]
    BY <1>5 DEF List, Asks
  <2>2. IsFiniteSet(items)
    <3>1. loaded \in SUBSET WatchId
      OBVIOUS
    <3> HIDE DEF loaded
    <3>2. IsFiniteSet(loaded)
      BY <3>1, WatchIdIsFinite, FS_Subset
    <3>3. [v \in loaded |-> InMemory(v)] \in Surjection(loaded, all)
      BY DEF Surjection
    <3>4. IsFiniteSet(all)
      BY <3>2, <3>3, FS_Surjection
    <3>5. items \in SUBSET all
      BY DEF Wanted, Own
    <3> QED
      BY <3>4, <3>5, FS_Subset
  <2>3. ASSUME NEW x \in items
        PROVE  /\ x.id \in WatchId /\ [status |-> x.status, active |-> x.active] \in during'[x.id]
    <3>1. PICK w \in WatchId : Loaded(w) /\ x = InMemory(w)
      BY DEF Wanted, Own
    <3>2. Live(w) = ~watch[w].terminal
      BY <3>1 DEF Live
    <3> QED
      BY <1>2, <3>1, <3>2 DEF InMemory, Now
  <2>4. ASSUME NEW w \in WatchId, Loaded(w), watch[w].key[1] = login
        PROVE  /\ ~activeOnly => \E x \in items : x.id = w
               /\ (\A m \in during'[w] : m.active) => \E x \in items : x.id = w
    <3>1. InMemory(w) \in all /\ InMemory(w).id = w /\ InMemory(w).key[1] = login
      BY <2>4 DEF InMemory
    <3>2. Now(w).active => InMemory(w).active
      BY <2>4 DEF Now, Live, InMemory
    <3>3. ~activeOnly \/ InMemory(w).active => InMemory(w) \in items
      BY <3>1 DEF Wanted, Own
    <3> QED
      BY <1>2, <3>1, <3>2, <3>3
  <2> HIDE DEF items
  <2>5. ListSound'
    BY <1>2, <2>1, <2>2, <2>3, <2>4 DEF ListSound
  <2> QED
    BY <1>2, <2>1, <2>5 DEF QuerySound
<1>6. CASE GetByIDFromTable \/ GetLatestFromTable \/ ListFromTable
  BY <1>6 DEF GetByIDFromTable, GetLatestFromTable, ListFromTable, Tells
<1> QED
  BY <1>3, <1>4, <1>5, <1>6 DEF Query

LEMMA StepKeepsQuery ==
  ASSUME Sound, Sound', QuerySound, [QueryNext]_queryVars
  PROVE  QuerySound'
<1>1. ASSUME UNCHANGED vars
      PROVE  Effect /\ ~Restart
  <2>1. restarts' = restarts /\ restarts \in Nat
    BY <1>1 DEF vars, bounds, Sound, Good, WellFormed, TypeOK
  <2>2. Quiet
    BY <1>1 DEF vars, memory, disk, bounds, Quiet
  <2> QED
    BY <2>1, <2>2 DEF Effect, Restart
<1>2. CASE Query /\ UNCHANGED vars /\ Observe
  BY <1>2, AskIsSound
<1>3. CASE Heard /\ UNCHANGED vars /\ Observe
  BY <1>1, <1>3, MoveKeepsQuery DEF Heard
<1>4. CASE QueryFails
  BY <1>4 DEF QueryFails, Tells, QuerySound, NoQuery
<1>5. CASE ManagerStep /\ Observe
  <2>1. CASE restarts' = restarts
    <3>1. Effect
      BY <1>5, NextKeepsSound DEF ManagerStep
    <3>2. ~Restart
      BY <2>1 DEF Restart, Sound, Good, WellFormed, TypeOK
    <3> QED
      BY <1>5, <2>1, <3>1, <3>2, MoveKeepsQuery DEF ManagerStep
  <2>2. CASE restarts' # restarts
    BY <1>5, <2>2 DEF ManagerStep, QuerySound, NoQuery
  <2> QED
    BY <2>1, <2>2
<1>6. CASE UNCHANGED queryVars
  <2>1. /\ query' = query /\ during' = during
        /\ \A w \in WatchId : Loaded(w)' = Loaded(w) /\ watch'[w] = watch[w] /\ Now(w)' = Now(w)
    BY <1>6 DEF queryVars, vars, memory, disk, Loaded, Live, Now
  <2> QED
    BY <2>1 DEF QuerySound, ListSound, Loaded
<1> QED
  BY <1>2, <1>3, <1>4, <1>5, <1>6 DEF QueryNext

\* What is known of the watches and of the query under way, at every moment.
THEOREM QueryAlwaysSound == QuerySpec => [](Sound /\ QuerySound)
<1>1. QueryInit => Sound /\ QuerySound
  <2>1. Init => WellFormed
    BY InitIsWellFormed
  <2>2. Init => ActiveIsLive /\ TableFollows /\ PastRowsAreOver /\ LatestIsLoaded
    BY DEF Init, ActiveIsLive, TableFollows, PastRowsAreOver, LatestIsLoaded, Live, Loaded
  <2>3. query = NoQuery => QuerySound
    BY DEF QuerySound, NoQuery
  <2> QED
    BY <2>1, <2>2, <2>3 DEF QueryInit, Sound, Good
<1>2. Sound /\ QuerySound /\ [QueryNext]_queryVars => (Sound /\ QuerySound)'
  BY StepKeepsSound, StepKeepsQuery
<1> QED
  BY <1>1, <1>2, PTL DEF QuerySpec

-----------------------------------------------------------------------------
(* The answers.                                                            *)

\* What the table says of a watch without an item in a sound query was so.
LEMMA TableWasTrue ==
  ASSUME Good, NEW w \in WatchId, row[w] # NoRow, Loaded(w) => UnderWay \in Moments(w)
  PROVE  Was(InTable(w))
<1>1. row[w] \in Row /\ InTable(w).id = w
  BY DEF Good, WellFormed, TypeOK, InTable
<1>2. CASE ~Loaded(w)
  BY <1>1, <1>2 DEF Was, Moments, Now, InTable
<1>3. CASE Loaded(w) /\ row[w].active
  <2>1. row[w].status = "WATCHING"
    BY <1>3 DEF Good, TableFollows, Follows
  <2> QED
    BY <1>1, <1>3, <2>1 DEF Was, Moments, UnderWay, InTable, Row
<1>4. CASE Loaded(w) /\ ~row[w].active
  <2>1. row[w] = RowOf(watch[w]) /\ watch[w] \in Watch
    BY <1>4, LoadedType DEF Good, TableFollows, Follows, WellFormed
  <2>2. row[w].status = watch[w].status /\ row[w].active = Live(w)
    BY <1>4, <2>1 DEF RowOf, Live, Watch
  <2> QED
    BY <1>1, <1>4, <2>2 DEF Was, Moments, Now, InTable
<1> QED
  BY <1>2, <1>3, <1>4

\* A watch in memory has a row.
LEMMA LoadedHasRow ==
  ASSUME Good, NEW w \in WatchId, Loaded(w)
  PROVE  row[w] # NoRow /\ row[w].key = watch[w].key
  BY DEF Good, TableFollows, Follows

\* Who answers a query that is between its readings.
LEMMA AnswerComesFrom ==
  ASSUME QueryNext, query.op # "none", told' # NoAnswer
  PROVE  \/ GetByIDFromTable \/ GetLatestFromTable \/ ListFromTable
         \/ told' = [op |-> "failed", items |-> {}]
<1>1. query # NoQuery
  BY DEF NoQuery
<1>2. CASE Query
  BY <1>1, <1>2 DEF Query, GetByID, GetLatest, List
<1>3. CASE Heard \/ ManagerStep
  BY <1>3 DEF Heard, ManagerStep
<1>4. CASE QueryFails
  BY <1>4 DEF QueryFails, Tells
<1> QED
  BY <1>2, <1>3, <1>4 DEF QueryNext

LEMMA GreatestExists ==
  ASSUME NEW T, T \subseteq WatchId, T # {}
  PROVE  \E i \in T : \A j \in T : j <= i
<1> DEFINE R == OpToRel(<, Nat)
           D == {MaxWatches - j : j \in T}
<1>1. IsWellFoundedOn(R, Nat)
  BY NatLessThanWellFounded
<1>2. \A i, j \in Nat : j < i => <<j, i>> \in R
  BY DEF OpToRel
<1>3. \A j \in T : j \in Nat /\ MaxWatches - j \in Nat
  BY BoundsAssumption DEF WatchId
<1>4. D \subseteq Nat /\ D # {}
  BY <1>3
<1> HIDE DEF R
<1>5. PICK d \in D : \A e \in D : <<e, d>> \notin R
  <2> HIDE DEF D
  <2> QED
    BY <1>1, <1>4, WFMin
<1>6. PICK i \in T : d = MaxWatches - i
  OBVIOUS
<1>7. ASSUME NEW j \in T PROVE j <= i
  <2>1. ~(MaxWatches - j < MaxWatches - i)
    BY <1>2, <1>3, <1>5, <1>6
  <2> QED
    BY <1>3, <2>1, BoundsAssumption
<1> QED
  BY <1>7

\* A status that has to come from the table is true, is of the newest watch of
\* a user and pull request, and a watch that was there all the time is found.
THEOREM StatusesAreTrue == QuerySpec => FoundIsNewest
<1> DEFINE Claim ==
      /\ Answers("latest") =>
           \A w \in WatchId :
             Absent \notin Moments(w) /\ KeyOf(w) = query.key => \E x \in told'.items : x.id >= w
      /\ Answers("get") =>
           (Absent \notin Moments(query.id) /\ KeyOf(query.id)[1] = query.login => told'.items # {})
      /\ query.op \in {"get", "latest"} /\ told' # NoAnswer =>
           \A x \in told'.items : Was(x)
<1>1. ASSUME Sound, QuerySound, QueryNext
      PROVE  Claim
  <2>a. Good
    BY <1>1 DEF Sound
  <2>b. ASSUME NEW w \in WatchId, Absent \notin Moments(w)
        PROVE  row[w] # NoRow /\ KeyOf(w) = row[w].key
    BY <2>a, <2>b, LoadedHasRow DEF Moments, Now, KeyOf
  <2>1. CASE GetByIDFromTable
    <3>1. /\ query.op = "get" /\ told'.op = "get"
          /\ told'.items = IF row[query.id] = NoRow THEN {} ELSE Own(query.login, {InTable(query.id)})
      BY <2>1 DEF GetByIDFromTable, Tells
    <3>2. query.id \in WatchId /\ (Loaded(query.id) => UnderWay \in during[query.id])
      BY <1>1, <3>1 DEF QuerySound
    <3>3. \A x \in told'.items : Was(x)
      BY <2>a, <3>1, <3>2, TableWasTrue DEF Own, Moments
    <3>4. Absent \notin Moments(query.id) /\ KeyOf(query.id)[1] = query.login => told'.items # {}
      <4>1. ASSUME row[query.id] # NoRow, row[query.id].key[1] = query.login
            PROVE  InTable(query.id) \in told'.items
        BY <3>1, <4>1 DEF Own, InTable
      <4> QED
        BY <2>b, <3>2, <4>1
    <3> QED
      BY <3>1, <3>3, <3>4 DEF Answers
  <2>2. CASE GetLatestFromTable
    <3>1. /\ query.op = "latest" /\ told'.op = "latest"
          /\ told'.items = {InTable(w) : w \in LatestRow(query.key)}
      BY <2>2 DEF GetLatestFromTable, Tells
    <3>2. \A w \in WatchId : Loaded(w) /\ watch[w].key = query.key => UnderWay \in during[w]
      BY <1>1, <3>1 DEF QuerySound
    <3>3. ASSUME NEW w \in LatestRow(query.key)
          PROVE  Was(InTable(w))
      BY <2>a, <3>2, LoadedHasRow, TableWasTrue DEF LatestRow, RowsOfKey, Moments
    <3>4. ASSUME NEW w \in WatchId, Absent \notin Moments(w), KeyOf(w) = query.key
          PROVE  \E x \in told'.items : x.id >= w
      <4>1. w \in RowsOfKey(query.key) /\ RowsOfKey(query.key) \subseteq WatchId
        BY <2>b, <3>4 DEF RowsOfKey
      <4>2. PICK v \in RowsOfKey(query.key) : \A u \in RowsOfKey(query.key) : u <= v
        BY <4>1, GreatestExists
      <4>3. InTable(v) \in told'.items /\ InTable(v).id = v
        BY <3>1, <4>2 DEF LatestRow, InTable
      <4> QED
        BY <4>1, <4>2, <4>3 DEF WatchId
    <3> QED
      BY <3>1, <3>3, <3>4 DEF Answers
  <2>3. CASE told' = [op |-> "failed", items |-> {}]
    BY <2>3 DEF Answers
  <2>4. CASE query.op \notin {"get", "latest"} \/ told' = NoAnswer
    BY <2>4 DEF Answers, NoAnswer
  <2>5. CASE ListFromTable
    BY <2>4, <2>5 DEF ListFromTable
  <2> QED
    BY <1>1, <2>1, <2>2, <2>3, <2>4, <2>5, AnswerComesFrom
<1>2. Sound /\ QuerySound /\ [QueryNext]_queryVars => [Claim]_queryVars
  BY <1>1
<1> QED
  BY <1>2, QueryAlwaysSound, PTL DEF QuerySpec, FoundIsNewest

-----------------------------------------------------------------------------
(* The lists.                                                              *)

LEMMA OnlyListAnswers ==
  ASSUME QueryNext, Answers("list")
  PROVE  ListFromTable
BY AnswerComesFrom DEF Answers, NoAnswer, GetByIDFromTable, GetLatestFromTable

\* What is listed is from the first reading, or from the table.
LEMMA ListIsMerged ==
  ASSUME ListFromTable
  PROVE  \E page :
           /\ \A x \in page : \E w \in WatchId :
                /\ row[w] # NoRow /\ x = InTable(w)
                /\ row[w].key[1] = query.login /\ (query.activeOnly => row[w].active)
           /\ told'.items \in Firsts(Merged(query.items, page))
<1> DEFINE rows == {InTable(w) : w \in {v \in WatchId : row[v] # NoRow}}
<1>1. PICK page \in Firsts(Wanted(rows, query.login, query.activeOnly)) :
        told'.items \in Firsts(Merged(query.items, page))
  BY DEF ListFromTable, Tells
<1>2. ASSUME NEW x \in page
      PROVE  \E w \in WatchId :
                /\ row[w] # NoRow /\ x = InTable(w)
                /\ row[w].key[1] = query.login /\ (query.activeOnly => row[w].active)
  <2>1. x \in rows /\ x.key[1] = query.login /\ (query.activeOnly => x.active)
    BY DEF Firsts, Wanted, Own
  <2>2. PICK w \in WatchId : row[w] # NoRow /\ x = InTable(w)
    BY <2>1
  <2> QED
    BY <2>1, <2>2 DEF InTable
<1> QED
  BY <1>1, <1>2

\* All that is listed was so at some moment of the call, but for the rows of
\* active watches whose end could not be written.
THEOREM ListsAreTrue == QuerySpec => ListedWasTrue
<1> DEFINE Claim ==
      Answers("list") =>
        \A x \in told'.items : Was(x) \/ (query.activeOnly /\ Unwritten(x.id))
<1>1. ASSUME Sound, QuerySound, QueryNext, Answers("list"), NEW x \in told'.items
      PROVE  Was(x) \/ (query.activeOnly /\ Unwritten(x.id))
  <2>1. ListSound /\ Good
    BY <1>1 DEF QuerySound, Sound, Answers
  <2>2. PICK page :
          /\ \A y \in page : \E w \in WatchId :
               /\ row[w] # NoRow /\ y = InTable(w)
               /\ row[w].key[1] = query.login /\ (query.activeOnly => row[w].active)
          /\ told'.items \in Firsts(Merged(query.items, page))
    BY <1>1, OnlyListAnswers, ListIsMerged
  <2>3. CASE x \in query.items
    BY <2>1, <2>3 DEF ListSound, Was, Moments
  <2>4. CASE x \notin query.items
    <3>1. x \in page /\ \A y \in query.items : y.id # x.id
      BY <2>2, <2>4 DEF Firsts, Merged
    <3>2. PICK w \in WatchId :
            /\ row[w] # NoRow /\ x = InTable(w)
            /\ row[w].key[1] = query.login /\ (query.activeOnly => row[w].active)
      BY <2>2, <3>1
    <3>3. x.id = w
      BY <3>2 DEF InTable
    <3>4. CASE Loaded(w) => UnderWay \in Moments(w)
      BY <2>1, <3>2, <3>4, TableWasTrue
    <3>5. CASE Loaded(w) /\ UnderWay \notin Moments(w)
      <4>1. row[w].key = watch[w].key
        BY <2>1, <3>5, LoadedHasRow
      <4>2. query.activeOnly
        BY <2>1, <3>1, <3>2, <3>3, <3>5, <4>1 DEF ListSound, Moments
      <4>3. ~Live(w)
        <5>1. SUFFICES ASSUME Live(w) PROVE FALSE
          OBVIOUS
        <5>2. watch[w].status = "WATCHING"
          BY <2>1, <5>1, LiveIsWatching DEF Good, WellFormed
        <5>3. Now(w) = UnderWay
          BY <3>5, <5>1, <5>2 DEF Now, UnderWay
        <5> QED
          BY <3>5, <5>3 DEF Moments
      <4> QED
        BY <3>2, <3>3, <3>5, <4>2, <4>3 DEF Unwritten
    <3> QED
      BY <3>4, <3>5
  <2> QED
    BY <2>3, <2>4
<1>2. Sound /\ QuerySound /\ [QueryNext]_queryVars => [Claim]_queryVars
  BY <1>1
<1> QED
  BY <1>2, QueryAlwaysSound, PTL DEF QuerySpec, ListedWasTrue

\* What is listed is a finite set of items.
LEMMA MergedIsFinite ==
  ASSUME NEW items, IsFiniteSet(items), NEW page,
         \A y \in page : \E w \in WatchId : y = InTable(w)
  PROVE  IsFiniteSet(Merged(items, page))
<1> DEFINE all == {InTable(w) : w \in WatchId}
           new == {y \in page : \A x \in items : x.id # y.id}
<1>1. [w \in WatchId |-> InTable(w)] \in Surjection(WatchId, all)
  BY DEF Surjection
<1>2. IsFiniteSet(all)
  BY <1>1, WatchIdIsFinite, FS_Surjection
<1>3. new \in SUBSET all
  OBVIOUS
<1>4. IsFiniteSet(new)
  <2> HIDE DEF all, new
  <2> QED
    BY <1>2, <1>3, FS_Subset
<1>5. IsFiniteSet(items \cup new)
  <2> HIDE DEF new
  <2> QED
    BY <1>4, FS_Union
<1> QED
  BY <1>5 DEF Merged

\* An active item that is not among the first leaves no room to others.
LEMMA ActiveComeFirst ==
  ASSUME NEW items, IsFiniteSet(items), NEW top \in Firsts(items),
         NEW x \in items \ top, x.active = TRUE
  PROVE  Cardinality({y \in top : y.active}) = Limit
<1>1. top \subseteq items /\ top # items
  BY DEF Firsts
<1>2. \A y \in top : y.active
  BY DEF Firsts, Before
<1>3. {y \in top : y.active} = top
  BY <1>2
<1>4. Cardinality(top) = Limit
  <2>1. Cardinality(items) # Cardinality(top)
    BY <1>1, FS_Subset
  <2> QED
    BY <2>1 DEF Firsts
<1> QED
  BY <1>3, <1>4

\* A watch that is under way all through the call is listed, unless as many
\* others that are under way as the limit allows are.
THEOREM NoneUnderWayIsMissed == QuerySpec => UnderWayIsListed
<1> DEFINE Claim ==
      Answers("list") =>
        \A w \in WatchId :
          Throughout(w) /\ watch[w].key[1] = query.login =>
            \/ \E x \in told'.items : x.id = w
            \/ Cardinality({x \in told'.items : x.active}) = Limit
<1>1. ASSUME Sound, QuerySound, QueryNext, Answers("list"), NEW w \in WatchId,
             Throughout(w), watch[w].key[1] = query.login
      PROVE  \/ \E x \in told'.items : x.id = w
             \/ Cardinality({x \in told'.items : x.active}) = Limit
  <2>1. ListSound /\ Good
    BY <1>1 DEF QuerySound, Sound, Answers
  <2>2. PICK page :
          /\ \A y \in page : \E v \in WatchId :
               /\ row[v] # NoRow /\ y = InTable(v)
               /\ row[v].key[1] = query.login /\ (query.activeOnly => row[v].active)
          /\ told'.items \in Firsts(Merged(query.items, page))
    BY <1>1, OnlyListAnswers, ListIsMerged
  <2>3. IsFiniteSet(Merged(query.items, page))
    BY <2>1, <2>2, MergedIsFinite DEF ListSound
  <2>4. Now(w).active /\ \A m \in during[w] : m.active
    BY <1>1 DEF Throughout, Moments
  <2>5. Loaded(w)
    BY <2>1, <2>4, UnloadedIsOver
  <2>6. PICK x \in query.items : x.id = w
    BY <1>1, <2>1, <2>4, <2>5 DEF ListSound
  <2>7. x.active = TRUE
    <3>1. [status |-> x.status, active |-> x.active] \in during[w]
      BY <2>1, <2>6 DEF ListSound
    <3> QED
      BY <2>4, <3>1
  <2>8. x \in Merged(query.items, page)
    BY <2>6 DEF Merged
  <2> QED
    BY <2>2, <2>3, <2>6, <2>7, <2>8, ActiveComeFirst
<1>2. Sound /\ QuerySound /\ [QueryNext]_queryVars => [Claim]_queryVars
  BY <1>1
<1> QED
  BY <1>2, QueryAlwaysSound, PTL DEF QuerySpec, UnderWayIsListed
=============================================================================
