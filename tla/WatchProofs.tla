----------------------------- MODULE WatchProofs ------------------------------
(***************************************************************************)
(* Theorems about WatchManager, for every set of users, pull requests,     *)
(* tokens and tool handlers, every threshold and every bound.              *)
(*                                                                         *)
(* The proofs have two layers.  The first shows that the state is well     *)
(* formed at every step and that every step changes what is known of the   *)
(* watches (watch, active, latest, row) in one of eight ways: the Effect   *)
(* lemma, with one step of its proof for each action.  The second proves   *)
(* each property by cases on those eight effects.                          *)
(***************************************************************************)
EXTENDS WatchProperties, TriggerLogProofs

-----------------------------------------------------------------------------
(* Well-formed states.                                                     *)

\* A goroutine, or a notification on its way, is for a watch that is loaded.
WorkersAreLoaded ==
  \A w \in WatchId : worker[w].pc # "none" \/ w \in notify => Loaded(w)

WellFormed ==
  TypeOK /\ IsFiniteSet(triggerLog) /\ WorkersAreLoaded /\ EndIsConsistent

LEMMA LoadedType ==
  ASSUME TypeOK, NEW w \in WatchId, Loaded(w)
  PROVE  watch[w] \in Watch
  BY DEF TypeOK, Loaded

LEMMA FinishedType ==
  ASSUME NEW x \in Watch, NEW status \in FinalStatus, NEW reason \in Reason,
         NEW hint \in BOOLEAN
  PROVE  Finished(x, status, reason, hint) \in Watch
  BY DEF Finished, Watch, Status

LEMMA DegradedType ==
  ASSUME NEW x \in Watch
  PROVE  Degraded(x) \in Watch
  BY DEF Degraded, Watch, Status, FinalStatus, Reason

LEMMA RowOfType ==
  ASSUME NEW x \in Watch
  PROVE  RowOf(x) \in Row
  BY DEF RowOf, Row, Watch

LEMMA WatchIsThere ==
  ASSUME NEW x \in Watch \cup Row
  PROVE  x # NoWatch /\ x # NoRow
  BY DEF Watch, Row, NoWatch, NoRow

\* A write leaves a table, whether it succeeds or not.
LEMMA WriteType ==
  ASSUME TypeOK, NEW w \in WatchId, NEW x \in Watch,
         Persisted(w, x) \/ NotPersisted(w, x)
  PROVE  row' \in [WatchId -> Row \cup {NoRow}] /\ faults' \in Nat
  BY RowOfType, BoundsAssumption
     DEF TypeOK, Persisted, NotPersisted, Fault, NoFault

-----------------------------------------------------------------------------
(* The effects of a step on the watches and their rows.                    *)

\* Nothing happens to them.
Quiet == UNCHANGED <<watch, active, latest, row, faults>>

\* A live watch gets a final status.
Ends ==
  \E w \in WatchId : \E x \in Watch :
    /\ Live(w)
    /\ x.terminal /\ x.token = NoToken /\ x.status \in FinalStatus
    /\ x.status = "FAILED" <=> x.reason # "NONE"
    /\ x.key = watch[w].key
    /\ Store(w, x) /\ Release(w) /\ UNCHANGED latest

\* x is the live watch w, in the middle of its life.
Continues(w, x) ==
  /\ Live(w)
  /\ ~x.terminal /\ x.token \in Token
  /\ x.key = watch[w].key /\ x.status = watch[w].status /\ x.reason = watch[w].reason

\* A live watch is polled; if that cannot be written the watch is over.
Polls ==
  \E w \in WatchId : \E x \in Watch :
    /\ Continues(w, x)
    /\ \/ Persisted(w, x) /\ watch' = [watch EXCEPT ![w] = x] /\ UNCHANGED active
       \/ NotPersisted(w, x) /\ watch' = [watch EXCEPT ![w] = Degraded(x)] /\ Release(w)
    /\ UNCHANGED latest

\* A live watch is started again.
Reuses ==
  \E w \in WatchId : \E x \in Watch :
    /\ Continues(w, x)
    /\ \/ Persisted(w, x)
       \/ NotPersisted(w, x)
       \/ x = watch[w] /\ UNCHANGED <<row, faults>>
    /\ watch' = [watch EXCEPT ![w] = x]
    /\ UNCHANGED <<active, latest>>

\* A watch is created for a key that has no live one.
Creates ==
  \E w \in WatchId, k \in Key : \E x \in Watch :
    /\ ~ActiveWatch(k) /\ ~Loaded(w) /\ row[w] = NoRow
    /\ x.key = k /\ ~x.terminal /\ x.token \in Token
    /\ x.status = "WATCHING" /\ x.reason = "NONE"
    /\ Persisted(w, x) /\ watch' = [watch EXCEPT ![w] = x] /\ Register(k, w)

\* A watch could not be created.
Fails ==
  \E k \in Key :
    /\ ~ActiveWatch(k)
    /\ active' = [active EXCEPT ![k] = NoId]
    /\ faults' \in Nat
    /\ UNCHANGED <<watch, latest, row>>

Effect == Quiet \/ Ends \/ Polls \/ Reuses \/ Creates \/ Fails \/ Close \/ Restart

LEMMA LiveIsWatching ==
  ASSUME TypeOK, EndIsConsistent, NEW w \in WatchId, Live(w)
  PROVE  /\ watch[w] \in Watch
         /\ watch[w].token \in Token /\ watch[w].status = "WATCHING" /\ watch[w].reason = "NONE"
  BY LoadedType DEF EndIsConsistent, Live, Watch, Status

LEMMA FinishEnds ==
  ASSUME TypeOK, NEW w \in WatchId, Live(w), NEW x \in Watch, x.key = watch[w].key,
         NEW status \in FinalStatus, NEW reason \in Reason, NEW hint \in BOOLEAN,
         status = "FAILED" <=> reason # "NONE",
         Finish(w, x, status, reason, hint), UNCHANGED latest
  PROVE  Ends
<1> DEFINE y == Finished(x, status, reason, hint)
<1>1. y \in Watch
  BY FinishedType
<1>2. y.terminal /\ y.token = NoToken /\ y.status = status /\ y.reason = reason /\ y.key = x.key
  BY DEF Finished, Watch
<1>3. Store(w, y) /\ Release(w)
  BY DEF Finish
<1> HIDE DEF y
<1> QED
  BY <1>1, <1>2, <1>3 DEF Ends

LEMMA FinishStateEnds ==
  ASSUME TypeOK, NEW w \in WatchId,
         NEW status \in FinalStatus, NEW reason \in Reason, NEW hint \in BOOLEAN,
         status = "FAILED" <=> reason # "NONE",
         FinishState(w, status, reason, hint), UNCHANGED latest
  PROVE  Quiet \/ Ends
<1>1. CASE Live(w)
  <2>1. watch[w] \in Watch
    BY <1>1, LoadedType DEF Live
  <2> QED
    BY <1>1, <2>1, FinishEnds DEF FinishState
<1>2. CASE ~Live(w)
  BY <1>2 DEF FinishState, Quiet
<1> QED
  BY <1>1, <1>2

LEMMA RecordPolls ==
  ASSUME TypeOK, NEW w \in WatchId, NEW x \in Watch, Continues(w, x),
         NEW tell \in BOOLEAN, Record(w, x, tell), UNCHANGED latest
  PROVE  Polls
  BY DEF Record, Polls

\* Every step has one of the effects.
LEMMA StepHasEffect ==
  ASSUME WellFormed, [Next]_vars
  PROVE  Effect
<1> USE DEF WellFormed
<1>1. ASSUME NEW c \in Caller, NEW k \in Key, NEW tok \in Token, StartRead(c, k, tok)
      PROVE  Effect
  BY <1>1 DEF StartRead, memory, disk, bounds, Effect, Quiet
<1>2. ASSUME NEW c \in Caller, StartRefused(c)
      PROVE  Effect
  BY <1>2 DEF StartRefused, memory, disk, bounds, Effect, Quiet
<1>3. ASSUME NEW c \in Caller, StartReuse(c)
      PROVE  Effect
  <2> DEFINE in == call[c]
             w == active[in.key]
             x == Reused(watch[w], in)
  <2>1. in.key \in Key /\ in.token \in Token /\ in.trigger \in Nat
    BY <1>3 DEF StartReuse, TypeOK, Call, Idle
  <2>2. w \in WatchId /\ Live(w)
    BY <1>3, <2>1 DEF StartReuse, ActiveWatch, TypeOK
  <2>3. watch[w] \in Watch /\ watch[w].token \in Token
    BY <2>2, LiveIsWatching
  <2>4. x \in Watch /\ Continues(w, x)
    BY <2>1, <2>2, <2>3 DEF Reused, Continues, Watch, Live
  <2>5. /\ watch' = [watch EXCEPT ![w] = x]
        /\ \/ Persisted(w, x)
           \/ NotPersisted(w, x)
           \/ x = watch[w] /\ UNCHANGED <<row, faults>>
        /\ UNCHANGED <<active, latest>>
    BY <1>3 DEF StartReuse, Changes
  <2> HIDE DEF x, w
  <2> QED
    BY <2>2, <2>4, <2>5 DEF Effect, Reuses
<1>4. ASSUME NEW c \in Caller, NEW w \in WatchId, StartNew(c, w)
      PROVE  Effect
  <2> DEFINE in == call[c]
             k == in.key
             x == NewWatch(in)
  <2>1. k \in Key /\ in.token \in Token /\ in.trigger \in Nat
    BY <1>4 DEF StartNew, TypeOK, Call, Idle
  <2>2. /\ x \in Watch
        /\ x.key = k /\ ~x.terminal /\ x.token \in Token
        /\ x.status = "WATCHING" /\ x.reason = "NONE"
    BY <2>1 DEF NewWatch, Watch, Status, Reason
  <2>3. ~ActiveWatch(k) /\ ~Loaded(w) /\ row[w] = NoRow
    BY <1>4 DEF StartNew, Unused
  <2>4. CASE Persisted(w, x) /\ watch' = [watch EXCEPT ![w] = x] /\ Register(k, w)
    <3> HIDE DEF x, k
    <3> QED
      BY <2>1, <2>2, <2>3, <2>4 DEF Effect, Creates
  <2>5. CASE /\ NotPersisted(w, x)
             /\ active' = [active EXCEPT ![k] = NoId]
             /\ UNCHANGED <<watch, latest>>
    <3>1. faults' \in Nat /\ UNCHANGED row
      BY <2>5, <2>2, WriteType DEF NotPersisted
    <3> QED
      BY <2>1, <2>3, <2>5, <3>1 DEF Effect, Fails
  <2> QED
    BY <1>4, <2>4, <2>5 DEF StartNew
<1>5. ASSUME NEW c \in Caller, NEW w \in WatchId, CancelLocked(c, w)
      PROVE  Effect
  <2>1. Live(w) /\ watch[w] \in Watch
    BY <1>5, LoadedType DEF CancelLocked, Live
  <2>2. Finish(w, watch[w], "CANCELLED", "NONE", FALSE) /\ UNCHANGED latest
    BY <1>5 DEF CancelLocked
  <2> QED
    BY <2>1, <2>2, FinishEnds DEF FinalStatus, Reason, Effect
<1>6. ASSUME NEW c \in Caller, CancelTrigger(c)
      PROVE  Effect
  BY <1>6 DEF CancelTrigger, memory, bounds, Effect, Quiet
<1>7. ASSUME NEW c \in Caller, NEW pr \in PR, RequestGuard(c, pr)
      PROVE  Effect
  BY <1>7 DEF RequestGuard, memory, disk, bounds, Effect, Quiet
<1>8. ASSUME NEW c \in Caller, NEW at \in RequestTime, RequestRecord(c, at)
      PROVE  Effect
  BY <1>8 DEF RequestRecord, memory, bounds, Effect, Quiet
<1>9. ASSUME NEW c \in Caller, RequestAbandon(c)
      PROVE  Effect
  BY <1>9 DEF RequestAbandon, memory, disk, bounds, Effect, Quiet
<1>10. ASSUME NEW w \in WatchId, PollExpire(w)
       PROVE  Effect
  BY <1>10, FinishStateEnds DEF PollExpire, FinalStatus, Reason, Effect
<1>11. ASSUME NEW w \in WatchId, PollBegin(w)
       PROVE  Effect
  BY <1>11, FinishStateEnds DEF PollBegin, FinalStatus, Reason, Effect, Quiet
<1>12. ASSUME NEW w \in WatchId, PollCancelled(w)
       PROVE  Effect
  BY <1>12 DEF PollCancelled, memory, disk, bounds, Effect, Quiet
<1>13. ASSUME NEW w \in WatchId, PollError(w)
       PROVE  Effect
  BY <1>13, FinishStateEnds DEF PollError, FinalStatus, Reason, Effect
<1>14. ASSUME NEW w \in WatchId, PollUpstreamFailure(w)
       PROVE  Effect
  <2> DEFINE x == [watch[w] EXCEPT !.failures = @ + 1]
  <2>1. CASE ~Live(w)
    BY <1>14, <2>1 DEF PollUpstreamFailure, Effect, Quiet
  <2>2. CASE Live(w)
    <3>1. /\ watch[w] \in Watch
          /\ watch[w].token \in Token /\ watch[w].status = "WATCHING" /\ watch[w].reason = "NONE"
      BY <2>2, LiveIsWatching
    <3>2. x \in Watch /\ Continues(w, x)
      BY <2>2, <3>1 DEF Continues, Watch, Live
    <3>3. \/ Finish(w, x, "FAILED", "AUTH_EXPIRED", TRUE)
          \/ Record(w, x, FALSE)
      BY <1>14, <2>2 DEF PollUpstreamFailure
    <3>4. UNCHANGED latest /\ x.key = watch[w].key
      BY <1>14, <3>1 DEF PollUpstreamFailure, Watch
    <3> HIDE DEF x
    <3> QED
      BY <2>2, <3>2, <3>3, <3>4, FinishEnds, RecordPolls DEF FinalStatus, Reason, Effect
  <2> QED
    BY <2>1, <2>2
<1>15. ASSUME NEW w \in WatchId, PollAnswer(w)
       PROVE  Effect
  BY <1>15, FinishStateEnds DEF PollAnswer, FinalStatus, Reason, Effect, Quiet
<1>16. ASSUME NEW w \in WatchId, PollSettle(w)
       PROVE  Effect
  BY <1>16, FinishStateEnds DEF PollSettle, FinalStatus, Reason, Effect, Quiet
<1>17. ASSUME NEW w \in WatchId, PollApply(w)
       PROVE  Effect
  <2> DEFINE x == Answered(watch[w], worker[w])
             y == [x EXCEPT !.failures = 0]
  <2>1. CASE ~Live(w)
    BY <1>17, <2>1 DEF PollApply, Effect, Quiet
  <2>2. CASE Live(w)
    <3>1. /\ watch[w] \in Watch
          /\ watch[w].token \in Token /\ watch[w].status = "WATCHING" /\ watch[w].reason = "NONE"
      BY <2>2, LiveIsWatching
    <3>2. worker[w].review \in ReviewStatus /\ worker[w].trigger \in Nat
      BY <1>17 DEF PollApply, TypeOK, Worker
    <3>3. x \in Watch /\ x.key = watch[w].key
      BY <3>1, <3>2 DEF Answered, Watch
    <3>4. y \in Watch /\ Continues(w, y)
      BY <2>2, <3>1, <3>2 DEF Answered, Continues, Watch, Live
    <3>5. /\ \/ Finish(w, x, "RATE_LIMITED", "NONE", FALSE)
             \/ x.review \in FinalReview /\ Finish(w, x, x.review, "NONE", FALSE)
             \/ Record(w, y, StatusChanged(watch[w].review, x.review))
          /\ UNCHANGED latest
      BY <1>17, <2>2 DEF PollApply
    <3>6. StatusChanged(watch[w].review, x.review) \in BOOLEAN
      BY DEF StatusChanged
    <3> HIDE DEF x, y
    <3>7. CASE Finish(w, x, "RATE_LIMITED", "NONE", FALSE)
      BY <2>2, <3>3, <3>5, <3>7, FinishEnds DEF FinalStatus, Reason, Effect
    <3>8. CASE x.review \in FinalReview /\ Finish(w, x, x.review, "NONE", FALSE)
      <4>1. x.review \in FinalStatus /\ x.review # "FAILED"
        BY <3>8 DEF FinalReview, FinalStatus
      <4> QED
        BY <2>2, <3>3, <3>5, <3>8, <4>1, FinishEnds DEF Reason, Effect
    <3>9. CASE Record(w, y, StatusChanged(watch[w].review, x.review))
      BY <3>4, <3>5, <3>6, <3>9, RecordPolls DEF Effect
    <3> QED
      BY <3>5, <3>7, <3>8, <3>9
  <2> QED
    BY <2>1, <2>2
<1>18. ASSUME NEW w \in WatchId, WorkerPanic(w)
       PROVE  Effect
  BY <1>18, FinishStateEnds DEF WorkerPanic, FinalStatus, Reason, Effect
<1>19. ASSUME NEW w \in WatchId, WorkerTick(w) \/ WorkerDone(w)
       PROVE  Effect
  BY <1>19 DEF WorkerTick, WorkerDone, memory, disk, bounds, Effect, Quiet
<1>20. ASSUME NEW w \in WatchId, Notify(w)
       PROVE  Effect
  BY <1>20 DEF Notify, memory, disk, bounds, Effect, Quiet
<1>21. CASE UNCHANGED vars
  BY <1>21 DEF vars, memory, disk, bounds, Effect, Quiet
<1>22. ASSUME NEW c \in Caller, CallerStep(c)
       PROVE  Effect
  <2>1. ASSUME NEW login \in Login, NEW w \in WatchId, CancelByID(c, login, w)
        PROVE  Effect
    BY <2>1, <1>5 DEF CancelByID
  <2>2. ASSUME NEW k \in Key, CancelLatest(c, k)
        PROVE  Effect
    <3>1. active[k] \in WatchId /\ CancelLocked(c, active[k])
      BY <2>2 DEF CancelLatest, TypeOK
    <3> QED
      BY <3>1, <1>5
  <2> QED
    BY <1>22, <1>1, <1>2, <1>3, <1>4, <2>1, <2>2, <1>6, <1>7, <1>8, <1>9 DEF CallerStep
<1>23. ASSUME NEW w \in WatchId, WorkerStep(w)
       PROVE  Effect
  BY <1>23, <1>10, <1>11, <1>12, <1>13, <1>14, <1>15, <1>16, <1>17, <1>18, <1>19 DEF WorkerStep
<1> QED
  BY <1>20, <1>21, <1>22, <1>23 DEF Next, Effect

-----------------------------------------------------------------------------
(* What the effects preserve.                                              *)

LEMMA EffectOnWatch ==
  ASSUME WellFormed, Effect
  PROVE  watch' \in [WatchId -> Watch \cup {NoWatch}]
<1> USE DEF WellFormed, TypeOK
<1>1. CASE Quiet
  BY <1>1 DEF Quiet
<1>2. CASE Ends
  BY <1>2, DegradedType DEF Ends, Store
<1>3. CASE Polls
  BY <1>3, DegradedType DEF Polls
<1>4. CASE Reuses
  BY <1>4 DEF Reuses
<1>5. CASE Creates
  BY <1>5 DEF Creates
<1>6. CASE Fails
  BY <1>6 DEF Fails
<1>7. CASE Close
  <2> DEFINE C(x) == [x EXCEPT !.status = "STALE", !.terminal = TRUE, !.token = NoToken]
  <2>1. \A w \in WatchId : Live(w) => watch[w] \in Watch
    BY LoadedType DEF Live
  <2>2. \A x \in Watch : C(x) \in Watch /\ Degraded(C(x)) \in Watch
    <3>1. \A x \in Watch : C(x) \in Watch
      BY DEF Watch, Status, FinalStatus
    <3> QED
      BY <3>1, DegradedType
  <2>3. ASSUME NEW w \in WatchId
        PROVE  \/ watch'[w] = watch[w]
               \/ Live(w) /\ watch'[w] \in {C(watch[w]), Degraded(C(watch[w]))}
    <3> DEFINE stopped == {v \in WatchId : Live(v) /\ active[watch[v].key] = v}
    <3>1. PICK failed \in SUBSET stopped :
            watch' = [v \in WatchId |-> IF v \in failed THEN Degraded(C(watch[v]))
                                        ELSE IF v \in stopped THEN C(watch[v]) ELSE watch[v]]
      BY <1>7 DEF Close
    <3> HIDE DEF C
    <3> QED
      BY <3>1
  <2>4. watch' = [w \in WatchId |-> watch'[w]]
    BY <1>7 DEF Close
  <2> HIDE DEF C
  <2>5. \A w \in WatchId : watch'[w] \in Watch \cup {NoWatch}
    BY <2>1, <2>2, <2>3
  <2> QED
    BY <2>4, <2>5
<1>8. CASE Restart
  BY <1>8 DEF Restart
<1> QED
  BY <1>1, <1>2, <1>3, <1>4, <1>5, <1>6, <1>7, <1>8 DEF Effect

LEMMA EffectOnIndexes ==
  ASSUME WellFormed, Effect
  PROVE  /\ active' \in [Key -> WatchId \cup {NoId}]
         /\ latest' \in [Key -> WatchId \cup {NoId}]
<1>0. active \in [Key -> WatchId \cup {NoId}] /\ latest \in [Key -> WatchId \cup {NoId}]
  BY DEF WellFormed, TypeOK
<1>1. CASE Quiet \/ Reuses
  <2>1. UNCHANGED <<active, latest>>
    BY <1>1, Zenon DEF Quiet, Reuses
  <2> QED
    BY <2>1, <1>0
<1>2. CASE Ends \/ Polls
  <2>1. latest' = latest /\ (active' = active \/ \E w \in WatchId : Release(w))
    BY <1>2, Zenon DEF Ends, Polls
  <2> QED
    BY <1>0, <2>1 DEF Release
<1>3. CASE Creates
  <2>1. PICK w \in WatchId, k \in Key : Register(k, w)
    BY <1>3 DEF Creates
  <2> QED
    BY <1>0, <2>1 DEF Register
<1>4. CASE Fails
  BY <1>0, <1>4 DEF Fails
<1>5. CASE Close
  BY <1>0, <1>5 DEF Close
<1>6. CASE Restart
  BY <1>6 DEF Restart
<1> QED
  BY <1>1, <1>2, <1>3, <1>4, <1>5, <1>6 DEF Effect

LEMMA EffectOnRow ==
  ASSUME WellFormed, Effect
  PROVE  row' \in [WatchId -> Row \cup {NoRow}] /\ faults' \in Nat
<1> USE DEF WellFormed
<1>1. CASE Quiet \/ Fails
  BY <1>1 DEF Quiet, Fails, TypeOK
<1>2. CASE Ends \/ Polls \/ Creates
  BY <1>2, WriteType DEF Ends, Store, Polls, Creates
<1>3. CASE Reuses
  BY <1>3, WriteType DEF Reuses, TypeOK
<1>4. CASE Close
  <2> DEFINE C(x) == [x EXCEPT !.status = "STALE", !.terminal = TRUE, !.token = NoToken]
  <2>1. ASSUME NEW w \in WatchId, Live(w)
        PROVE  RowOf(C(watch[w])) \in Row
    <3>1. C(watch[w]) \in Watch
      BY <2>1, LoadedType DEF Live, Watch, Status, FinalStatus
    <3> QED
      BY <3>1, RowOfType
  <2>2. \A w \in WatchId : \/ row'[w] = row[w]
                           \/ Live(w) /\ row'[w] = RowOf(C(watch[w]))
    BY <1>4 DEF Close
  <2>3. row' = [w \in WatchId |-> row'[w]]
    BY <1>4 DEF Close
  <2>4. faults' \in Nat
    <3>1. PICK failed \in SUBSET WatchId : faults' = faults + Cardinality(failed)
      BY <1>4 DEF Close
    <3>2. IsFiniteSet(failed)
      <4>1. IsFiniteSet(WatchId)
        BY FS_Interval, BoundsAssumption DEF WatchId
      <4> QED
        BY <4>1, FS_Subset
    <3> QED
      BY <3>1, <3>2, FS_CardinalityType DEF TypeOK
  <2> HIDE DEF C
  <2> QED
    BY <2>1, <2>2, <2>3, <2>4 DEF TypeOK
<1>5. CASE Restart
  <2>1. \A r \in Row \cup {NoRow} : MarkStale(r) \in Row \cup {NoRow}
    BY DEF MarkStale, Row, Status, FinalStatus, Reason
  <2> QED
    BY <1>5, <2>1 DEF Restart, TypeOK
<1> QED
  BY <1>1, <1>2, <1>3, <1>4, <1>5 DEF Effect

\* Only a restart forgets a watch.
LEMMA EffectKeepsLoaded ==
  ASSUME WellFormed, Effect
  PROVE  Restart \/ \A w \in WatchId : Loaded(w) => Loaded(w)'
<1>1. CASE Quiet \/ Fails
  BY <1>1 DEF Quiet, Fails, Loaded
<1>2. CASE Ends \/ Polls \/ Reuses \/ Creates
  BY <1>2, DegradedType, WatchIsThere
     DEF Ends, Store, Polls, Reuses, Creates, WellFormed, TypeOK, Loaded
<1>3. CASE Close
  <2>1. \A w \in WatchId : \/ watch'[w] = watch[w]
                           \/ DOMAIN watch'[w] = DOMAIN watch[w] /\ Live(w)
    BY <1>3 DEF Close, Degraded
  <2>2. \A w \in WatchId : Live(w) => DOMAIN watch[w] # DOMAIN NoWatch
    BY LoadedType DEF WellFormed, Live, Watch, NoWatch
  <2> QED
    BY <2>1, <2>2 DEF Loaded
<1> QED
  BY <1>1, <1>2, <1>3 DEF Effect

\* The status, the terminal flag, the failure reason and the credentials go
\* together in what every effect makes of a watch.
LEMMA EffectIsConsistent ==
  ASSUME WellFormed, Effect
  PROVE  EndIsConsistent'
<1> USE DEF WellFormed
<1> DEFINE Good(x) == /\ x.terminal <=> x.status \in FinalStatus
                      /\ x.terminal <=> x.token = NoToken
                      /\ x.status = "FAILED" <=> x.reason # "NONE"
<1>1. \A w \in WatchId : Loaded(w) => Good(watch[w])
  BY DEF EndIsConsistent
<1>3. ASSUME NEW x \in Watch
      PROVE  Good(Degraded(x))
  BY DEF Degraded, Watch, FinalStatus
<1>4. SUFFICES \A w \in WatchId : Loaded(w)' => Good(watch'[w])
  BY DEF EndIsConsistent
<1>5. CASE Quiet \/ Fails
  BY <1>1, <1>5 DEF Quiet, Fails, Loaded
<1>6. CASE Ends
  BY <1>1, <1>3, <1>6 DEF Ends, Store, TypeOK, Loaded
<1>7. ASSUME NEW w \in WatchId, NEW x \in Watch, Continues(w, x)
      PROVE  Good(x)
  BY <1>7, LiveIsWatching, TokenAssumption DEF Continues, FinalStatus
<1>8. CASE Polls
  BY <1>1, <1>3, <1>7, <1>8 DEF Polls, TypeOK, Loaded
<1>9. CASE Reuses
  BY <1>1, <1>7, <1>9 DEF Reuses, TypeOK, Loaded
<1>10. CASE Creates
  <2>1. ASSUME NEW x \in Watch, ~x.terminal, x.token \in Token,
               x.status = "WATCHING", x.reason = "NONE"
        PROVE  Good(x)
    BY <2>1, TokenAssumption DEF FinalStatus
  <2> HIDE DEF Good
  <2> QED
    BY <1>1, <2>1, <1>10 DEF Creates, TypeOK, Loaded
<1>11. CASE Close
  <2> DEFINE C(x) == [x EXCEPT !.status = "STALE", !.terminal = TRUE, !.token = NoToken]
  <2>1. \A w \in WatchId : \/ watch'[w] = watch[w]
                           \/ Live(w) /\ watch'[w] \in {C(watch[w]), Degraded(C(watch[w]))}
    BY <1>11 DEF Close
  <2>2. ASSUME NEW w \in WatchId, Live(w)
        PROVE  Good(C(watch[w])) /\ C(watch[w]) \in Watch
    BY <2>2, LiveIsWatching DEF FinalStatus, Watch, Status
  <2> HIDE DEF C, Good
  <2> QED
    BY <1>1, <1>3, <2>1, <2>2 DEF Loaded
<1>12. CASE Restart
  BY <1>12 DEF Restart, Loaded
<1> QED
  BY <1>5, <1>6, <1>8, <1>9, <1>10, <1>11, <1>12 DEF Effect

-----------------------------------------------------------------------------
(* The rest of the state: goroutines, notifications, trigger_log.          *)

GoroutinesOK ==
  /\ closed \in BOOLEAN
  /\ worker \in [WatchId -> Worker]
  /\ call \in [Caller -> Call]
  /\ notify \subseteq WatchId
  /\ seen \in [WatchId -> Seen \cup {NoWatch}]
  /\ restarts \in Nat
  /\ IsLog(triggerLog, PR, RequestTime)

LEMMA AtType ==
  ASSUME NEW pc \in {"none", "poll", "wait", "done"}
  PROVE  At(pc) \in Worker
  BY DEF At, Worker

LEMMA ViewType ==
  ASSUME NEW x \in Watch
  PROVE  View(x) \in Seen
  BY DEF View, Seen, Watch

\* What finishing or recording a watch does to goroutines and notifications.
LEMMA FinishStateOnGoroutines ==
  ASSUME NEW w \in WatchId, NEW status, NEW reason, NEW hint,
         FinishState(w, status, reason, hint)
  PROVE  /\ worker' = [worker EXCEPT ![w] = At("done")]
         /\ notify' \subseteq notify \cup {w}
  BY DEF FinishState, Stop, Goto, Finish, Announce

LEMMA RecordOnGoroutines ==
  ASSUME NEW w \in WatchId, NEW x, NEW tell, Record(w, x, tell)
  PROVE  /\ \E pc \in {"wait", "done"} : worker' = [worker EXCEPT ![w] = At(pc)]
         /\ notify' \subseteq notify \cup {w}
  BY DEF Record, Stop, Goto, Announce

\* The worker of w takes a step to a state of type Worker, and at most w is
\* announced.
WorkerMoves(w) ==
  /\ worker[w].pc # "none"
  /\ \E s \in Worker : worker' = [worker EXCEPT ![w] = s]
  /\ notify' \subseteq notify \cup {w}

LEMMA FinishStateMoves ==
  ASSUME NEW w \in WatchId, NEW status, NEW reason, NEW hint,
         worker[w].pc # "none", FinishState(w, status, reason, hint)
  PROVE  WorkerMoves(w)
  BY FinishStateOnGoroutines, AtType DEF WorkerMoves

LEMMA RecordMoves ==
  ASSUME NEW w \in WatchId, NEW x, NEW tell,
         worker[w].pc # "none", Record(w, x, tell)
  PROVE  WorkerMoves(w)
<1>1. PICK pc \in {"wait", "done"} : worker' = [worker EXCEPT ![w] = At(pc)]
  BY RecordOnGoroutines
<1>2. At(pc) \in Worker
  BY AtType
<1> QED
  BY <1>1, <1>2, RecordOnGoroutines DEF WorkerMoves

LEMMA StopMoves ==
  ASSUME NEW w \in WatchId, worker[w].pc # "none", Stop(w),
         \/ UNCHANGED notify
         \/ \E x, status, reason, hint : Finish(w, x, status, reason, hint)
  PROVE  WorkerMoves(w)
  BY AtType DEF Stop, Goto, Finish, Announce, WorkerMoves

LEMMA WorkerStepMoves ==
  ASSUME WellFormed, NEW w \in WatchId, WorkerStep(w)
  PROVE  /\ WorkerMoves(w)
         /\ IsLog(triggerLog', PR, RequestTime)
         /\ UNCHANGED <<closed, call, seen, restarts>>
<1> USE DEF WellFormed, memory, disk, bounds, events
<1>a. IsLog(triggerLog, PR, RequestTime)
  BY DEF TypeOK, IsLog
<1>1. CASE PollExpire(w)
  BY <1>1, <1>a, FinishStateMoves DEF PollExpire
<1>2. CASE PollBegin(w)
  <2>1. CASE NoClient(w)
    BY <1>2, <2>1, <1>a, FinishStateMoves DEF PollBegin
  <2>2. CASE ~NoClient(w)
    <3>1. watch[w] \in Watch
      BY <1>2, LoadedType DEF PollBegin, WorkersAreLoaded
    <3>2. [pc |-> "fetch", token |-> watch[w].token] \in Worker
      BY <2>2, <3>1 DEF NoClient, Watch, Worker
    <3> QED
      BY <1>2, <1>a, <2>2, <3>2 DEF PollBegin, WorkerMoves
  <2> QED
    BY <2>1, <2>2
<1>3. CASE PollCancelled(w) \/ WorkerTick(w) \/ WorkerDone(w)
  BY <1>3, <1>a, AtType DEF PollCancelled, WorkerTick, WorkerDone, Stop, Goto, WorkerMoves
<1>4. CASE PollError(w)
  BY <1>4, <1>a, FinishStateMoves DEF PollError
<1>5. CASE PollUpstreamFailure(w)
  <2>1. worker[w].pc # "none"
    BY <1>5 DEF PollUpstreamFailure
  <2>2. \/ /\ Stop(w)
           /\ \/ UNCHANGED notify
              \/ \E x, status, reason, hint : Finish(w, x, status, reason, hint)
        \/ \E x, tell : Record(w, x, tell)
    BY <1>5, Zenon DEF PollUpstreamFailure
  <2>3. WorkerMoves(w)
    BY <2>1, <2>2, RecordMoves, StopMoves
  <2> QED
    BY <1>5, <1>a, <2>3 DEF PollUpstreamFailure
<1>6. CASE PollAnswer(w)
  <2>1. ASSUME NEW review \in ReviewStatus, NEW low \in BOOLEAN,
               NEW t \in LatestIds(triggerLog, PROf(watch[w].key))
        PROVE  [pc |-> PhaseAfter(review, low, t),
                review |-> review, low |-> low, trigger |-> t] \in Worker
    <3>1. t \in Nat
      BY <1>a, LatestIdsType
    <3> QED
      BY <3>1 DEF PhaseAfter, Worker
  <2> QED
    BY <1>6, <1>a, <2>1, FinishStateMoves DEF PollAnswer, WorkerMoves
<1>7. CASE PollSettle(w)
  <2>1. [worker[w] EXCEPT !.pc = "apply"] \in Worker
    BY <1>7 DEF PollSettle, TypeOK, Worker
  <2>2. UNCHANGED <<closed, call, seen, restarts>> /\ worker[w].pc # "none"
    BY <1>7 DEF PollSettle
  <2>3. CASE /\ triggerLog' = UpdateCompletedAt(triggerLog, worker[w].trigger)
             /\ worker' = [worker EXCEPT ![w].pc = "apply"]
             /\ UNCHANGED notify
    BY <1>a, <2>1, <2>2, <2>3, UpdateCompletedAtType DEF WorkerMoves
  <2>4. CASE /\ FinishState(w, "FAILED", "INTERNAL_ERROR", FALSE)
             /\ UNCHANGED triggerLog
    BY <1>a, <2>2, <2>4, FinishStateMoves
  <2> QED
    BY <1>7, <2>3, <2>4 DEF PollSettle
<1>8. CASE PollApply(w)
  <2>1. worker[w].pc # "none"
    BY <1>8 DEF PollApply
  <2>2. \/ /\ Stop(w)
           /\ \/ UNCHANGED notify
              \/ \E x, status, reason, hint : Finish(w, x, status, reason, hint)
        \/ \E x, tell : Record(w, x, tell)
    BY <1>8, Zenon DEF PollApply
  <2>3. WorkerMoves(w)
    BY <2>1, <2>2, RecordMoves, StopMoves
  <2> QED
    BY <1>8, <1>a, <2>3 DEF PollApply
<1>9. CASE WorkerPanic(w)
  BY <1>9, <1>a, FinishStateMoves DEF WorkerPanic
<1> QED
  BY <1>1, <1>2, <1>3, <1>4, <1>5, <1>6, <1>7, <1>8, <1>9 DEF WorkerStep

LEMMA NoIdle ==
  ASSUME NEW c \in Caller, call \in [Caller -> Call]
  PROVE  /\ call[c].op = "start" => /\ call[c].key \in Key
                                    /\ call[c].token \in Token
                                    /\ call[c].trigger \in Nat
         /\ call[c].op = "request" => call[c].pr \in PR
  BY DEF Call, Idle

LEMMA CallerStepOnGoroutines ==
  ASSUME WellFormed, NEW c \in Caller, CallerStep(c)
  PROVE  /\ call' \in [Caller -> Call]
         /\ IsLog(triggerLog', PR, RequestTime)
         /\ seen' \in [WatchId -> Seen \cup {NoWatch}]
         /\ \/ UNCHANGED worker
            \/ \E w \in WatchId : Loaded(w)' /\ worker' = [worker EXCEPT ![w] = At("poll")]
         /\ \/ UNCHANGED notify
            \/ \E w \in WatchId : Loaded(w) /\ notify' \subseteq notify \cup {w}
         /\ UNCHANGED <<closed, restarts>>
<1> USE DEF WellFormed, memory, disk, bounds, events
<1> Idle \in Call
  BY DEF Call
<1> TypeOK
  OBVIOUS
<1>a. IsLog(triggerLog, PR, RequestTime)
  BY DEF TypeOK, IsLog
<1>b. /\ call \in [Caller -> Call]
      /\ seen \in [WatchId -> Seen \cup {NoWatch}]
  BY DEF TypeOK
<1>1. ASSUME NEW k \in Key, NEW tok \in Token, StartRead(c, k, tok)
      PROVE  call' \in [Caller -> Call]
  <2>1. PICK t \in LatestIds(triggerLog, PROf(k)) :
          call' = [call EXCEPT ![c] =
                    [op |-> "start", key |-> k, token |-> tok, trigger |-> t]]
    BY <1>1 DEF StartRead
  <2>2. t \in Nat
    BY <1>a, LatestIdsType
  <2> QED
    BY <1>b, <2>1, <2>2 DEF Call
<1>2. CASE \E k \in Key, tok \in Token : StartRead(c, k, tok)
  BY <1>1, <1>2, <1>a, <1>b DEF StartRead
<1>3. CASE StartRefused(c) \/ RequestAbandon(c)
  BY <1>3, <1>a, <1>b DEF StartRefused, RequestAbandon
<1>4. CASE StartReuse(c)
  BY <1>4, <1>a, <1>b DEF StartReuse
<1>5. ASSUME NEW w \in WatchId, StartNew(c, w)
      PROVE  /\ call' \in [Caller -> Call]
             /\ IsLog(triggerLog', PR, RequestTime)
             /\ UNCHANGED <<notify, closed, restarts>>
             /\ \/ UNCHANGED <<worker, seen>>
                \/ /\ worker' = [worker EXCEPT ![w] = At("poll")]
                   /\ Loaded(w)'
                   /\ seen' \in [WatchId -> Seen \cup {NoWatch}]
  <2> DEFINE x == NewWatch(call[c])
  <2>1. x \in Watch
    BY <1>5, <1>b, NoIdle DEF StartNew, NewWatch, Watch, Status, Reason
  <2>2. View(x) \in Seen /\ x # NoWatch
    BY <2>1, ViewType, WatchIsThere
  <2>3. /\ call' = [call EXCEPT ![c] = Idle]
        /\ UNCHANGED <<closed, notify, triggerLog, restarts>>
        /\ \/ /\ watch' = [watch EXCEPT ![w] = x]
              /\ worker' = [worker EXCEPT ![w] = At("poll")]
              /\ seen' = [seen EXCEPT ![w] = IF Notifies THEN View(x) ELSE seen[w]]
           \/ UNCHANGED <<worker, seen>>
    BY <1>5 DEF StartNew
  <2> HIDE DEF x
  <2>4. ASSUME watch' = [watch EXCEPT ![w] = x]
        PROVE  Loaded(w)'
    BY <2>2, <2>4 DEF TypeOK, Loaded
  <2> QED
    BY <1>a, <1>b, <2>2, <2>3, <2>4
<1>6. CASE \E w \in WatchId : StartNew(c, w)
  BY <1>5, <1>6, <1>b
<1>7. ASSUME NEW w \in WatchId, CancelLocked(c, w)
      PROVE  /\ call' \in [Caller -> Call]
             /\ Loaded(w) /\ notify' \subseteq notify \cup {w}
             /\ UNCHANGED <<closed, worker, seen, triggerLog, restarts>>
  <2>1. watch[w] \in Watch
    BY <1>7, LoadedType DEF CancelLocked, Live
  <2>2. AfterCancel(w) \in Call
    BY <2>1 DEF AfterCancel, Call, Watch
  <2> QED
    BY <1>7, <1>b, <2>2 DEF CancelLocked, Live, Finish, Announce
<1>8. CASE \E login \in Login, w \in WatchId : CancelByID(c, login, w)
  BY <1>7, <1>8, <1>a, <1>b DEF CancelByID
<1>9. CASE \E k \in Key : CancelLatest(c, k)
  <2>1. PICK k \in Key : CancelLatest(c, k)
    BY <1>9
  <2>2. active[k] \in WatchId /\ CancelLocked(c, active[k])
    BY <2>1 DEF CancelLatest, TypeOK
  <2> QED
    BY <1>7, <2>2, <1>a, <1>b
<1>10. CASE CancelTrigger(c)
  BY <1>10, <1>a, <1>b, UpdateCompletedAtType DEF CancelTrigger
<1>11. CASE \E pr \in PR : RequestGuard(c, pr)
  BY <1>11, <1>a, <1>b DEF RequestGuard, Call
<1>12. CASE \E at \in RequestTime : RequestRecord(c, at)
  BY <1>12, <1>a, <1>b, NoIdle, InsertType DEF RequestRecord
<1> QED
  BY <1>2, <1>3, <1>4, <1>6, <1>8, <1>9, <1>10, <1>11, <1>12 DEF CallerStep

\* Every step leaves the goroutines well formed, each for a loaded watch.
LEMMA StepOnGoroutines ==
  ASSUME WellFormed, [Next]_vars
  PROVE  GoroutinesOK' /\ WorkersAreLoaded'
<1> USE DEF WellFormed
<1>a. GoroutinesOK
  BY DEF GoroutinesOK, TypeOK, IsLog
<1>b. Restart \/ \A w \in WatchId : Loaded(w) => Loaded(w)'
  BY StepHasEffect, EffectKeepsLoaded
<1>c. At("none") \in Worker /\ At("poll") \in Worker
  BY AtType
<1>1. ASSUME NEW c \in Caller, CallerStep(c), \A w \in WatchId : Loaded(w) => Loaded(w)'
      PROVE  GoroutinesOK' /\ WorkersAreLoaded'
  BY <1>1, <1>a, <1>c, CallerStepOnGoroutines DEF GoroutinesOK, WorkersAreLoaded
<1>2. ASSUME NEW w \in WatchId, WorkerStep(w), \A v \in WatchId : Loaded(v) => Loaded(v)'
      PROVE  GoroutinesOK' /\ WorkersAreLoaded'
  <2>1. Loaded(w)
    BY <1>2, WorkerStepMoves DEF WorkerMoves, WorkersAreLoaded
  <2> QED
    BY <1>2, <1>a, <2>1, WorkerStepMoves DEF WorkerMoves, GoroutinesOK, WorkersAreLoaded
<1>3. ASSUME NEW w \in WatchId, Notify(w)
      PROVE  GoroutinesOK' /\ WorkersAreLoaded'
  <2>1. View(watch[w]) \in Seen
    BY <1>3, LoadedType, ViewType DEF Notify, WorkersAreLoaded
  <2> QED
    BY <1>3, <1>a, <2>1
       DEF Notify, GoroutinesOK, WorkersAreLoaded, Loaded, memory, goroutines, disk, bounds
<1>4. CASE Close /\ \A w \in WatchId : Loaded(w) => Loaded(w)'
  BY <1>4, <1>a DEF Close, GoroutinesOK, WorkersAreLoaded, goroutines, events
<1>5. CASE Restart
  <2>1. Idle \in Call /\ At("none").pc = "none"
    BY DEF Call, At
  <2>2. /\ closed' = FALSE
        /\ worker' = [w \in WatchId |-> At("none")]
        /\ call' = [c \in Caller |-> Idle]
        /\ notify' = {}
        /\ seen' = [w \in WatchId |-> NoWatch]
        /\ restarts' = restarts + 1
        /\ UNCHANGED triggerLog
    BY <1>5 DEF Restart
  <2>3. WorkersAreLoaded'
    BY <2>1, <2>2 DEF WorkersAreLoaded
  <2>4. GoroutinesOK'
    <3>1. worker' \in [WatchId -> Worker] /\ call' \in [Caller -> Call]
      BY <1>c, <2>1, <2>2
    <3>2. restarts' \in Nat /\ IsLog(triggerLog', PR, RequestTime)
      BY <1>a, <2>2 DEF GoroutinesOK
    <3> QED
      BY <2>2, <3>1, <3>2 DEF GoroutinesOK
  <2> QED
    BY <2>3, <2>4
<1>6. CASE UNCHANGED vars
  BY <1>6, <1>a DEF vars, memory, goroutines, events, disk, bounds,
                    GoroutinesOK, WorkersAreLoaded, Loaded
<1> QED
  BY <1>b, <1>1, <1>2, <1>3, <1>4, <1>5, <1>6 DEF Next

-----------------------------------------------------------------------------
(* The theorems.                                                           *)

LEMMA InitIsWellFormed == Init => WellFormed
<1> SUFFICES ASSUME Init PROVE WellFormed
  OBVIOUS
<1>1. At("none") \in Worker /\ At("none").pc = "none" /\ Idle \in Call
  BY AtType DEF At, Call
<1>2. TypeOK
  BY <1>1 DEF Init, TypeOK
<1>3. IsFiniteSet(triggerLog)
  BY FS_EmptySet DEF Init
<1>4. WorkersAreLoaded /\ EndIsConsistent
  BY <1>1 DEF Init, WorkersAreLoaded, EndIsConsistent, Loaded
<1> QED
  BY <1>2, <1>3, <1>4 DEF WellFormed

LEMMA StepIsWellFormed == WellFormed /\ [Next]_vars => WellFormed'
<1> SUFFICES ASSUME WellFormed, [Next]_vars PROVE WellFormed'
  OBVIOUS
<1>1. Effect
  BY StepHasEffect
<1>2. GoroutinesOK' /\ WorkersAreLoaded'
  BY StepOnGoroutines
<1>3. TypeOK'
  BY <1>1, <1>2, EffectOnWatch, EffectOnIndexes, EffectOnRow
     DEF TypeOK, GoroutinesOK, IsLog
<1> QED
  BY <1>1, <1>2, <1>3, EffectIsConsistent DEF WellFormed, GoroutinesOK, IsLog

\* The state is always well formed.
THEOREM WellFormedAlways == Spec => []WellFormed
  BY InitIsWellFormed, StepIsWellFormed, PTL DEF Spec

\* Every variable keeps its type: no worker reads a field of a watch that is
\* not there, and none talks to GitHub without a client.
THEOREM TypeCorrect == Spec => []TypeOK
<1>1. WellFormed => TypeOK
  BY DEF WellFormed
<1> QED
  BY <1>1, WellFormedAlways, PTL

\* On every path to an end, status, terminal flag, failure reason and
\* credentials change together.
THEOREM EndsAreConsistent == Spec => []EndIsConsistent
<1>1. WellFormed => EndIsConsistent
  BY DEF WellFormed
<1> QED
  BY <1>1, WellFormedAlways, PTL

-----------------------------------------------------------------------------
(* What an effect does to one watch.                                       *)

\* A live watch w becomes y, which is over, and leaves activeByKey.
Falls(w, y) ==
  /\ Live(w) /\ y \in Watch /\ y.terminal /\ y.key = watch[w].key
  /\ watch' = [watch EXCEPT ![w] = y]
  /\ \A v \in WatchId \ {w} : row'[v] = row[v]
  /\ Release(w)
  /\ UNCHANGED latest

\* A live watch w becomes x, which still is.
GoesOn(w, x) ==
  /\ Continues(w, x) /\ x \in Watch
  /\ watch' = [watch EXCEPT ![w] = x]
  /\ \A v \in WatchId \ {w} : row'[v] = row[v]
  /\ UNCHANGED <<active, latest>>

\* Ends, polls and new starts change one watch in one of these two ways.
LEMMA OneWatchChanges ==
  ASSUME WellFormed, Ends \/ Polls \/ Reuses
  PROVE  \E w \in WatchId : \E y \in Watch : Falls(w, y) \/ GoesOn(w, y)
<1>1. ASSUME NEW x \in Watch
      PROVE  Degraded(x) \in Watch /\ Degraded(x).terminal /\ Degraded(x).key = x.key
  BY DegradedType DEF Degraded, Watch
<1>2. ASSUME NEW w \in WatchId, NEW x,
             Persisted(w, x) \/ NotPersisted(w, x) \/ UNCHANGED row
      PROVE  \A v \in WatchId \ {w} : row'[v] = row[v]
  BY <1>2 DEF Persisted, NotPersisted, WellFormed, TypeOK
<1>3. CASE Ends
  BY <1>1, <1>2, <1>3 DEF Ends, Store, Falls
<1>4. CASE Polls
  BY <1>1, <1>2, <1>4 DEF Polls, Continues, Falls, GoesOn
<1>5. CASE Reuses
  BY <1>2, <1>5 DEF Reuses, GoesOn
<1> QED
  BY <1>3, <1>4, <1>5

\* Close ends the live watches of activeByKey, and empties it.
LEMMA CloseEnds ==
  ASSUME WellFormed, Close, NEW w \in WatchId
  PROVE  /\ ~(Live(w) /\ active[watch[w].key] = w) => watch'[w] = watch[w]
         /\ Live(w) /\ active[watch[w].key] = w
              => watch'[w].terminal /\ watch'[w].key = watch[w].key
<1> DEFINE C(x) == [x EXCEPT !.status = "STALE", !.terminal = TRUE, !.token = NoToken]
<1>1. /\ ~(Live(w) /\ active[watch[w].key] = w) => watch'[w] = watch[w]
      /\ Live(w) /\ active[watch[w].key] = w
           => watch'[w] \in {C(watch[w]), Degraded(C(watch[w]))}
  BY DEF Close
<1>2. ASSUME Live(w)
      PROVE  \A y \in {C(watch[w]), Degraded(C(watch[w]))} :
               y.terminal /\ y.key = watch[w].key
  <2>1. watch[w] \in Watch
    BY <1>2, LoadedType DEF WellFormed, Live
  <2> QED
    BY <2>1 DEF Watch, Degraded
<1> HIDE DEF C
<1> QED
  BY <1>1, <1>2

-----------------------------------------------------------------------------
(* One watch under way for each user and pull request.                     *)

LEMMA StepKeepsActive ==
  ASSUME WellFormed, ActiveIsLive, Effect
  PROVE  ActiveIsLive'
<1> USE DEF WellFormed
<1>1. CASE Quiet
  BY <1>1 DEF Quiet, ActiveIsLive, Live, Loaded
<1>2. ASSUME NEW w \in WatchId, NEW y \in Watch, Falls(w, y)
      PROVE  ActiveIsLive'
  BY <1>2, WatchIsThere, LoadedType
     DEF Falls, Release, ActiveIsLive, Live, Loaded, TypeOK, NoId, WatchId, Watch
<1>3. ASSUME NEW w \in WatchId, NEW x \in Watch, GoesOn(w, x)
      PROVE  ActiveIsLive'
  BY <1>3, WatchIsThere DEF GoesOn, Continues, ActiveIsLive, Live, Loaded, TypeOK, NoId
<1>4. CASE Creates
  <2>1. PICK w \in WatchId, k \in Key, x \in Watch :
          /\ ~ActiveWatch(k) /\ ~Loaded(w)
          /\ x.key = k /\ ~x.terminal
          /\ watch' = [watch EXCEPT ![w] = x] /\ Register(k, w)
    BY <1>4 DEF Creates
  <2>2. active[k] = NoId
    BY <2>1 DEF ActiveIsLive, ActiveWatch, Live
  <2> QED
    BY <2>1, <2>2, WatchIsThere, LoadedType
       DEF Register, ActiveIsLive, Live, Loaded, TypeOK, NoId, WatchId, Watch
<1>5. CASE Fails
  <2>1. PICK k \in Key : /\ ~ActiveWatch(k)
                         /\ active' = [active EXCEPT ![k] = NoId]
                         /\ UNCHANGED watch
    BY <1>5 DEF Fails
  <2>2. active[k] = NoId
    BY <2>1 DEF ActiveIsLive, ActiveWatch, Live
  <2>3. active' = active
    BY <2>1, <2>2 DEF TypeOK
  <2> QED
    BY <2>1, <2>3 DEF ActiveIsLive, Live, Loaded
<1>6. CASE Close
  <2>1. active' = [k \in Key |-> NoId]
    BY <1>6 DEF Close
  <2>2. ASSUME NEW w \in WatchId
        PROVE  ~Live(w)'
    BY <1>6, CloseEnds DEF ActiveIsLive, Live, Loaded
  <2> QED
    BY <2>1, <2>2 DEF ActiveIsLive
<1>7. CASE Restart
  BY <1>7 DEF Restart, ActiveIsLive, Live, Loaded
<1> QED
  BY <1>1, <1>2, <1>3, <1>4, <1>5, <1>6, <1>7, OneWatchChanges
     DEF Effect

\* A user has at most one watch under way for a pull request, activeByKey
\* always finds it, and finds nothing else.
THEOREM OneActiveWatch == Spec => []ActiveIsLive
<1>1. Init => ActiveIsLive
  BY DEF Init, ActiveIsLive, Live, Loaded
<1>2. WellFormed /\ ActiveIsLive /\ [Next]_vars => ActiveIsLive'
  BY StepHasEffect, StepKeepsActive
<1> QED
  BY <1>1, <1>2, WellFormedAlways, PTL DEF Spec

\* The lookup by user and pull request finds the watch under way.
THEOREM LookupIsRight == Spec => []LookupFindsActive
<1>1. Init => LookupFindsActive
  BY DEF Init, LookupFindsActive
<1>2. ASSUME WellFormed, LookupFindsActive, [Next]_vars
      PROVE  LookupFindsActive'
  <2>1. Effect
    BY <1>2, StepHasEffect
  <2>2. CASE /\ UNCHANGED latest
             /\ \/ UNCHANGED active
                \/ \E k \in Key : active' = [active EXCEPT ![k] = NoId]
    BY <1>2, <2>2 DEF LookupFindsActive, WellFormed, TypeOK
  <2>3. CASE \E k \in Key, w \in WatchId : Register(k, w)
    BY <1>2, <2>3 DEF Register, LookupFindsActive, WellFormed, TypeOK
  <2>4. CASE active' = [k \in Key |-> NoId]
    BY <2>4 DEF LookupFindsActive
  <2>5. CASE Ends \/ Polls
    <3>1. \A w \in WatchId : Live(w) => watch[w].key \in Key
      BY <1>2, LoadedType DEF WellFormed, Live, Watch
    <3> QED
      BY <2>2, <2>5, <3>1 DEF Ends, Polls, Continues, Release
  <2>6. CASE Quiet \/ Reuses \/ Fails
    BY <2>2, <2>6 DEF Quiet, Reuses, Fails
  <2>7. CASE Creates
    BY <2>3, <2>7 DEF Creates
  <2>8. CASE Close \/ Restart
    BY <2>4, <2>8 DEF Close, Restart
  <2> QED
    BY <2>1, <2>5, <2>6, <2>7, <2>8 DEF Effect
<1> QED
  BY <1>1, <1>2, WellFormedAlways, PTL DEF Spec

-----------------------------------------------------------------------------
(* The end of a watch is for ever.                                         *)

LEMMA EffectKeepsEnd ==
  ASSUME WellFormed, Effect, NEW w \in WatchId, Loaded(w), watch[w].terminal,
         restarts' = restarts
  PROVE  watch'[w] = watch[w]
<1> USE DEF WellFormed
<1>1. CASE Quiet \/ Fails
  BY <1>1 DEF Quiet, Fails
<1>2. CASE \E v \in WatchId : \E y \in Watch : Falls(v, y) \/ GoesOn(v, y)
  BY <1>2 DEF Falls, GoesOn, Continues, Live, TypeOK
<1>3. CASE Creates
  BY <1>3 DEF Creates, TypeOK
<1>4. CASE Close
  BY <1>4, CloseEnds DEF Live
<1>5. CASE Restart
  <2>1. restarts' = restarts + 1 /\ restarts \in Nat
    BY <1>5 DEF Restart, TypeOK
  <2> QED
    BY <2>1
<1> QED
  BY <1>1, <1>2, <1>3, <1>4, <1>5, OneWatchChanges DEF Effect

\* Nothing a late worker, handler or shutdown does changes a watch that is over.
THEOREM EndsAreForever == Spec => EndIsForever
<1>1. WellFormed /\ [Next]_vars =>
        [\A w \in WatchId :
           Loaded(w) /\ watch[w].terminal /\ restarts' = restarts
           => watch'[w] = watch[w]]_vars
  BY StepHasEffect, EffectKeepsEnd
<1> QED
  BY <1>1, WellFormedAlways, PTL DEF Spec, EndIsForever

-----------------------------------------------------------------------------
(* The table follows the memory.                                           *)

\* What RowFollowsWatch and UnwrittenEndIsFailure say of a watch x with row r.
Follows(x, r) ==
  /\ r # NoRow /\ r.key = x.key
  /\ ~x.terminal => r.active
  /\ r.active => r.status = "WATCHING"
  /\ ~r.active => r = RowOf(x)
  /\ x.terminal /\ r.active =>
       \/ x.status = "FAILED" /\ x.reason = "INTERNAL_ERROR"
       \/ x.status = "STALE"

TableFollows == \A w \in WatchId : Loaded(w) => Follows(watch[w], row[w])

\* A row just written follows its watch.
LEMMA WrittenFollows ==
  ASSUME NEW x \in Watch, ~x.terminal => x.status = "WATCHING"
  PROVE  Follows(x, RowOf(x))
  BY RowOfType, WatchIsThere DEF RowOf, Follows, Watch

\* The row of a live watch follows the watch it becomes when a write fails.
LEMMA DegradedFollows ==
  ASSUME NEW x \in Watch, NEW y \in Watch, NEW r,
         ~x.terminal, Follows(x, r), y.key = x.key
  PROVE  Follows(Degraded(y), r)
  BY DEF Follows, Degraded, Watch

LEMMA StepKeepsTable ==
  ASSUME WellFormed, TableFollows, Effect
  PROVE  TableFollows'
<1> USE DEF WellFormed
<1>1. CASE Quiet \/ Fails
  BY <1>1 DEF Quiet, Fails, TableFollows, Loaded
<1>2. ASSUME NEW w \in WatchId, NEW y, Follows(y, row'[w]),
             watch' = [watch EXCEPT ![w] = y],
             \A v \in WatchId \ {w} : row'[v] = row[v]
      PROVE  TableFollows'
  BY <1>2 DEF TableFollows, Loaded, TypeOK
<1>3. ASSUME NEW w \in WatchId, NEW x \in Watch, Persisted(w, x),
             ~x.terminal => x.status = "WATCHING",
             watch' = [watch EXCEPT ![w] = x]
      PROVE  TableFollows'
  <2>1. row'[w] = RowOf(x) /\ \A v \in WatchId \ {w} : row'[v] = row[v]
    BY <1>3 DEF Persisted, TypeOK
  <2> QED
    BY <1>2, <1>3, <2>1, WrittenFollows
<1>4. ASSUME NEW w \in WatchId, NEW y \in Watch, NotPersisted(w, y),
             Live(w), y.key = watch[w].key,
             watch' = [watch EXCEPT ![w] = Degraded(y)]
      PROVE  TableFollows'
  <2>1. watch[w] \in Watch /\ Follows(watch[w], row[w]) /\ ~watch[w].terminal
    BY <1>4, LoadedType DEF Live, TableFollows
  <2>2. Follows(Degraded(y), row[w]) /\ row' = row
    BY <1>4, <2>1, DegradedFollows DEF NotPersisted
  <2> QED
    BY <1>2, <1>4, <2>2
<1>5. CASE Ends
  BY <1>3, <1>4, <1>5 DEF Ends, Store
<1>6. ASSUME NEW w \in WatchId, NEW x \in Watch, Continues(w, x)
      PROVE  /\ x.status = "WATCHING" /\ Live(w) /\ x.key = watch[w].key
             /\ \A r : Follows(watch[w], r) /\ r.active => Follows(x, r)
  BY <1>6, LiveIsWatching DEF Continues, Follows, Live
<1>7. CASE Polls
  BY <1>3, <1>4, <1>6, <1>7 DEF Polls
<1>8. CASE Reuses
  <2>1. PICK w \in WatchId, x \in Watch :
          /\ Continues(w, x)
          /\ \/ Persisted(w, x)
             \/ row' = row
          /\ watch' = [watch EXCEPT ![w] = x]
    BY <1>8 DEF Reuses, NotPersisted
  <2>2. CASE Persisted(w, x)
    BY <1>3, <1>6, <2>1, <2>2
  <2>3. CASE row' = row
    <3>1. Follows(watch[w], row[w]) /\ row[w].active
      BY <1>6, <2>1 DEF Live, TableFollows, Follows
    <3>2. Follows(x, row'[w])
      BY <1>6, <2>1, <2>3, <3>1
    <3> QED
      BY <1>2, <2>1, <2>3, <3>2
  <2> QED
    BY <2>1, <2>2, <2>3
<1>9. CASE Creates
  BY <1>3, <1>9 DEF Creates
<1>10. CASE Close
  <2> DEFINE C(x) == [x EXCEPT !.status = "STALE", !.terminal = TRUE, !.token = NoToken]
  <2>1. ASSUME NEW w \in WatchId, Loaded(w)
        PROVE  Follows(watch'[w], row'[w])
    <3>1. \/ watch'[w] = watch[w] /\ row'[w] = row[w]
          \/ Live(w) /\ watch'[w] = Degraded(C(watch[w])) /\ row'[w] = row[w]
          \/ Live(w) /\ watch'[w] = C(watch[w]) /\ row'[w] = RowOf(C(watch[w]))
      BY <1>10 DEF Close
    <3>2. Follows(watch[w], row[w]) /\ watch[w] \in Watch
      BY <2>1, LoadedType DEF TableFollows
    <3>3. C(watch[w]) \in Watch /\ C(watch[w]).key = watch[w].key /\ C(watch[w]).terminal
      BY <3>2 DEF Watch, Status, FinalStatus
    <3> HIDE DEF C
    <3> QED
      BY <3>1, <3>2, <3>3, WrittenFollows, DegradedFollows DEF Live
  <2>2. \A w \in WatchId : ~Loaded(w) => ~Loaded(w)'
    BY <1>10, CloseEnds DEF Live, Loaded
  <2> QED
    BY <2>1, <2>2 DEF TableFollows
<1>11. CASE Restart
  BY <1>11 DEF Restart, TableFollows, Loaded
<1> QED
  BY <1>1, <1>5, <1>7, <1>8, <1>9, <1>10, <1>11 DEF Effect

THEOREM TableAlwaysFollows == Spec => []TableFollows
<1>1. Init => TableFollows
  BY DEF Init, TableFollows, Loaded
<1>2. WellFormed /\ TableFollows /\ [Next]_vars => TableFollows'
  BY StepHasEffect, StepKeepsTable
<1> QED
  BY <1>1, <1>2, WellFormedAlways, PTL DEF Spec

\* Whichever writes fail, a watch in memory has a row, active while the watch is
\* under way, and an inactive row tells all the watch does.
THEOREM RowsFollow == Spec => []RowFollowsWatch
<1>1. TableFollows => RowFollowsWatch
  BY DEF TableFollows, RowFollowsWatch, Follows, Live
<1> QED
  BY <1>1, TableAlwaysFollows, PTL

\* An end that could not be written is reported as a failure or as STALE.
THEOREM UnwrittenEndsAreFailures == Spec => []UnwrittenEndIsFailure
<1>1. TableFollows => UnwrittenEndIsFailure
  BY DEF TableFollows, UnwrittenEndIsFailure, Follows, Live
<1> QED
  BY <1>1, TableAlwaysFollows, PTL

LEMMA EffectKeepsInactiveRow ==
  ASSUME WellFormed, TableFollows, Effect,
         NEW w \in WatchId, row[w] # NoRow, ~row[w].active
  PROVE  row'[w] = row[w]
<1> USE DEF WellFormed
<1>1. ~Live(w)
  BY DEF Live, TableFollows, Follows
<1>2. ASSUME NEW v \in WatchId, NEW x, v # w, Persisted(v, x) \/ NotPersisted(v, x)
      PROVE  row'[w] = row[w]
  BY <1>2 DEF Persisted, NotPersisted, TypeOK
<1>3. CASE Quiet \/ Fails
  BY <1>3 DEF Quiet, Fails
<1>4. CASE Ends \/ Polls
  BY <1>1, <1>2, <1>4 DEF Ends, Store, Polls, Continues
<1>5. CASE Reuses
  BY <1>1, <1>2, <1>5 DEF Reuses, Continues
<1>6. CASE Creates
  BY <1>2, <1>6 DEF Creates
<1>7. CASE Close
  BY <1>1, <1>7 DEF Close
<1>8. CASE Restart
  BY <1>8 DEF Restart, MarkStale
<1> QED
  BY <1>3, <1>4, <1>5, <1>6, <1>7, <1>8 DEF Effect

\* An inactive row never changes, restarts included.
THEOREM RowEndsAreForever == Spec => RowEndIsForever
<1>1. WellFormed /\ TableFollows /\ [Next]_vars =>
        [\A w \in WatchId :
           row[w] # NoRow /\ ~row[w].active => row'[w] = row[w]]_vars
  BY StepHasEffect, EffectKeepsInactiveRow
<1> QED
  BY <1>1, WellFormedAlways, TableAlwaysFollows, PTL DEF Spec, RowEndIsForever
-----------------------------------------------------------------------------
(* Without failed writes the table is the memory.                          *)

\* The unique index never refuses what is written for a watch under way: an
\* active row of the same user and pull request would be that of another watch
\* under way, and activeByKey holds one.
LEMMA IndexAllowsLive ==
  ASSUME WellFormed, ActiveIsLive, RowsMirrorMemory,
         NEW w \in WatchId, NEW x \in Watch, Live(w), x.key = watch[w].key
  PROVE  IndexAllows(w, x)
<1> SUFFICES ASSUME NEW v \in WatchId \ {w},
                    row[v] # NoRow, row[v].active, row[v].key = x.key
             PROVE  FALSE
  BY DEF IndexAllows
<1>1. Loaded(v) /\ row[v] = RowOf(watch[v])
  BY DEF RowsMirrorMemory
<1>2. (row[v].active <=> ~watch[v].terminal) /\ row[v].key = watch[v].key
  <2>1. \A y : (RowOf(y).active <=> ~y.terminal) /\ RowOf(y).key = y.key
    BY Zenon DEF RowOf
  <2> QED
    BY <1>1, <2>1
<1>3. Live(v) /\ watch[v].key = watch[w].key
  BY <1>1, <1>2 DEF Live
<1> QED
  BY <1>3 DEF ActiveIsLive

\* So no write for it fails.
LEMMA LiveIsPersisted ==
  ASSUME MaxFaults = 0, WellFormed, ActiveIsLive, RowsMirrorMemory,
         NEW w \in WatchId, NEW x \in Watch, Live(w), x.key = watch[w].key
  PROVE  ~NotPersisted(w, x)
  BY IndexAllowsLive DEF NotPersisted, Fault, WellFormed, TypeOK

LEMMA StepKeepsMirror ==
  ASSUME MaxFaults = 0, WellFormed, ActiveIsLive, RowsMirrorMemory, Effect
  PROVE  RowsMirrorMemory'
<1> USE DEF WellFormed
<1>1. ASSUME NEW w \in WatchId, NEW x \in Watch, Persisted(w, x),
             watch' = [watch EXCEPT ![w] = x]
      PROVE  RowsMirrorMemory'
  <2>1. row'[w] = RowOf(x) /\ watch'[w] = x /\ x # NoWatch
    BY <1>1, WatchIsThere DEF Persisted, TypeOK
  <2>2. \A v \in WatchId \ {w} : row'[v] = row[v] /\ watch'[v] = watch[v]
    BY <1>1 DEF Persisted, TypeOK
  <2> QED
    BY <2>1, <2>2 DEF RowsMirrorMemory, Loaded
<1>2. CASE Quiet \/ Fails
  BY <1>2 DEF Quiet, Fails, RowsMirrorMemory, Loaded
<1>3. CASE Ends
  BY <1>1, <1>3, LiveIsPersisted DEF Ends, Store
<1>4. CASE Polls
  BY <1>1, <1>4, LiveIsPersisted DEF Polls, Continues
<1>5. CASE Reuses
  <2>1. PICK w \in WatchId, x \in Watch :
          /\ Continues(w, x)
          /\ \/ Persisted(w, x)
             \/ NotPersisted(w, x)
             \/ x = watch[w] /\ row' = row
          /\ watch' = [watch EXCEPT ![w] = x]
    BY <1>5, Zenon DEF Reuses
  <2>2. CASE Persisted(w, x)
    BY <1>1, <2>1, <2>2
  <2>3. CASE x = watch[w] /\ row' = row
    BY <2>1, <2>3 DEF RowsMirrorMemory, Loaded, TypeOK
  <2> QED
    BY <2>1, <2>2, <2>3, LiveIsPersisted DEF Continues
<1>6. CASE Creates
  BY <1>1, <1>6 DEF Creates
<1>7. CASE Close
  <2> DEFINE C(x) == [x EXCEPT !.status = "STALE", !.terminal = TRUE, !.token = NoToken]
             stopped == {w \in WatchId : Live(w) /\ active[watch[w].key] = w}
  <2>1. PICK failed \in SUBSET stopped :
          /\ faults + Cardinality(failed) <= MaxFaults
          /\ row' = [w \in WatchId |-> IF w \in stopped \ failed
                                       THEN RowOf(C(watch[w])) ELSE row[w]]
          /\ watch' = [w \in WatchId |-> IF w \in failed
                                         THEN Degraded(C(watch[w]))
                                         ELSE IF w \in stopped
                                         THEN C(watch[w]) ELSE watch[w]]
    BY <1>7 DEF Close
  <2>2. failed = {}
    <3>1. IsFiniteSet(failed)
      <4>1. IsFiniteSet(WatchId)
        BY BoundsAssumption, FS_Interval DEF WatchId
      <4> QED
        BY <4>1, FS_Subset
    <3>2. Cardinality(failed) \in Nat /\ faults \in Nat
      BY <3>1, FS_CardinalityType DEF TypeOK
    <3>3. Cardinality(failed) = 0
      <4>1. faults + Cardinality(failed) <= 0
        BY <2>1
      <4> HIDE DEF stopped, C
      <4> QED
        BY <3>2, <4>1
    <3> QED
      BY <3>1, <3>3, FS_EmptySet
  <2>3. \A w \in WatchId : Live(w) => C(watch[w]) # NoWatch
    <3>1. ASSUME NEW w \in WatchId, Live(w)
          PROVE  C(watch[w]) \in Watch
      <4>1. watch[w] \in Watch
        BY <3>1, LoadedType DEF Live
      <4> QED
        BY <4>1 DEF Watch, Status, FinalStatus
    <3> HIDE DEF C
    <3> QED
      BY <3>1, WatchIsThere
  <2> HIDE DEF C
  <2> QED
    BY <2>1, <2>2, <2>3 DEF RowsMirrorMemory, Loaded, Live
<1>8. CASE Restart
  <2>1. \A w \in WatchId : MarkStale(row[w]) # NoRow => ~MarkStale(row[w]).active
    BY DEF MarkStale, TypeOK, Row
  <2> QED
    BY <1>8, <2>1 DEF Restart, RowsMirrorMemory, Loaded
<1> QED
  BY <1>2, <1>3, <1>4, <1>5, <1>6, <1>7, <1>8 DEF Effect

\* When no write fails, the table and the memory of a running server are the
\* same at every step, and the rows of earlier processes are all inactive.
THEOREM TableMirrorsMemory == ASSUME MaxFaults = 0 PROVE Spec => []RowsMirrorMemory
<1>1. Init => RowsMirrorMemory
  BY DEF Init, RowsMirrorMemory, Loaded
<1>2. WellFormed /\ ActiveIsLive /\ RowsMirrorMemory /\ [Next]_vars => RowsMirrorMemory'
  BY StepHasEffect, StepKeepsMirror
<1> QED
  BY <1>1, <1>2, WellFormedAlways, OneActiveWatch, PTL DEF Spec

-----------------------------------------------------------------------------
(* The watch manager implements WatchLifecycle: what its users are told of *)
(* a watch, from memory or from the table, over restarts and whichever     *)
(* writes fail.                                                            *)

\* The rows of watches an earlier process had: none says it is under way.
PastRowsAreOver ==
  \A w \in WatchId : row[w] # NoRow =>
    /\ ~Loaded(w) => ~row[w].active
    /\ ~row[w].active => row[w].status \in FinalStatus

Good == WellFormed /\ ActiveIsLive /\ TableFollows /\ PastRowsAreOver

LEMMA StepKeepsPastRows ==
  ASSUME Good, WellFormed', TableFollows', Effect
  PROVE  PastRowsAreOver'
<1> USE DEF Good
<1>1. ASSUME NEW w \in WatchId, Loaded(w)', row'[w] # NoRow
      PROVE  ~row'[w].active => row'[w].status \in FinalStatus
  <2>1. Follows(watch'[w], row'[w])
    BY <1>1 DEF TableFollows
  <2>2. watch'[w] \in Watch
    BY <1>1 DEF WellFormed, TypeOK, Loaded
  <2> QED
    BY <1>1, <2>1, <2>2 DEF Follows, RowOf, WellFormed, EndIsConsistent, Row, Watch
<1>2. CASE ~Restart
  <2>1. ASSUME NEW w \in WatchId, ~Loaded(w)'
        PROVE  ~Loaded(w) /\ row'[w] = row[w]
    <3>1. ~Loaded(w)
      BY <1>2, <2>1, EffectKeepsLoaded
    <3>2. watch'[w] = NoWatch
      BY <2>1 DEF Loaded
    <3>a. ASSUME NEW v \in WatchId, NEW x, v # w, Persisted(v, x) \/ NotPersisted(v, x)
          PROVE  row'[w] = row[w]
      BY <3>a DEF Persisted, NotPersisted, WellFormed, TypeOK
    <3>3. CASE Quiet \/ Fails
      BY <3>1, <3>3 DEF Quiet, Fails
    <3>4. CASE Ends \/ Polls
      BY <3>1, <3>4, <3>a DEF Ends, Store, Polls, Continues, Live
    <3>5. CASE Reuses
      BY <3>1, <3>5, <3>a DEF Reuses, Continues, Live
    <3>6. CASE Creates
      <4>1. PICK v \in WatchId, x \in Watch : /\ Persisted(v, x)
                                             /\ watch' = [watch EXCEPT ![v] = x]
        BY <3>6 DEF Creates
      <4>2. v # w
        BY <3>2, <4>1, WatchIsThere DEF WellFormed, TypeOK
      <4> QED
        BY <3>1, <3>a, <4>1, <4>2
    <3>7. CASE Close
      BY <3>1, <3>7 DEF Close, Live
    <3> QED
      BY <1>2, <3>3, <3>4, <3>5, <3>6, <3>7 DEF Effect
  <2> QED
    BY <1>1, <2>1 DEF PastRowsAreOver
<1>3. CASE Restart
  <2>1. ASSUME NEW w \in WatchId, row'[w] # NoRow
        PROVE  ~row'[w].active /\ row'[w].status \in FinalStatus
    <3>1. row'[w] = MarkStale(row[w]) /\ row[w] \in Row \cup {NoRow}
      BY <1>3 DEF Restart, WellFormed, TypeOK
    <3>2. row[w] \in Row
      BY <2>1, <3>1 DEF MarkStale
    <3>3. ~row[w].active => row[w].status \in FinalStatus
      BY <3>2, WatchIsThere DEF PastRowsAreOver
    <3> QED
      BY <3>1, <3>2, <3>3, WatchIsThere DEF MarkStale, Row, FinalStatus
  <2> QED
    BY <2>1 DEF PastRowsAreOver
<1> QED
  BY <1>2, <1>3

-----------------------------------------------------------------------------
(* The refinement mapping, step by step.                                   *)

StatusNow == [w \in WatchId |-> Reported(w)]
OwnerNow == [w \in WatchId |-> OwnerOf(w)]

\* A watch is reported as under way exactly when it is.
LEMMA ReportedWatching ==
  ASSUME Good, NEW w \in WatchId
  PROVE  Reported(w) = "WATCHING" <=> Live(w)
<1> USE DEF Good
<1>1. CASE Live(w)
  BY <1>1, LiveIsWatching DEF WellFormed, Reported, Live
<1>2. CASE Loaded(w) /\ ~Live(w)
  BY <1>2 DEF Reported, Live, WellFormed, EndIsConsistent, FinalStatus
<1>3. CASE ~Loaded(w)
  BY <1>3 DEF Reported, Live, PastRowsAreOver, NoRow, FinalStatus
<1> QED
  BY <1>1, <1>2, <1>3 DEF Live

LEMMA FallIsEnd ==
  ASSUME Good, WellFormed', NEW w \in WatchId, NEW y \in Watch, Falls(w, y)
  PROVE  Lifecycle!End(w)
<1> USE DEF Good
<1>1. Loaded(w) /\ Loaded(w)' /\ watch'[w] = y
  BY WatchIsThere DEF Falls, Live, Loaded, WellFormed, TypeOK
<1>2. y.status \in FinalStatus
  BY <1>1 DEF Falls, WellFormed, EndIsConsistent
<1>3. \A v \in WatchId \ {w} : watch'[v] = watch[v] /\ row'[v] = row[v]
  BY DEF Falls, WellFormed, TypeOK
<1>4. StatusNow' = [StatusNow EXCEPT ![w] = y.status]
  BY <1>1, <1>3 DEF StatusNow, Reported, Loaded
<1>5. OwnerNow' = OwnerNow
  <2>1. y.key = watch[w].key
    BY DEF Falls
  <2> QED
    BY <1>1, <1>3, <2>1 DEF OwnerNow, OwnerOf, Loaded
<1>6. StatusNow[w] = "WATCHING"
  BY ReportedWatching DEF Falls, StatusNow
<1> QED
  BY <1>2, <1>4, <1>5, <1>6 DEF Lifecycle!End, Lifecycle!Final, FinalStatus, StatusNow, OwnerNow

LEMMA GoingOnStutters ==
  ASSUME Good, NEW w \in WatchId, NEW x \in Watch, GoesOn(w, x)
  PROVE  UNCHANGED <<StatusNow, OwnerNow>>
<1>1. Loaded(w) /\ Loaded(w)' /\ watch'[w] = x
  BY WatchIsThere DEF GoesOn, Continues, Live, Loaded, Good, WellFormed, TypeOK
<1>2. \A v \in WatchId \ {w} : watch'[v] = watch[v] /\ row'[v] = row[v]
  BY DEF GoesOn, Good, WellFormed, TypeOK
<1>3. x.key = watch[w].key /\ x.status = watch[w].status
  BY DEF GoesOn, Continues
<1> QED
  BY <1>1, <1>2, <1>3 DEF StatusNow, OwnerNow, Reported, OwnerOf, Loaded

LEMMA CreationIsBegin ==
  ASSUME Good, Creates
  PROVE  \E w \in WatchId, k \in Key : Lifecycle!Begin(w, k)
<1> USE DEF Good
<1>1. PICK w \in WatchId, k \in Key, x \in Watch :
        /\ ~ActiveWatch(k) /\ ~Loaded(w) /\ row[w] = NoRow
        /\ x.key = k /\ x.status = "WATCHING"
        /\ Persisted(w, x) /\ watch' = [watch EXCEPT ![w] = x]
  BY DEF Creates
<1>2. /\ Loaded(w)' /\ watch'[w] = x
      /\ \A v \in WatchId \ {w} : watch'[v] = watch[v] /\ row'[v] = row[v]
  BY <1>1, WatchIsThere DEF Persisted, Loaded, WellFormed, TypeOK
<1>3. StatusNow[w] = "NONE" /\ OwnerNow[w] = {}
  BY <1>1 DEF StatusNow, Reported, OwnerNow, OwnerOf, NoRow
<1>4. StatusNow' = [StatusNow EXCEPT ![w] = "WATCHING"]
  <2>1. Reported(w)' = "WATCHING"
    BY <1>1, <1>2 DEF Reported
  <2>2. \A v \in WatchId \ {w} : Reported(v)' = Reported(v)
    BY <1>2 DEF Reported, Loaded
  <2> QED
    BY <2>1, <2>2 DEF StatusNow
<1>5. OwnerNow' = [OwnerNow EXCEPT ![w] = {k}]
  BY <1>1, <1>2 DEF OwnerNow, OwnerOf, Loaded
<1>6. ASSUME NEW v \in WatchId, OwnerNow[v] = {k}
      PROVE  StatusNow[v] # "WATCHING"
  <2>1. SUFFICES ~Live(v)
    BY ReportedWatching DEF StatusNow
  <2>2. Live(v) => watch[v].key = k
    BY <1>6 DEF OwnerNow, OwnerOf, Live
  <2> QED
    BY <1>1, <2>2 DEF ActiveIsLive, ActiveWatch, NoId, WatchId, Live
<1> QED
  BY <1>3, <1>4, <1>5, <1>6 DEF Lifecycle!Begin, StatusNow, OwnerNow

LEMMA CloseIsInterrupt ==
  ASSUME Good, Close
  PROVE  Lifecycle!Interrupt
<1> USE DEF Good
<1> DEFINE C(x) == [x EXCEPT !.status = "STALE", !.terminal = TRUE, !.token = NoToken]
<1>1. ASSUME NEW w \in WatchId
      PROVE  /\ StatusNow'[w] = IF StatusNow[w] = "WATCHING" THEN "STALE" ELSE StatusNow[w]
             /\ OwnerNow'[w] = OwnerNow[w]
  <2>1. CASE Live(w)
    <3>1. watch[w] \in Watch /\ watch'[w] \in {C(watch[w]), Degraded(C(watch[w]))}
      <4>1. watch[w] \in Watch /\ active[watch[w].key] = w
        BY <2>1, LoadedType DEF WellFormed, Live, ActiveIsLive
      <4> QED
        BY <2>1, <4>1 DEF Close
    <3>2. ASSUME NEW y \in {C(watch[w]), Degraded(C(watch[w]))}
          PROVE  y \in Watch /\ y.status = "STALE" /\ y.key = watch[w].key
      <4>1. C(watch[w]) \in Watch /\ C(watch[w]).status = "STALE" /\ C(watch[w]).key = watch[w].key
        BY <3>1 DEF Watch, Status, FinalStatus
      <4>2. ASSUME NEW x \in Watch, x.status = "STALE"
            PROVE  Degraded(x) \in Watch /\ Degraded(x).status = "STALE" /\ Degraded(x).key = x.key
        BY <4>2, DegradedType DEF Degraded, Watch
      <4> HIDE DEF C
      <4> QED
        BY <4>1, <4>2
    <3>3. Loaded(w) /\ Loaded(w)'
      BY <2>1, <3>1, <3>2, WatchIsThere DEF Live, Loaded
    <3> QED
      BY <2>1, <3>1, <3>2, <3>3, ReportedWatching
         DEF StatusNow, Reported, OwnerNow, OwnerOf, Loaded
  <2>2. CASE ~Live(w)
    <3>1. watch'[w] = watch[w] /\ row'[w] = row[w]
      BY <2>2 DEF Close
    <3> QED
      BY <2>2, <3>1, ReportedWatching DEF StatusNow, Reported, OwnerNow, OwnerOf, Loaded
  <2> QED
    BY <2>1, <2>2
<1> DEFINE forgotten == {}
<1>2. StatusNow' = [w \in WatchId |-> IF StatusNow[w] = "WATCHING" \/ w \in forgotten
                                     THEN "STALE" ELSE StatusNow[w]]
  BY <1>1 DEF StatusNow
<1>3. OwnerNow' = OwnerNow
  BY <1>1 DEF OwnerNow
<1>4. forgotten \subseteq {w \in WatchId : StatusNow[w] = "FAILED"}
  OBVIOUS
<1> HIDE DEF forgotten
<1> QED
  BY <1>2, <1>3, <1>4 DEF Lifecycle!Interrupt, StatusNow, OwnerNow

\* A restart forgets how the watches ended whose end could not be written.
LEMMA RestartIsInterrupt ==
  ASSUME Good, Restart
  PROVE  Lifecycle!Interrupt
<1> USE DEF Good
<1> DEFINE forgotten == {w \in WatchId : /\ Loaded(w) /\ ~Live(w) /\ row[w].active
                                        /\ watch[w].status = "FAILED"}
<1>1. ASSUME NEW w \in WatchId
      PROVE  /\ StatusNow'[w] = IF StatusNow[w] = "WATCHING" \/ w \in forgotten
                                THEN "STALE" ELSE StatusNow[w]
             /\ OwnerNow'[w] = OwnerNow[w]
  <2>1. /\ ~Loaded(w)'
        /\ row'[w] = MarkStale(row[w]) /\ row[w] \in Row \cup {NoRow}
    BY DEF Restart, Loaded, WellFormed, TypeOK
  <2>2. StatusNow'[w] = row'[w].status
    BY <2>1 DEF StatusNow, Reported, Loaded
  <2>3. OwnerNow'[w] = IF row'[w] # NoRow THEN {row'[w].key} ELSE {}
    BY <2>1 DEF OwnerNow, OwnerOf, Loaded
  <2>4. CASE row[w] = NoRow
    <3>1. ~Loaded(w) /\ row'[w] = NoRow
      BY <2>1, <2>4 DEF TableFollows, Follows, MarkStale
    <3> QED
      BY <2>2, <2>3, <2>4, <3>1 DEF StatusNow, Reported, OwnerNow, OwnerOf, NoRow
  <2>5. CASE row[w] # NoRow /\ ~row[w].active
    <3>1. row'[w] = row[w]
      BY <2>1, <2>5 DEF MarkStale
    <3>2. Loaded(w) => row[w].key = watch[w].key /\ row[w].status = watch[w].status
      <4>1. Loaded(w) => row[w] = RowOf(watch[w])
        BY <2>5 DEF TableFollows, Follows
      <4>2. \A x : RowOf(x).key = x.key /\ RowOf(x).status = x.status
        BY DEF RowOf
      <4> QED
        BY <4>1, <4>2
    <3>3. row[w].status # "WATCHING"
      BY <2>5 DEF PastRowsAreOver, FinalStatus
    <3> QED
      BY <2>2, <2>3, <2>5, <3>1, <3>2, <3>3 DEF StatusNow, Reported, OwnerNow, OwnerOf
  <2>6. CASE row[w] # NoRow /\ row[w].active
    <3>1. /\ row'[w] # NoRow /\ row'[w].status = "STALE"
          /\ row'[w].key = row[w].key
      <4>1. row[w] \in Row /\ row'[w] = [row[w] EXCEPT !.status = "STALE",
                                                       !.reason = "NONE",
                                                       !.active = FALSE]
        BY <2>1, <2>6 DEF MarkStale
      <4> QED
        BY <4>1 DEF Row, NoRow
    <3>2. Loaded(w) /\ Follows(watch[w], row[w])
      BY <2>6 DEF PastRowsAreOver, TableFollows
    <3>3. Live(w) \/ w \in forgotten \/ watch[w].status = "STALE"
      BY <2>6, <3>2 DEF Follows, Live
    <3> QED
      BY <2>2, <2>3, <3>1, <3>2, <3>3, ReportedWatching
         DEF Follows, StatusNow, Reported, OwnerNow, OwnerOf, Live
  <2> QED
    BY <2>4, <2>5, <2>6
<1>2. forgotten \subseteq {w \in WatchId : StatusNow[w] = "FAILED"}
  BY DEF StatusNow, Reported
<1> HIDE DEF forgotten
<1>3. StatusNow' = [w \in WatchId |-> IF StatusNow[w] = "WATCHING" \/ w \in forgotten
                                     THEN "STALE" ELSE StatusNow[w]]
  BY <1>1 DEF StatusNow
<1>4. OwnerNow' = OwnerNow
  BY <1>1 DEF OwnerNow
<1> QED
  BY <1>2, <1>3, <1>4 DEF Lifecycle!Interrupt, StatusNow, OwnerNow

LEMMA InitIsLifecycleInit ==
  ASSUME Init
  PROVE  Lifecycle!Init
  BY DEF Init, Lifecycle!Init, Reported, OwnerOf, Loaded, NoRow

\* Every step of the manager is a step of the lifecycle, or changes nothing of
\* what is reported.
LEMMA StepIsLifecycleStep ==
  ASSUME Good, WellFormed', Effect
  PROVE  Lifecycle!Next \/ UNCHANGED <<StatusNow, OwnerNow>>
<1>1. CASE Quiet \/ Fails
  BY <1>1 DEF Quiet, Fails, StatusNow, OwnerNow, Reported, OwnerOf, Loaded
<1>2. CASE Ends \/ Polls \/ Reuses
  BY <1>2, OneWatchChanges, FallIsEnd, GoingOnStutters DEF Good, Lifecycle!Next
<1>3. CASE Creates
  BY <1>3, CreationIsBegin DEF Lifecycle!Next
<1>4. CASE Close
  BY <1>4, CloseIsInterrupt DEF Lifecycle!Next
<1>5. CASE Restart
  BY <1>5, RestartIsInterrupt DEF Lifecycle!Next
<1> QED
  BY <1>1, <1>2, <1>3, <1>4, <1>5 DEF Effect

\* What get_copilot_review_watch_status reports of a watch, from memory or from
\* the table, over restarts and whichever writes fail, is a life that begins
\* once, when its user has no other under way for the pull request, and ends
\* once, except that a restart turns an end that was never written into STALE.
THEOREM ManagerImplementsLifecycle == Spec => LifecycleSpec
<1>1. Init => PastRowsAreOver
  BY DEF Init, PastRowsAreOver
<1>2. Good /\ WellFormed' /\ TableFollows' /\ [Next]_vars => PastRowsAreOver'
  BY StepHasEffect, StepKeepsPastRows DEF Good
<1>3. Good /\ WellFormed' /\ [Next]_vars =>
        [Lifecycle!Next]_<<StatusNow, OwnerNow>>
  BY StepHasEffect, StepIsLifecycleStep DEF Good
<1>4. Spec => []PastRowsAreOver
  BY <1>1, <1>2, WellFormedAlways, OneActiveWatch, TableAlwaysFollows, PTL DEF Spec, Good
<1>5. Spec => [][Lifecycle!Next]_<<StatusNow, OwnerNow>>
  BY <1>3, <1>4, WellFormedAlways, OneActiveWatch, TableAlwaysFollows, PTL DEF Spec, Good
<1>6. Init => Lifecycle!Init
  BY InitIsLifecycleInit
<1> QED
  BY <1>5, <1>6, PTL DEF Spec, LifecycleSpec, Lifecycle!Spec, StatusNow, OwnerNow
=============================================================================
