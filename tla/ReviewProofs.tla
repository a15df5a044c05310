------------------------------ MODULE ReviewProofs -----------------------------
(***************************************************************************)
(* Theorems about ReviewRequest, for any number of handlers, rows, polls,  *)
(* requests from elsewhere, seconds and faults; those that need it, for    *)
(* handlers that do not overlap.                                           *)
(***************************************************************************)
EXTENDS ReviewProperties, TriggerLogProofs

\* Handlers do not overlap.
OneHandler == \A c, d \in Caller : c = d

-----------------------------------------------------------------------------
(* The invariants.                                                         *)

Requesting == {c \in Caller : call[c].op = "request"}

\* The keys of the table, and a key in store for every request under way.
TableIsKeyed ==
  /\ IsKeyed(triggerLog, {ThisPR}, Time)
  /\ Cardinality(triggerLog) + Cardinality(Requesting) <= MaxTriggers

\* Reviews are submitted one after the other, and nothing lies in the future.
GitHubIsOrdered ==
  /\ askedAt <= now
  /\ \A i \in DOMAIN reviews : reviews[i].at <= now
  /\ \A i, j \in DOMAIN reviews : i < j => reviews[i].at < reviews[j].at

\* What was read of a review is so.
Submitted(review) ==
  review # NoReview =>
    /\ review.id \in DOMAIN reviews
    /\ review.at = reviews[review.id].at
    /\ review.verdict = reviews[review.id].verdict

\* Answers are about rows that are there.
AnswersAreKnown ==
  \A c \in Caller :
    answer[c] # NoAnswer => answer[c].trigger <= Cardinality(triggerLog)

\* A request that is to be dated by a review has one, and a row that is to be
\* completed is there.
IsSound(k, log) ==
  /\ k \in Recording /\ k.pc = "insertDated" => k.review # NoReview
  /\ k \in Settling => k.trigger <= Cardinality(log)

CallsAreSound == \A c \in Caller : IsSound(call[c], triggerLog)

ReviewInv ==
  /\ TypeOK
  /\ TableIsKeyed
  /\ GitHubIsOrdered
  /\ CallsAreSound
  /\ AnswersAreKnown
  /\ AnswerIsSettled

-----------------------------------------------------------------------------
(* One handler at a time.                                                  *)

\* What a call has read or is about to do is not older than the call.
ReadingIsNew(k) ==
  /\ k.reviews <= Len(reviews)
  /\ Submitted(k.data.review)
  /\ k.data.askedAt <= now
  /\ k.op = "request" =>
       /\ \A e \in triggerLog : e.done
       /\ k.data.review # NoReview => k.reviews <= k.data.review.id
  /\ k.op # "request" =>
       \A e \in triggerLog :
         /\ k.data.review # NoReview /\ prevReview[e.id] # None
            => prevReview[e.id] <= k.data.review.id
         /\ k.data.askedAt # None => origin[e.id].at <= k.data.askedAt

RecordingIsNew(k) ==
  /\ \A e \in triggerLog : e.done
  /\ Submitted(k.review)
  /\ k.review # NoReview => k.origin.reviews <= k.review.id
  /\ k.origin.reviews <= Len(reviews)
  /\ k.origin.at <= askedAt
  /\ k.pc = "insertDated" =>
       /\ k.review # NoReview
       /\ \A e \in triggerLog : e.at < k.review.at + 1

\* The review that answers a row was submitted after it was asked for.
Answers(t) ==
  \E i \in DOMAIN reviews : i > origin[t].reviews \/ reviews[i].at >= origin[t].at

\* A row was asked for before the time it has, or it has that of the second
\* after the review that was there.
RowIsDated(id, at) ==
  /\ origin[id].at <= askedAt
  /\ prevReview[id] = None => origin[id].at <= at /\ at <= now
  /\ prevReview[id] # None =>
       /\ origin[id].reviews <= prevReview[id]
       /\ prevReview[id] \in DOMAIN reviews
       /\ at = reviews[prevReview[id]].at + 1

RowsAreDated == \A e \in triggerLog : RowIsDated(e.id, e.at)

SettlingIsNew(k) ==
  /\ Answers(k.trigger)
  /\ \A e \in triggerLog : e.id = k.trigger => e.at <= now

CallIsNew(k) ==
  /\ k \in Reading => ReadingIsNew(k)
  /\ k \in Recording => RecordingIsNew(k)
  /\ k \in Settling => SettlingIsNew(k)

CallsAreNew == \A c \in Caller : CallIsNew(call[c])

SettledAreRows == \A t \in settled : t <= Cardinality(triggerLog)

HandlerInv ==
  /\ OnePending
  /\ RowsAreDated
  /\ CallsAreNew
  /\ SettledAreRows
  /\ CompletedIsAnswered

\* Without cancellations a row that is done lies in the past.
DoneIsPast == \A e \in triggerLog : e.done => e.at <= now

LatestInv == DoneIsPast /\ PendingIsLatest

-----------------------------------------------------------------------------
(* What the operators return.                                              *)

LEMMA NoDataType == NoData \in Data /\ NoData.review = NoReview /\ NoData.askedAt = None
  BY DEF NoData, Data, ReviewRecord, None

LEMMA NoReviewId == NoReview.id = None
  BY DEF NoReview

\* A call with one of these pcs is of one of these kinds.
LEMMA CallKinds ==
  ASSUME NEW k \in Call
  PROVE  /\ k # Idle /\ k.pc \in {"reviewers", "reviews", "timeline", "fetched", "asleep"}
              => k \in Reading
         /\ k # Idle /\ k.pc \in {"record", "insertDated", "insertNow"} => k \in Recording
         /\ k # Idle /\ k.pc = "settle" => k \in Settling
         /\ k.op # "idle" => k # Idle
         /\ Idle \notin Reading \cup Recording \cup Settling
  BY DEF Call, Idle, Reading, Recording, Settling

LEMMA KindsApart ==
  ASSUME NEW k
  PROVE  /\ k \in Reading => k \notin Recording \cup Settling \cup {Idle}
         /\ k \in Recording => k \notin Reading \cup Settling \cup {Idle}
         /\ k \in Settling => k \notin Reading \cup Recording \cup {Idle}
<1>1. /\ k \in Reading => k.pc \in {"reviewers", "reviews", "timeline", "fetched", "asleep"}
                           /\ k.op \in {"request", "status", "wait"}
      /\ k \in Recording => k.pc \in {"record", "insertDated", "insertNow"} /\ k.op = "request"
      /\ k \in Settling => k.pc = "settle" /\ k.op \in {"status", "wait"}
  BY DEF Reading, Recording, Settling
<1>2. Idle.op = "idle"
  BY DEF Idle
<1> QED BY <1>1, <1>2

LEMMA Elements ==
  ASSUME NEW S, NEW q \in Seq(S)
  PROVE  /\ Len(q) \in Nat /\ DOMAIN q = 1..Len(q)
         /\ \A j \in 1..Len(q) : q[j] \in S
  OBVIOUS

LEMMA ReviewsType ==
  ASSUME TypeOK
  PROVE  /\ Len(reviews) \in Nat /\ DOMAIN reviews = 1..Len(reviews)
         /\ \A j \in 1..Len(reviews) :
              /\ reviews[j] \in [at : Time, verdict : Verdict]
              /\ reviews[j].at \in Time /\ reviews[j].at \in Nat
              /\ reviews[j].verdict \in Verdict
<1>1. reviews \in Seq([at : Time, verdict : Verdict])
  BY DEF TypeOK
<1> DEFINE S == [at : Time, verdict : Verdict]
<1>2. \A r \in S : r.at \in Time /\ r.at \in Nat /\ r.verdict \in Verdict
  BY DEF Time
<1> HIDE DEF S
<1>3. reviews \in Seq(S)
  BY <1>1 DEF S
<1>4. /\ Len(reviews) \in Nat /\ DOMAIN reviews = 1..Len(reviews)
      /\ \A j \in 1..Len(reviews) : reviews[j] \in S
  BY <1>3, Elements
<1> QED BY <1>2, <1>4 DEF S

\* LatestCopilotReview is the review submitted last.
LEMMA LatestReview ==
  ASSUME TypeOK, GitHubIsOrdered
  PROVE  /\ LatestCopilotReview \in ReviewRecord
         /\ Submitted(LatestCopilotReview)
         /\ LatestCopilotReview # NoReview => LatestCopilotReview.id = Len(reviews)
         /\ reviews # <<>> => LatestCopilotReview # NoReview
<1>1. CASE reviews = <<>>
  BY <1>1 DEF LatestCopilotReview, Submitted, ReviewRecord
<1>2. CASE reviews # <<>>
  <2> DEFINE n == Len(reviews)
             Last(i) == /\ i \in DOMAIN reviews
                        /\ \A j \in DOMAIN reviews :
                             \/ reviews[j].at < reviews[i].at
                             \/ reviews[j].at = reviews[i].at /\ i <= j
             i == CHOOSE i \in DOMAIN reviews :
                    \A j \in DOMAIN reviews :
                      \/ reviews[j].at < reviews[i].at
                      \/ reviews[j].at = reviews[i].at /\ i <= j
             r == [id |-> n, at |-> reviews[n].at, verdict |-> reviews[n].verdict]
  <2>1. n \in Nat \ {0} /\ DOMAIN reviews = 1..n /\ n \in DOMAIN reviews
    <3>1. reviews \in Seq([at : Time, verdict : Verdict])
      BY DEF TypeOK
    <3> QED BY <1>2, <3>1, ReviewsType
  <2>2. \A j \in 1..n : reviews[j].at \in Nat /\ reviews[j] \in [at : Time, verdict : Verdict]
    BY ReviewsType
  <2>3. Last(n)
    BY <2>1, <2>2 DEF GitHubIsOrdered
  <2>4. Last(i)
    BY <2>3
  <2>5. i = n
    <3>1. i \in 1..n /\ i # n => reviews[i].at < reviews[n].at
      BY <2>1 DEF GitHubIsOrdered
    <3> HIDE DEF i
    <3> QED BY <2>1, <2>2, <2>4, <3>1
  <2>6. LatestCopilotReview = r
    BY <1>2, <2>5 DEF LatestCopilotReview
  <2>7. r.id = n /\ r.at = reviews[n].at /\ r.verdict = reviews[n].verdict /\ n # None
    BY <2>1 DEF None
  <2>8. r # NoReview
    BY <2>7, NoReviewId
  <2>9. r \in ReviewRecord
    BY <2>1, <2>2 DEF ReviewRecord, None
  <2> HIDE DEF r, n
  <2> QED BY <2>1, <2>6, <2>7, <2>8, <2>9 DEF Submitted, n
<1> QED BY <1>1, <1>2

\* A latest row is one of the table.
LEMMA LatestIsRow ==
  ASSUME TypeOK, TableIsKeyed, NEW t \in LatestIds(triggerLog, ThisPR)
  PROVE  /\ t \in Nat /\ Cardinality(triggerLog) \in Nat
         /\ t <= Cardinality(triggerLog)
         /\ t # NoId => \E e \in triggerLog : e.id = t
         /\ Cardinality(triggerLog) <= MaxTriggers
<1>1. IsLog(triggerLog, {ThisPR}, Time) /\ Cardinality(triggerLog) \in Nat
  BY FS_CardinalityType DEF TableIsKeyed, IsKeyed, IsLog
<1>2. t \in Nat
  BY <1>1, LatestIdsType
<1>3. t # NoId => \E e \in triggerLog : e.id = t
  BY LatestIdsRow DEF RowsOf
<1>4. t <= Cardinality(triggerLog)
  BY <1>1, <1>2, <1>3 DEF TableIsKeyed, IsKeyed, NoId
<1>5. Cardinality(Requesting) \in Nat
  BY CallerAssumption, FS_Subset, FS_CardinalityType DEF Requesting
<1>6. Cardinality(triggerLog) <= MaxTriggers
  BY <1>1, <1>5, ReviewBoundsAssumption DEF TableIsKeyed
<1> QED BY <1>1, <1>2, <1>3, <1>4, <1>6

\* A final status is the verdict of a review that answers the entry.
LEMMA StatusOf ==
  ASSUME NEW data \in Data, NEW entry
  PROVE  /\ DeriveStatus(data, entry) \in Status
         /\ DeriveStatus(data, entry) \in Final
            => data.review # NoReview /\ Relevant(data, entry)
<1>1. data.review = NoReview \/ data.review.verdict \in Final
  BY VerdictAssumption DEF Data, ReviewRecord
<1> QED BY <1>1 DEF DeriveStatus, Status, Final

-----------------------------------------------------------------------------
(* Types.                                                                  *)

Base == TypeOK /\ TableIsKeyed /\ GitHubIsOrdered

GitHubStep == Tick \/ AskElsewhere \/ Withdraw \/ Work \/ Review

GitHubType ==
  /\ asked \in BOOLEAN
  /\ askedAt \in Nat /\ workAt \in Nat /\ now \in Time /\ asks \in Nat
  /\ reviews \in Seq([at : Time, verdict : Verdict])

TableType ==
  /\ triggerLog \subseteq TriggerRow({ThisPR}, Time)
  /\ prevReview \in [TriggerId -> Nat]
  /\ origin \in [TriggerId -> Origin]
  /\ settled \subseteq TriggerId

LEMMA TypeParts ==
  TypeOK <=> /\ GitHubType /\ TableType
             /\ call \in [Caller -> Call] /\ answer \in [Caller -> Answer] /\ faults \in Nat
  BY DEF TypeOK, GitHubType, TableType

\* Time goes on, and what was submitted stays.
Grows ==
  /\ now <= now' /\ askedAt <= askedAt'
  /\ Len(reviews) <= Len(reviews')
  /\ \A i \in DOMAIN reviews : i \in DOMAIN reviews' /\ reviews'[i] = reviews[i]

LEMMA Stays ==
  ASSUME TypeOK, UNCHANGED <<github, now>>
  PROVE  Grows /\ GitHubType' /\ (GitHubIsOrdered => GitHubIsOrdered')
<1>1. /\ now \in Nat /\ askedAt \in Nat /\ Len(reviews) \in Nat
      /\ now' = now /\ askedAt' = askedAt /\ reviews' = reviews
  BY ReviewsType DEF TypeOK, Time, github
<1>2. Grows /\ (GitHubIsOrdered => GitHubIsOrdered')
  BY <1>1 DEF Grows, GitHubIsOrdered
<1> QED BY <1>2 DEF TypeOK, GitHubType, github

LEMMA AskEffect ==
  ASSUME TypeOK, GitHubIsOrdered, Ask, now' = now, asks' \in Nat
  PROVE  GitHubType' /\ GitHubIsOrdered' /\ Grows /\ askedAt' \in Nat
<1>1. askedAt' \in Nat /\ askedAt <= askedAt' /\ askedAt' <= now
  BY DEF Ask, TypeOK, Time, GitHubIsOrdered
<1>2. reviews' = reviews /\ Len(reviews) \in Nat
  BY ReviewsType DEF Ask
<1>3. GitHubType'
  BY <1>1 DEF Ask, TypeOK, GitHubType
<1> QED BY <1>1, <1>2, <1>3 DEF GitHubIsOrdered, Grows, TypeOK, Time

LEMMA ReviewEffect ==
  ASSUME TypeOK, GitHubIsOrdered, Review
  PROVE  GitHubType' /\ GitHubIsOrdered' /\ Grows
<1> DEFINE n == Len(reviews)
<1>1. PICK v \in Verdict : reviews' = Append(reviews, [at |-> now + 1, verdict |-> v])
  BY DEF Review
<1>2. now \in Nat /\ askedAt \in Nat /\ now' = now + 1 /\ askedAt' = askedAt /\ now' \in Time
  BY DEF Review, TypeOK, Time, None
<1>3. reviews \in Seq([at : Time, verdict : Verdict])
  BY DEF TypeOK
<1>4. reviews' \in Seq([at : Time, verdict : Verdict])
  <2>1. [at |-> now + 1, verdict |-> v] \in [at : Time, verdict : Verdict]
    BY <1>2
  <2> QED BY <1>1, <1>3, <2>1
<1>5. /\ n \in Nat /\ DOMAIN reviews = 1..n /\ Len(reviews') = n + 1
      /\ DOMAIN reviews' = 1..(n + 1)
      /\ \A j \in 1..n : reviews'[j] = reviews[j] /\ reviews[j].at \in Nat
      /\ reviews'[n + 1].at = now + 1
  <2> DEFINE new == [at |-> now + 1, verdict |-> v]
  <2>1. new.at = now + 1
    OBVIOUS
  <2> HIDE DEF new
  <2>2. reviews' = Append(reviews, new)
    BY <1>1 DEF new
  <2>3. n \in Nat /\ DOMAIN reviews = 1..n /\ \A j \in 1..n : reviews[j].at \in Nat
    BY ReviewsType
  <2> QED BY <1>3, <2>1, <2>2, <2>3
<1>6. GitHubIsOrdered'
  BY <1>2, <1>5 DEF GitHubIsOrdered
<1>7. Grows
  BY <1>2, <1>5 DEF Grows
<1>8. GitHubType'
  BY <1>2, <1>4 DEF Review, TypeOK, GitHubType
<1> QED BY <1>6, <1>7, <1>8

LEMMA GitHubEffect ==
  ASSUME TypeOK, GitHubIsOrdered, GitHubStep
  PROVE  /\ UNCHANGED <<table, call, answer, faults>>
         /\ GitHubType' /\ GitHubIsOrdered' /\ Grows
<1>1. UNCHANGED <<table, call, answer, faults>>
  BY DEF GitHubStep, Tick, AskElsewhere, Withdraw, Work, Review
<1>2. CASE Tick
  <2>1. /\ now \in Nat /\ now' = now + 1 /\ now' \in Time /\ askedAt \in Nat
        /\ askedAt' = askedAt /\ reviews' = reviews
    BY <1>2 DEF Tick, github, TypeOK, Time, None
  <2>3. Len(reviews) \in Nat /\ \A i \in DOMAIN reviews : reviews[i].at \in Nat
    BY ReviewsType
  <2>2. GitHubType'
    BY <1>2, <2>1 DEF Tick, github, TypeOK, GitHubType
  <2> QED BY <1>1, <2>1, <2>2, <2>3 DEF GitHubIsOrdered, Grows
<1>3. CASE AskElsewhere
  <2>1. Ask /\ now' = now
    BY <1>3 DEF AskElsewhere
  <2>2. asks' \in Nat
    BY <1>3 DEF AskElsewhere, TypeOK
  <2> QED BY <1>1, <2>1, <2>2, AskEffect
<1>4. CASE Withdraw \/ Work
  <2>1. /\ now \in Nat /\ now' = now /\ askedAt \in Nat /\ askedAt' = askedAt
        /\ reviews' = reviews /\ Len(reviews) \in Nat
    BY <1>4, ReviewsType DEF Withdraw, Work, TypeOK, Time
  <2>2. GitHubType'
    BY <1>4, <2>1 DEF Withdraw, Work, TypeOK, GitHubType, Time
  <2> QED BY <1>1, <2>1, <2>2 DEF GitHubIsOrdered, Grows
<1>5. CASE Review
  BY <1>1, <1>5, ReviewEffect
<1> QED BY <1>2, <1>3, <1>4, <1>5 DEF GitHubStep

\* Steps of a call.
LEMMA SetCall ==
  ASSUME TypeOK, NEW c \in Caller, NEW k \in Call, call' = [call EXCEPT ![c] = k]
  PROVE  /\ call' \in [Caller -> Call] /\ call'[c] = k
         /\ \A d \in Caller : d # c => call'[d] = call[d]
  BY DEF TypeOK

LEMMA SetAnswer ==
  ASSUME TypeOK, NEW c \in Caller, NEW a \in Answer, Return(c, a)
  PROVE  /\ call' \in [Caller -> Call] /\ call'[c] = Idle
         /\ \A d \in Caller : d # c => call'[d] = call[d]
         /\ answer' \in [Caller -> Answer] /\ answer'[c] = a
         /\ \A d \in Caller : d # c => answer'[d] = answer[d]
<1>1. Idle \in Call
  BY DEF Call
<1> QED BY <1>1 DEF Return, TypeOK

LEMMA NoAnswerType == NoAnswer \in Answer
  BY DEF Answer

LEMMA FaultType ==
  ASSUME TypeOK, Fault \/ NoFault
  PROVE  faults' \in Nat
  BY DEF TypeOK, Fault, NoFault

LEMMA ReadingFields ==
  ASSUME NEW k \in Reading
  PROVE  /\ k.op \in {"request", "status", "wait"}
         /\ k.pc \in {"reviewers", "reviews", "timeline", "fetched", "asleep"}
         /\ k.data \in Data /\ k.polls \in 0..(MaxPolls - 1)
         /\ k.last \in Status \cup {"NONE"} /\ k.reviews \in Nat
         /\ k.data.asked \in BOOLEAN /\ k.data.review \in ReviewRecord
         /\ k.data.askedAt \in Nat /\ k.data.workAt \in Nat /\ k.data.low \in BOOLEAN
  BY DEF Reading, Data

\* A reading call goes on with what it has read.
LEMMA ReadsIs ==
  ASSUME TypeOK, NEW c \in Caller, call[c] \in Reading, NEW data \in Data,
         NEW pc \in {"reviewers", "reviews", "timeline", "fetched"}, Reads(c, data, pc)
  PROVE  \E k \in Reading :
           /\ call' = [call EXCEPT ![c] = k]
           /\ k.op = call[c].op /\ k.reviews = call[c].reviews
           /\ k.data = data /\ k.pc = pc
<1> DEFINE k == [call[c] EXCEPT !.data = data, !.pc = pc]
<1>1. k \in Reading
  BY DEF Reading
<1>2. k.op = call[c].op /\ k.reviews = call[c].reviews /\ k.data = data /\ k.pc = pc
  BY DEF Reading
<1>3. call' = [call EXCEPT ![c] = k]
  BY DEF Reads, TypeOK
<1> QED BY <1>1, <1>2, <1>3

LEMMA ReadEffect ==
  ASSUME Base, NEW c \in Caller, ReadReviewers(c) \/ ReadReviews(c) \/ ReadTimeline(c)
  PROVE  /\ call[c] \in Reading
         /\ UNCHANGED <<github, now, table, answer>> /\ faults' \in Nat
         /\ \E k \in Reading :
              /\ call' = [call EXCEPT ![c] = k]
              /\ k.op = call[c].op /\ k.reviews = call[c].reviews
              /\ k.data.review \in {call[c].data.review, LatestCopilotReview}
              /\ k.data.askedAt \in {call[c].data.askedAt, askedAt}
<1>1. call[c] \in Reading
  <2>1. call[c] \in Call
    BY DEF Base, TypeOK
  <2> QED BY <2>1, CallKinds DEF ReadReviewers, ReadReviews, ReadTimeline
<1>2. TypeOK /\ LatestCopilotReview \in ReviewRecord
  BY LatestReview DEF Base
<1>3. /\ UNCHANGED <<github, now, table, answer>> /\ faults' \in Nat
  BY <1>2, FaultType DEF ReadReviewers, ReadReviews, ReadTimeline
<1>4. \E data \in Data, pc \in {"reviewers", "reviews", "timeline", "fetched"} :
        /\ Reads(c, data, pc)
        /\ data.review \in {call[c].data.review, LatestCopilotReview}
        /\ data.askedAt \in {call[c].data.askedAt, askedAt}
  <2> DEFINE d == call[c].data
             Good(data) == /\ data \in Data
                           /\ data.review \in {d.review, LatestCopilotReview}
                           /\ data.askedAt \in {d.askedAt, askedAt}
  <2>1. d \in Data
    BY <1>1, ReadingFields
  <2>2. asked \in BOOLEAN /\ askedAt \in Nat /\ workAt \in Nat
    BY <1>2 DEF TypeOK
  <2>3. /\ Good([d EXCEPT !.asked = asked]) /\ Good([[d EXCEPT !.asked = asked] EXCEPT !.low = TRUE])
        /\ Good([d EXCEPT !.review = LatestCopilotReview])
        /\ Good([[d EXCEPT !.review = LatestCopilotReview] EXCEPT !.low = TRUE])
        /\ Good([d EXCEPT !.askedAt = askedAt, !.workAt = workAt])
        /\ Good([[d EXCEPT !.askedAt = askedAt, !.workAt = workAt] EXCEPT !.low = TRUE])
        /\ Good(d)
    BY <1>2, <2>1, <2>2 DEF Data
  <2>4. \E data, pc : /\ Good(data) /\ Reads(c, data, pc)
                     /\ pc \in {"reviewers", "reviews", "timeline", "fetched"}
    <3> HIDE DEF Good
    <3>1. CASE ReadReviewers(c)
      BY <2>3, <3>1 DEF ReadReviewers
    <3>2. CASE ReadReviews(c)
      BY <2>3, <3>2 DEF ReadReviews
    <3>3. CASE ReadTimeline(c)
      BY <2>3, <3>3 DEF ReadTimeline
    <3> QED BY <3>1, <3>2, <3>3
  <2> QED BY <2>4
<1>5. PICK data \in Data, pc \in {"reviewers", "reviews", "timeline", "fetched"} :
        /\ Reads(c, data, pc)
        /\ data.review \in {call[c].data.review, LatestCopilotReview}
        /\ data.askedAt \in {call[c].data.askedAt, askedAt}
  BY <1>4
<1>6. PICK k \in Reading :
        /\ call' = [call EXCEPT ![c] = k]
        /\ k.op = call[c].op /\ k.reviews = call[c].reviews
        /\ k.data = data /\ k.pc = pc
  BY <1>1, <1>2, <1>5, ReadsIs
<1> QED BY <1>1, <1>3, <1>5, <1>6

LEMMA BeginEffect ==
  ASSUME Base, NEW c \in Caller, NEW op \in {"request", "status", "wait"}, Begin(c, op)
  PROVE  /\ call[c] = Idle
         /\ answer' = [answer EXCEPT ![c] = NoAnswer]
         /\ \E k \in Reading :
              /\ call' = [call EXCEPT ![c] = k]
              /\ k.op = op /\ k.reviews = Len(reviews) /\ k.data = NoData
<1> DEFINE k == [op |-> op, pc |-> "reviewers", data |-> NoData, polls |-> 0,
                 last |-> "NONE", reviews |-> Len(reviews)]
<1>1. Len(reviews) \in Nat
  BY ReviewsType DEF Base
<1>2. k \in Reading
  BY <1>1, NoDataType, PollsAssumption DEF Reading
<1> QED BY <1>2 DEF Begin

LEMMA AnsweredType ==
  ASSUME NEW outcome \in Outcome, NEW status \in Status \cup {"NONE"}, NEW data \in Data,
         NEW t \in TriggerId \cup {NoId}
  PROVE  /\ Answered(outcome, status, data, t) \in Answer
         /\ Answered(outcome, status, data, t).outcome = outcome
         /\ Answered(outcome, status, data, t).status = status
         /\ Answered(outcome, status, data, t).trigger = t
<1>1. data.review \in ReviewRecord
  BY DEF Data
<1> QED BY <1>1 DEF Answered, Answer

\* A call has its answer, or sleeps before its next poll.
LEMMA ConcludeEffect ==
  ASSUME Base, NEW c \in Caller, call[c] \in Reading \cup Settling,
         NEW status \in Status, call[c] \in Settling => status \in Final,
         NEW t \in TriggerId \cup {NoId}, Conclude(c, status, t)
  PROVE  /\ faults' \in Nat
         /\ \/ \E a \in Answer : /\ Return(c, a) /\ a.trigger = t
                                 /\ a.outcome = "ANSWER" => a.status = status
            \/ /\ call[c] \in Reading /\ UNCHANGED answer
               /\ \E k \in Reading :
                    /\ call' = [call EXCEPT ![c] = k]
                    /\ k.op = call[c].op /\ k.reviews = call[c].reviews
                    /\ k.data = NoData
<1>1. faults' \in Nat
  BY FaultType DEF Conclude, Base
<1>2. call[c].data \in Data
  BY DEF Reading, Settling
<1>3. ASSUME NEW outcome \in Outcome, Return(c, Answered(outcome, status, call[c].data, t))
      PROVE  \E a \in Answer : /\ Return(c, a) /\ a.trigger = t
                               /\ a.outcome = "ANSWER" => a.status = status
  BY <1>2, <1>3, AnsweredType
<1>4. CASE call[c].op = "status" \/ status \in Final
  BY <1>1, <1>3, <1>4 DEF Conclude, Outcome
<1>5. CASE \/ Return(c, Answered("TIMEOUT", status, call[c].data, t))
           \/ Return(c, Answered("CANCELLED", status, call[c].data, t))
  BY <1>1, <1>3, <1>5 DEF Outcome
<1>6. CASE /\ call[c].op = "wait" /\ status \notin Final
           /\ PollsDone(c) < MaxPolls
           /\ call' = [call EXCEPT ![c].pc = "asleep", ![c].data = NoData,
                                   ![c].polls = PollsDone(c), ![c].last = status]
           /\ UNCHANGED answer
  <2>1. call[c] \in Reading
    BY <1>6
  <2>2. PollsDone(c) \in 0..(MaxPolls - 1)
    BY <1>6, <2>1, ReadingFields, PollsAssumption DEF PollsDone
  <2> DEFINE k == [call[c] EXCEPT !.pc = "asleep", !.data = NoData,
                                  !.polls = PollsDone(c), !.last = status]
  <2>3. k \in Reading /\ k.op = call[c].op /\ k.reviews = call[c].reviews /\ k.data = NoData
    BY <2>1, <2>2, NoDataType DEF Reading
  <2>4. call' = [call EXCEPT ![c] = k]
    BY <1>6 DEF Base, TypeOK
  <2> QED BY <1>1, <1>6, <2>1, <2>3, <2>4
<1> QED BY <1>4, <1>5, <1>6 DEF Conclude

\* Row keys are in the range that the bound allows.
LEMMA LatestType ==
  ASSUME Base, NEW t \in LatestIds(triggerLog, ThisPR)
  PROVE  /\ t \in TriggerId \cup {NoId} /\ t <= Cardinality(triggerLog)
         /\ IsPending(triggerLog, t) => t \in TriggerId
<1>1. /\ t \in Nat /\ Cardinality(triggerLog) \in Nat
      /\ t <= Cardinality(triggerLog) /\ Cardinality(triggerLog) <= MaxTriggers
  BY LatestIsRow DEF Base
<1>2. t \in 1..MaxTriggers \/ t = NoId
  BY <1>1, ReviewBoundsAssumption DEF NoId
<1>3. IsPending(triggerLog, t) => t # NoId
  BY DEF IsPending, Base, TypeOK, TriggerRow
<1> QED BY <1>1, <1>2, <1>3 DEF TriggerId

LEMMA DeriveEffect ==
  ASSUME Base, NEW c \in Caller, Derive(c)
  PROVE  /\ call[c] \in Reading /\ call[c].op \in {"status", "wait"}
         /\ UNCHANGED <<github, now, table>> /\ faults' \in Nat
         /\ \/ \E t \in LatestIds(triggerLog, ThisPR), k \in Settling :
                 /\ call' = [call EXCEPT ![c] = k] /\ UNCHANGED answer
                 /\ k.op = call[c].op /\ k.trigger = t
                 /\ IsPending(triggerLog, t)
                 /\ DeriveStatus(call[c].data, EntryOf(t)) \in Final
            \/ \E a \in Answer :
                 /\ Return(c, a) /\ a.trigger <= Cardinality(triggerLog)
                 /\ a.outcome = "ANSWER" /\ a.status \in Final
                    => ~IsPending(triggerLog, a.trigger)
            \/ /\ UNCHANGED answer
               /\ \E k \in Reading :
                    /\ call' = [call EXCEPT ![c] = k]
                    /\ k.op = call[c].op /\ k.reviews = call[c].reviews
                    /\ k.data = NoData
<1>1. call[c] \in Reading /\ call[c].op \in {"status", "wait"} /\ call[c].data \in Data
  <2>1. call[c] \in Call
    BY DEF Base, TypeOK
  <2> QED BY <2>1, CallKinds, ReadingFields DEF Derive, Fetched
<1>2. UNCHANGED <<github, now, table>>
  BY DEF Derive
<1>3. PICK t \in LatestIds(triggerLog, ThisPR) :
        LET status == DeriveStatus(call[c].data, EntryOf(t))
        IN  IF MustSettle(status, t)
            THEN /\ call' = [call EXCEPT ![c] = [op |-> @.op, pc |-> "settle",
                               data |-> @.data, status |-> status, trigger |-> t]]
                 /\ UNCHANGED <<answer, faults>>
            ELSE Conclude(c, status, t)
  BY DEF Derive
<1> DEFINE status == DeriveStatus(call[c].data, EntryOf(t))
<1>4. status \in Status
  BY <1>1, StatusOf
<1>5. /\ t \in TriggerId \cup {NoId} /\ t <= Cardinality(triggerLog)
      /\ IsPending(triggerLog, t) => t \in TriggerId
  BY LatestType
<1>6. CASE MustSettle(status, t)
  <2> DEFINE k == [op |-> call[c].op, pc |-> "settle", data |-> call[c].data,
                   status |-> status, trigger |-> t]
  <2>1. status \in Final /\ IsPending(triggerLog, t)
    BY <1>6 DEF MustSettle
  <2>2. call' = [call EXCEPT ![c] = k] /\ UNCHANGED <<answer, faults>>
    BY <1>3, <1>6
  <2>3. k \in Settling /\ k.op = call[c].op /\ k.trigger = t
    BY <1>1, <1>5, <2>1 DEF Settling
  <2>4. faults' \in Nat
    BY <2>2 DEF Base, TypeOK
  <2> QED BY <1>1, <1>2, <2>1, <2>2, <2>3, <2>4
<1>7. CASE ~MustSettle(status, t)
  <2>1. Conclude(c, status, t)
    BY <1>3, <1>7
  <2>2. status \in Final => ~IsPending(triggerLog, t)
    BY <1>7 DEF MustSettle
  <2>3. call[c] \notin Settling
    BY <1>1, KindsApart
  <2> HIDE DEF status
  <2>4. /\ faults' \in Nat
        /\ \/ \E a \in Answer : /\ Return(c, a) /\ a.trigger = t
                                /\ a.outcome = "ANSWER" => a.status = status
           \/ /\ call[c] \in Reading /\ UNCHANGED answer
              /\ \E k \in Reading :
                   /\ call' = [call EXCEPT ![c] = k]
                   /\ k.op = call[c].op /\ k.reviews = call[c].reviews
                   /\ k.data = NoData
    BY <1>1, <1>4, <1>5, <2>1, <2>3, ConcludeEffect
  <2> QED BY <1>1, <1>2, <1>5, <2>2, <2>4
<1> QED BY <1>6, <1>7

\* Calls that end without a status to settle a row by.
GivesUpCall(c) == LowRate(c) \/ RequestRefused(c) \/ WaitCancelled(c) \/ Fails(c)

LEMMA GivesUpEffect ==
  ASSUME Base, NEW c \in Caller, GivesUpCall(c)
  PROVE  /\ UNCHANGED <<github, now, table>> /\ faults' \in Nat
         /\ \E a \in Answer :
              /\ Return(c, a)
              /\ a # NoAnswer => a.trigger <= Cardinality(triggerLog) /\ a.outcome # "ANSWER"
<1>1. UNCHANGED <<github, now, table>> /\ faults' \in Nat
  BY FaultType DEF GivesUpCall, LowRate, RequestRefused, WaitCancelled, Fails, Base, NoFault
<1>2. CASE Return(c, NoAnswer)
  BY <1>1, <1>2, NoAnswerType
<1>3. CASE WaitCancelled(c)
  <2>1. call[c] \in Reading
    <3>1. call[c] \in Call /\ call[c].op # "idle"
      BY <1>3 DEF Base, TypeOK, WaitCancelled
    <3> QED BY <1>3, <3>1, CallKinds DEF WaitCancelled
  <2>2. call[c].last \in Status \cup {"NONE"}
    BY <2>1, ReadingFields
  <2> DEFINE a == Answered("CANCELLED", call[c].last, NoData, NoId)
  <2>3. a \in Answer /\ a.outcome = "CANCELLED" /\ a.trigger = NoId
    BY <2>2, NoDataType, AnsweredType DEF Outcome
  <2>4. NoId <= Cardinality(triggerLog)
    BY FS_CardinalityType DEF NoId, Base, TableIsKeyed, IsKeyed, IsLog
  <2>5. Return(c, a)
    BY <1>3 DEF WaitCancelled
  <2> HIDE DEF a
  <2> QED BY <1>1, <2>3, <2>4, <2>5
<1>4. CASE LowRate(c) /\ ~Return(c, NoAnswer)
  <2>1. call[c] \in Reading /\ call[c].data \in Data
    <3>1. call[c] \in Call /\ call[c].op # "idle"
      BY <1>4 DEF Base, TypeOK, LowRate, Fetched
    <3> QED BY <1>4, <3>1, CallKinds, ReadingFields DEF LowRate, Fetched
  <2>2. PICK t \in LatestIds(triggerLog, ThisPR) :
          Return(c, Answered("RATE_LIMITED", DeriveStatus(call[c].data, EntryOf(t)),
                             call[c].data, t))
    BY <1>4 DEF LowRate
  <2>3. DeriveStatus(call[c].data, EntryOf(t)) \in Status
    BY <2>1, StatusOf
  <2>4. t \in TriggerId \cup {NoId} /\ t <= Cardinality(triggerLog)
    BY LatestType
  <2> DEFINE a == Answered("RATE_LIMITED", DeriveStatus(call[c].data, EntryOf(t)),
                           call[c].data, t)
  <2>5. a \in Answer /\ a.outcome = "RATE_LIMITED" /\ a.trigger = t
    BY <2>1, <2>3, <2>4, AnsweredType DEF Outcome
  <2> HIDE DEF a
  <2> QED BY <1>1, <2>2, <2>4, <2>5 DEF a
<1> QED BY <1>2, <1>3, <1>4 DEF GivesUpCall, RequestRefused, Fails

\* The mutation takes effect, and the request is to be recorded, or is lost.
LEMMA MutationEffect ==
  ASSUME Base, NEW c \in Caller, RequestCopilotReview(c)
  PROVE  /\ call[c] \in Reading /\ call[c].op = "request"
         /\ Ask /\ UNCHANGED <<now, asks, table>> /\ faults' \in Nat
         /\ \/ Return(c, NoAnswer)
            \/ /\ UNCHANGED answer
               /\ \E k \in Recording :
                    /\ call' = [call EXCEPT ![c] = k]
                    /\ k.op = "request" /\ k.pc = "record"
                    /\ k.review = call[c].data.review
                    /\ k.origin = [reviews |-> call[c].reviews, at |-> askedAt']
<1>1. call[c] \in Reading /\ call[c].op = "request"
  <2>1. call[c] \in Call /\ call[c].op # "idle" /\ call[c].op = "request"
    BY DEF Base, TypeOK, RequestCopilotReview, Fetched
  <2> QED BY <2>1, CallKinds DEF RequestCopilotReview, Fetched
<1>2. Ask /\ UNCHANGED <<now, asks, table>> /\ faults' \in Nat
  BY FaultType DEF Base, RequestCopilotReview
<1>3. askedAt' \in Nat
  BY DEF RequestCopilotReview, Ask, Base, TypeOK, Time
<1> DEFINE k == [op |-> "request", pc |-> "record", review |-> call[c].data.review,
                 origin |-> [reviews |-> call[c].reviews, at |-> askedAt']]
<1>4. k \in Recording
  BY <1>1, <1>3, ReadingFields DEF Recording, Origin
<1> QED BY <1>1, <1>2, <1>4 DEF RequestCopilotReview

LEMMA PlanEffect ==
  ASSUME Base, NEW c \in Caller, RequestPlan(c)
  PROVE  /\ call[c] \in Recording
         /\ UNCHANGED <<github, now, table, answer, faults>>
         /\ \E k \in Recording :
              /\ call' = [call EXCEPT ![c] = k]
              /\ k.op = "request"
              /\ k.review = call[c].review /\ k.origin = call[c].origin
              /\ k.pc = "insertDated" =>
                   /\ k.review # NoReview
                   /\ \A t \in LatestIds(triggerLog, ThisPR), e \in triggerLog :
                        e.id = t => e.at < k.review.at + 1
<1>1. call[c] \in Recording
  <2>1. call[c] \in Call /\ call[c].op # "idle"
    BY DEF Base, TypeOK, RequestPlan
  <2> QED BY <2>1, CallKinds DEF RequestPlan
<1> DEFINE latest == {e \in triggerLog : e.id \in LatestIds(triggerLog, ThisPR)}
           dated == /\ call[c].review # NoReview
                    /\ IsNewest(call[c].review.at + 1, latest)
           k == [call[c] EXCEPT !.pc = IF dated THEN "insertDated" ELSE "insertNow"]
<1>2. /\ k \in Recording /\ k.op = "request"
      /\ k.review = call[c].review /\ k.origin = call[c].origin
      /\ k.pc = "insertDated" => dated
  BY <1>1 DEF Recording
<1>3. call' = [call EXCEPT ![c] = k]
  BY DEF RequestPlan, Base, TypeOK
<1>4. ASSUME dated
      PROVE  \A t \in LatestIds(triggerLog, ThisPR), e \in triggerLog :
               e.id = t => e.at < call[c].review.at + 1
  <2>1. \A e \in latest : call[c].review.at + 1 > e.at
    BY <1>4 DEF IsNewest
  <2>2. \A e \in triggerLog : e.at \in Nat
    BY DEF Base, TypeOK, TriggerRow, Time
  <2>3. call[c].review.at + 1 \in Nat
    BY <1>1, <1>4 DEF Recording, ReviewRecord, Time
  <2> QED BY <2>1, <2>2, <2>3
<1>5. UNCHANGED <<github, now, table, answer, faults>>
  BY DEF RequestPlan
<1> HIDE DEF k, dated
<1>6. dated => call[c].review # NoReview
  BY DEF dated
<1> QED BY <1>1, <1>2, <1>3, <1>4, <1>5, <1>6

-----------------------------------------------------------------------------
(* Any number of handlers: types, keys and answers.                        *)

\* What an answer says of a table.
GoodAnswer(a, log) ==
  a # NoAnswer =>
    /\ a.trigger <= Cardinality(log)
    /\ a.outcome = "ANSWER" /\ a.status \in Final => ~IsPending(log, a.trigger)

LEMMA GoodAnswers ==
  AnswersAreKnown /\ AnswerIsSettled <=> \A c \in Caller : GoodAnswer(answer[c], triggerLog)
  BY DEF AnswersAreKnown, AnswerIsSettled, GoodAnswer

LEMMA RequestingIsFinite ==
  /\ IsFiniteSet(Requesting) /\ Cardinality(Requesting) \in Nat
  /\ \A R \in SUBSET Requesting :
       Cardinality(R) \in Nat /\ Cardinality(R) <= Cardinality(Requesting)
<1>1. IsFiniteSet(Requesting)
  BY CallerAssumption, FS_Subset DEF Requesting
<1> QED BY <1>1, FS_Subset, FS_CardinalityType

LEMMA KeepsRoom ==
  ASSUME TableIsKeyed, UNCHANGED triggerLog, Requesting' \subseteq Requesting
  PROVE  TableIsKeyed'
<1>1. /\ Cardinality(Requesting') \in Nat /\ Cardinality(Requesting) \in Nat
      /\ Cardinality(Requesting') <= Cardinality(Requesting)
  BY RequestingIsFinite
<1>2. Cardinality(triggerLog) \in Nat
  BY FS_CardinalityType DEF TableIsKeyed, IsKeyed, IsLog
<1> QED BY <1>1, <1>2, ReviewBoundsAssumption DEF TableIsKeyed

\* A step of a call that leaves the table alone.
LEMMA QuietStep ==
  ASSUME ReviewInv, GitHubType', GitHubIsOrdered', UNCHANGED table, faults' \in Nat,
         NEW c \in Caller, NEW k \in Call, call' = [call EXCEPT ![c] = k],
         k.op = "request" => call[c].op = "request", IsSound(k, triggerLog),
         \/ UNCHANGED answer
         \/ \E a \in Answer : /\ answer' = [answer EXCEPT ![c] = a]
                              /\ GoodAnswer(a, triggerLog)
  PROVE  ReviewInv'
<1>1. TypeOK /\ TableIsKeyed /\ \A d \in Caller : GoodAnswer(answer[d], triggerLog)
  BY GoodAnswers DEF ReviewInv
<1>2. /\ call' \in [Caller -> Call] /\ call'[c] = k
      /\ \A d \in Caller : d # c => call'[d] = call[d]
  BY <1>1, SetCall
<1>3. triggerLog' = triggerLog /\ TableType'
  BY <1>1 DEF table, TypeOK, TableType
<1>4. Requesting' \subseteq Requesting
  BY <1>2 DEF Requesting
<1>5. TableIsKeyed'
  BY <1>1, <1>3, <1>4, KeepsRoom
<1>6. answer' \in [Caller -> Answer] /\ \A d \in Caller : GoodAnswer(answer'[d], triggerLog)
  BY <1>1 DEF TypeOK
<1>7. AnswersAreKnown' /\ AnswerIsSettled'
  BY <1>3, <1>6 DEF AnswersAreKnown, AnswerIsSettled, GoodAnswer
<1>8. CallsAreSound'
  BY <1>2, <1>3 DEF ReviewInv, CallsAreSound, IsSound
<1>9. TypeOK'
  BY <1>2, <1>3, <1>6, TypeParts DEF TypeOK, GitHubType, TableType
<1> QED BY <1>5, <1>7, <1>8, <1>9 DEF ReviewInv

\* A statement that changes the table completes rows or adds one at the end.
LEMMA TableStep ==
  ASSUME ReviewInv, UNCHANGED <<github, now>>, TableType', TableIsKeyed', faults' \in Nat,
         CallsAreSound', call' \in [Caller -> Call], answer' \in [Caller -> Answer],
         Cardinality(triggerLog) <= Cardinality(triggerLog'),
         \A t \in Nat : t <= Cardinality(triggerLog) /\ IsPending(triggerLog', t)
                        => IsPending(triggerLog, t),
         \A d \in Caller : \/ answer'[d] = answer[d]
                           \/ GoodAnswer(answer'[d], triggerLog')
  PROVE  ReviewInv'
<1>1. TypeOK /\ \A d \in Caller : GoodAnswer(answer[d], triggerLog)
  BY GoodAnswers DEF ReviewInv
<1>2. Cardinality(triggerLog) \in Nat /\ Cardinality(triggerLog') \in Nat
  BY FS_CardinalityType DEF ReviewInv, TableIsKeyed, IsKeyed, IsLog
<1>3. \A a \in Answer : GoodAnswer(a, triggerLog) => GoodAnswer(a, triggerLog')
  <2> TAKE a \in Answer
  <2>1. a = NoAnswer \/ a.trigger \in Nat
    BY DEF Answer, TriggerId, NoId
  <2> QED BY <1>2, <2>1 DEF GoodAnswer
<1>4. \A d \in Caller : GoodAnswer(answer'[d], triggerLog')
  BY <1>1, <1>3 DEF TypeOK
<1>5. AnswersAreKnown' /\ AnswerIsSettled'
  BY <1>4 DEF AnswersAreKnown, AnswerIsSettled, GoodAnswer
<1>6. GitHubType' /\ GitHubIsOrdered'
  BY <1>1, Stays DEF ReviewInv
<1>7. TypeOK'
  BY <1>6 DEF TypeOK, GitHubType, TableType
<1> QED BY <1>5, <1>6, <1>7 DEF ReviewInv

\* Rows are not deleted, and so calls that return leave the others sound.
LEMMA SoundCallsStay ==
  ASSUME CallsAreSound, Cardinality(triggerLog) \in Nat, Cardinality(triggerLog') \in Nat,
         Cardinality(triggerLog) <= Cardinality(triggerLog'),
         \A c \in Caller : call'[c] = Idle \/ call'[c] = call[c]
  PROVE  CallsAreSound'
<1> SUFFICES ASSUME NEW c \in Caller PROVE IsSound(call'[c], triggerLog')
  BY DEF CallsAreSound, IsSound
<1>1. IsSound(Idle, triggerLog')
  BY KindsApart DEF IsSound
<1>2. call[c] \in Settling => call[c].trigger \in Nat
  BY DEF Settling, TriggerId
<1>3. IsSound(call[c], triggerLog')
  BY <1>2 DEF CallsAreSound, IsSound
<1> QED BY <1>1, <1>3

LEMMA RecordEffect ==
  ASSUME Base, CallsAreSound, NEW c \in Caller, RequestRecord(c)
  PROVE  /\ call[c] \in Recording /\ Return(c, NoAnswer)
         /\ UNCHANGED <<github, now, settled, faults>>
         /\ \E t \in TriggerId, at \in Time, p \in Nat :
              /\ t = Cardinality(triggerLog) + 1
              /\ triggerLog' = Insert(triggerLog, ThisPR, at)
              /\ prevReview' = [prevReview EXCEPT ![t] = p]
              /\ origin' = [origin EXCEPT ![t] = call[c].origin]
              /\ \/ /\ call[c].pc = "insertDated"
                    /\ p = call[c].review.id /\ at = call[c].review.at + 1
                 \/ call[c].pc = "insertNow" /\ p = None /\ at = now
         /\ TableIsKeyed'
<1>1. call[c] \in Recording /\ call[c].pc \in {"insertDated", "insertNow"} /\ c \in Requesting
  <2>1. call[c] \in Call /\ call[c].op # "idle"
    BY DEF Base, TypeOK, RequestRecord
  <2> QED BY <2>1, CallKinds DEF RequestRecord, Requesting
<1>2. Return(c, NoAnswer) /\ UNCHANGED <<github, now, settled, faults>>
  BY DEF RequestRecord
<1> DEFINE dated == call[c].pc = "insertDated"
           t == Cardinality(triggerLog) + 1
           at == IF dated THEN call[c].review.at + 1 ELSE now
           p == IF dated THEN call[c].review.id ELSE None
<1>3. /\ triggerLog' = Insert(triggerLog, ThisPR, at)
      /\ prevReview' = [prevReview EXCEPT ![t] = p]
      /\ origin' = [origin EXCEPT ![t] = call[c].origin]
  BY DEF RequestRecord
<1>4. at \in Time /\ p \in Nat
  <2>1. dated => /\ call[c].review.at + 1 \in Time /\ call[c].review.id \in Nat
    BY <1>1 DEF CallsAreSound, IsSound, Recording, ReviewRecord, Time, None
  <2> QED BY <2>1 DEF Base, TypeOK, None
<1>5. \/ dated /\ p = call[c].review.id /\ at = call[c].review.at + 1
      \/ call[c].pc = "insertNow" /\ p = None /\ at = now
  BY <1>1
<1> HIDE DEF at, p
<1>6. /\ IsKeyed(triggerLog', {ThisPR}, Time)
      /\ Cardinality(triggerLog) \in Nat
      /\ Cardinality(triggerLog') = Cardinality(triggerLog) + 1
  BY <1>3, <1>4, InsertKeyed DEF Base, TableIsKeyed
<1>7. /\ Cardinality(Requesting) \in Nat /\ Cardinality(Requesting') \in Nat
      /\ Cardinality(Requesting') <= Cardinality(Requesting) - 1
      /\ Cardinality(Requesting) >= 1
  <2>1. Idle.op # "request" /\ \A d \in Caller : d # c => call'[d] = call[d]
    BY <1>2 DEF Idle, Return, Base, TypeOK
  <2>2. call'[c] = Idle
    BY <1>2 DEF Return, Base, TypeOK
  <2>3. Requesting' = Requesting \ {c}
    BY <2>1, <2>2 DEF Requesting
  <2>4. Cardinality(Requesting \ {c}) = Cardinality(Requesting) - 1
    BY <1>1, RequestingIsFinite, FS_RemoveElement
  <2>5. Cardinality(Requesting \ {c}) \in Nat
    BY RequestingIsFinite
  <2> QED BY <2>3, <2>4, <2>5, RequestingIsFinite
<1>8. TableIsKeyed' /\ t \in TriggerId
  BY <1>6, <1>7, ReviewBoundsAssumption DEF TableIsKeyed, Base, TriggerId
<1> QED BY <1>1, <1>2, <1>3, <1>4, <1>5, <1>8

LEMMA SettleEffect ==
  ASSUME Base, NEW c \in Caller, Settle(c)
  PROVE  /\ call[c] \in Settling
         /\ UNCHANGED <<github, now, prevReview, origin>> /\ faults' \in Nat
         /\ triggerLog' = UpdateCompletedAt(triggerLog, call[c].trigger)
         /\ settled' \in {settled, settled \cup {call[c].trigger}}
         /\ \E a \in Answer : Return(c, a) /\ a.trigger = call[c].trigger
<1>1. call[c] \in Settling
  <2>1. call[c] \in Call
    BY DEF Base, TypeOK
  <2> QED BY <2>1, CallKinds DEF Settle
<1>2. /\ call[c].status \in Status /\ call[c].status \in Final
      /\ call[c].trigger \in TriggerId /\ call[c] \notin Reading
  BY <1>1, KindsApart DEF Settling, Status, Final
<1>3. /\ UNCHANGED <<github, now, prevReview, origin>>
      /\ triggerLog' = UpdateCompletedAt(triggerLog, call[c].trigger)
      /\ settled' \in {settled, settled \cup {call[c].trigger}}
      /\ Conclude(c, call[c].status, call[c].trigger)
  BY DEF Settle
<1>4. \E a \in Answer : Return(c, a) /\ a.trigger = call[c].trigger
  BY <1>1, <1>2, <1>3, ConcludeEffect
<1>5. faults' \in Nat
  BY <1>1, <1>2, <1>3, ConcludeEffect
<1> QED BY <1>1, <1>3, <1>4, <1>5

\* Completing a row of the table leaves the rest of it.
LEMMA UpdateEffect ==
  ASSUME Base, NEW id, triggerLog' = UpdateCompletedAt(triggerLog, id),
         prevReview' = prevReview, origin' = origin,
         settled' \subseteq TriggerId, Requesting' \subseteq Requesting
  PROVE  /\ TableType' /\ TableIsKeyed'
         /\ Cardinality(triggerLog') = Cardinality(triggerLog)
         /\ ~IsPending(triggerLog', id)
         /\ \A t : IsPending(triggerLog', t) => IsPending(triggerLog, t)
<1>1. /\ IsKeyed(triggerLog', {ThisPR}, Time)
      /\ Cardinality(triggerLog') = Cardinality(triggerLog)
  BY UpdateKeyed DEF Base, TableIsKeyed
<1>2. /\ ~IsPending(triggerLog', id)
      /\ \A t : IsPending(triggerLog', t) => IsPending(triggerLog, t)
  BY UpdatePending DEF Base, TableIsKeyed, IsKeyed
<1>3. /\ Cardinality(Requesting') \in Nat /\ Cardinality(Requesting) \in Nat
      /\ Cardinality(Requesting') <= Cardinality(Requesting)
      /\ Cardinality(triggerLog) \in Nat
  BY RequestingIsFinite, FS_CardinalityType DEF Base, TableIsKeyed, IsKeyed, IsLog
<1>4. TableIsKeyed'
  BY <1>1, <1>3, ReviewBoundsAssumption DEF Base, TableIsKeyed
<1>5. TableType'
  BY <1>1 DEF Base, TypeOK, TableType, IsKeyed, IsLog
<1> QED BY <1>1, <1>2, <1>4, <1>5

LEMMA ReviewInit == Init => ReviewInv
<1> SUFFICES ASSUME Init PROVE ReviewInv
  OBVIOUS
<1>1. IsFiniteSet({}) /\ Cardinality({}) = 0
  BY FS_EmptySet
<1>2. Requesting = {}
  BY DEF Init, Idle, Requesting
<1>3. TableIsKeyed
  BY <1>1, <1>2, ReviewBoundsAssumption DEF Init, TableIsKeyed, IsKeyed, IsLog
<1>4. GitHubIsOrdered
  BY DEF Init, GitHubIsOrdered, None
<1>5. AnswersAreKnown /\ AnswerIsSettled
  BY DEF Init, AnswersAreKnown, AnswerIsSettled
<1>6. CallsAreSound
  BY KindsApart DEF Init, CallsAreSound, IsSound
<1>7. TypeOK
  <2>1. /\ call \in [Caller -> Call] /\ answer \in [Caller -> Answer]
        /\ origin \in [TriggerId -> Origin]
    BY DEF Init, Call, Answer, None, NoOrigin, Origin
  <2>2. \A S : <<>> \in Seq(S)
    OBVIOUS
  <2>3. reviews \in Seq([at : Time, verdict : Verdict])
    BY <2>2 DEF Init
  <2>4. prevReview \in [TriggerId -> Nat]
    BY DEF Init, None
  <2>5. triggerLog = {} /\ settled = {}
    BY DEF Init
  <2>6. /\ askedAt \in Nat /\ workAt \in Nat /\ now \in Time /\ asks \in Nat
        /\ faults \in Nat
    BY DEF Init, Time, None
  <2>7. asked \in BOOLEAN
    BY Zenon DEF Init
  <2> QED BY <2>1, <2>3, <2>4, <2>5, <2>6, <2>7 DEF TypeOK
<1> QED BY <1>3, <1>4, <1>5, <1>6, <1>7 DEF ReviewInv

\* The steps of the handlers.
LEMMA ReviewNext == ReviewInv /\ [Next]_vars => ReviewInv'
<1> SUFFICES ASSUME ReviewInv, [Next]_vars PROVE ReviewInv'
  OBVIOUS
<1>0. Base /\ TypeOK /\ GitHubIsOrdered /\ CallsAreSound /\ TableIsKeyed
  BY DEF ReviewInv, Base
<1>1. CASE GitHubStep
  <2>1. /\ UNCHANGED <<triggerLog, call, answer>> /\ GitHubIsOrdered' /\ GitHubType'
        /\ UNCHANGED <<table, call, answer, faults>>
    BY <1>0, <1>1, GitHubEffect DEF table
  <2>2. Requesting' = Requesting
    BY <2>1 DEF Requesting
  <2>3. TableIsKeyed'
    BY <1>0, <2>1, <2>2, KeepsRoom
  <2>4. TypeOK'
    BY <1>0, <2>1 DEF TypeOK, GitHubType, table
  <2>5. CallsAreSound' /\ AnswersAreKnown' /\ AnswerIsSettled'
    BY <2>1 DEF ReviewInv, CallsAreSound, AnswersAreKnown, AnswerIsSettled
  <2> QED BY <2>1, <2>3, <2>4, <2>5 DEF ReviewInv
<1>2. ASSUME NEW c \in Caller, RequestGuard(c) PROVE ReviewInv'
  <2>1. Begin(c, "request") /\ UNCHANGED <<github, now, table, faults>>
    BY <1>2 DEF RequestGuard
  <2>2. PICK k \in Reading : /\ call' = [call EXCEPT ![c] = k] /\ k.op = "request"
    BY <1>0, <2>1, BeginEffect
  <2>3. answer' = [answer EXCEPT ![c] = NoAnswer] /\ call[c] = Idle
    BY <1>0, <2>1, BeginEffect
  <2>4. k \in Call /\ k \notin Recording
    BY KindsApart DEF Call
  <2>5. /\ call' \in [Caller -> Call] /\ call'[c] = k
        /\ \A d \in Caller : d # c => call'[d] = call[d]
    BY <1>0, <2>2, <2>4, SetCall
  <2>6. Requesting' = Requesting \cup {c} /\ c \notin Requesting
    <3>1. call[c].op # "request"
      BY <2>3 DEF Idle
    <3> QED BY <2>2, <2>5, <3>1 DEF Requesting
  <2>7. /\ Cardinality(Requesting') = Cardinality(Requesting) + 1
        /\ Cardinality(Requesting) \in Nat
    <3>1. Cardinality(Requesting \cup {c}) = Cardinality(Requesting) + 1
      BY <2>6, RequestingIsFinite, FS_AddElement
    <3> QED BY <2>6, <3>1, RequestingIsFinite
  <2>8. Cardinality(triggerLog) + Cardinality(Requesting) < MaxTriggers
    BY <1>2 DEF RequestGuard, Requesting
  <2>9. triggerLog' = triggerLog /\ Cardinality(triggerLog) \in Nat
    BY <1>0, <2>1, FS_CardinalityType DEF table, TableIsKeyed, IsKeyed, IsLog
  <2>10. TableIsKeyed'
    BY <1>0, <2>7, <2>8, <2>9, ReviewBoundsAssumption DEF TableIsKeyed
  <2>11. GitHubType' /\ GitHubIsOrdered'
    BY <1>0, <2>1, Stays
  <2>12. answer' \in [Caller -> Answer]
    BY <1>0, <2>3, NoAnswerType DEF TypeOK
  <2>13. TypeOK'
    BY <1>0, <2>1, <2>5, <2>11, <2>12 DEF TypeOK, GitHubType, table
  <2>14. CallsAreSound'
    <3>1. k \notin Settling
      BY KindsApart
    <3> QED BY <1>0, <2>4, <2>5, <2>9, <3>1 DEF CallsAreSound, IsSound
  <2>15. \A d \in Caller : answer'[d] = answer[d] \/ answer'[d] = NoAnswer
    BY <1>0, <2>3 DEF TypeOK
  <2>16. AnswersAreKnown' /\ AnswerIsSettled'
    BY <2>9, <2>15 DEF ReviewInv, AnswersAreKnown, AnswerIsSettled
  <2> QED BY <2>10, <2>11, <2>13, <2>14, <2>16 DEF ReviewInv
<1>3. ASSUME NEW c \in Caller, BeginStatus(c) \/ BeginWait(c) PROVE ReviewInv'
  <2>1. PICK op \in {"status", "wait"} : Begin(c, op)
    BY <1>3 DEF BeginStatus, BeginWait
  <2>2. UNCHANGED <<github, now, table, faults>>
    BY <1>3 DEF BeginStatus, BeginWait
  <2>3. PICK k \in Reading : call' = [call EXCEPT ![c] = k] /\ k.op = op
    BY <1>0, <2>1, BeginEffect
  <2>4. answer' = [answer EXCEPT ![c] = NoAnswer]
    BY <1>0, <2>1, BeginEffect
  <2>5. k \in Call /\ k.op # "request" /\ IsSound(k, triggerLog)
    BY <2>1, <2>3, KindsApart DEF Call, IsSound
  <2>6. GoodAnswer(NoAnswer, triggerLog) /\ NoAnswer \in Answer
    BY NoAnswerType DEF GoodAnswer
  <2>7. GitHubType' /\ GitHubIsOrdered' /\ UNCHANGED table /\ faults' \in Nat
    BY <1>0, <2>2, Stays DEF TypeOK
  <2> QED BY <2>3, <2>4, <2>5, <2>6, <2>7, QuietStep
<1>4. ASSUME NEW c \in Caller, ReadReviewers(c) \/ ReadReviews(c) \/ ReadTimeline(c)
      PROVE  ReviewInv'
  <2>1. /\ call[c] \in Reading
        /\ UNCHANGED <<github, now, table, answer>> /\ faults' \in Nat
    BY <1>0, <1>4, ReadEffect
  <2>2. PICK k \in Reading : call' = [call EXCEPT ![c] = k] /\ k.op = call[c].op
    BY <1>0, <1>4, ReadEffect
  <2>3. k \in Call /\ IsSound(k, triggerLog)
    BY KindsApart DEF Call, IsSound
  <2>4. GitHubType' /\ GitHubIsOrdered' /\ UNCHANGED table
    BY <1>0, <2>1, Stays
  <2> QED BY <2>1, <2>2, <2>3, <2>4, QuietStep
<1>5. ASSUME NEW c \in Caller, GivesUpCall(c) PROVE ReviewInv'
  <2>1. UNCHANGED <<github, now, table>> /\ faults' \in Nat
    BY <1>0, <1>5, GivesUpEffect
  <2>2. PICK a \in Answer :
          /\ Return(c, a)
          /\ a # NoAnswer => a.trigger <= Cardinality(triggerLog) /\ a.outcome # "ANSWER"
    BY <1>0, <1>5, GivesUpEffect
  <2>3. Idle \in Call /\ Idle.op # "request" /\ IsSound(Idle, triggerLog)
    BY KindsApart DEF Call, IsSound, Idle
  <2>4. GitHubType' /\ GitHubIsOrdered' /\ UNCHANGED table
    BY <1>0, <2>1, Stays
  <2>5. GoodAnswer(a, triggerLog)
    BY <2>2 DEF GoodAnswer
  <2> QED BY <2>1, <2>2, <2>3, <2>4, <2>5, QuietStep DEF Return
<1>6. ASSUME NEW c \in Caller, RequestCopilotReview(c) PROVE ReviewInv'
  <2>1. /\ call[c] \in Reading /\ call[c].op = "request"
        /\ Ask /\ UNCHANGED <<now, asks, table>> /\ faults' \in Nat
        /\ \/ Return(c, NoAnswer)
           \/ /\ UNCHANGED answer
              /\ \E k \in Recording :
                   /\ call' = [call EXCEPT ![c] = k]
                   /\ k.op = "request" /\ k.pc = "record"
    BY <1>0, <1>6, MutationEffect
  <2>2. GitHubType' /\ GitHubIsOrdered' /\ UNCHANGED table
    BY <1>0, <2>1, AskEffect DEF TypeOK
  <2>3. CASE Return(c, NoAnswer)
    <3>1. Idle \in Call /\ Idle.op # "request" /\ IsSound(Idle, triggerLog)
      BY KindsApart DEF Call, IsSound, Idle
    <3>2. GoodAnswer(NoAnswer, triggerLog)
      BY DEF GoodAnswer
    <3> QED BY <2>1, <2>2, <2>3, <3>1, <3>2, NoAnswerType, QuietStep DEF Return
  <2>4. ASSUME UNCHANGED answer, NEW k \in Recording, call' = [call EXCEPT ![c] = k],
               k.op = "request", k.pc = "record"
        PROVE  ReviewInv'
    <3>1. k \in Call /\ IsSound(k, triggerLog)
      BY <2>4, KindsApart DEF Call, IsSound
    <3> QED BY <2>1, <2>2, <2>4, <3>1, QuietStep
  <2> QED BY <2>1, <2>3, <2>4
<1>7. ASSUME NEW c \in Caller, RequestPlan(c) PROVE ReviewInv'
  <2>1. call[c] \in Recording /\ UNCHANGED <<github, now, table, answer, faults>>
    BY <1>0, <1>7, PlanEffect
  <2>2. PICK k \in Recording :
          /\ call' = [call EXCEPT ![c] = k]
          /\ k.pc = "insertDated" => k.review # NoReview
    BY <1>0, <1>7, PlanEffect
  <2>3. k \in Call /\ IsSound(k, triggerLog) /\ call[c].op = "request"
    BY <2>1, <2>2, KindsApart DEF Call, IsSound, Recording
  <2>4. GitHubType' /\ GitHubIsOrdered' /\ UNCHANGED table /\ faults' \in Nat
    BY <1>0, <2>1, Stays DEF TypeOK
  <2> QED BY <2>1, <2>2, <2>3, <2>4, QuietStep
<1>8. ASSUME NEW c \in Caller, RequestRecord(c) PROVE ReviewInv'
  <2>1. /\ call[c] \in Recording /\ Return(c, NoAnswer) /\ TableIsKeyed'
        /\ UNCHANGED <<github, now, settled, faults>>
    BY <1>0, <1>8, RecordEffect
  <2>2. PICK t \in TriggerId, at \in Time, p \in Nat :
          /\ triggerLog' = Insert(triggerLog, ThisPR, at)
          /\ prevReview' = [prevReview EXCEPT ![t] = p]
          /\ origin' = [origin EXCEPT ![t] = call[c].origin]
    BY <1>0, <1>8, RecordEffect
  <2>3. TableType'
    <3>1. call[c].origin \in Origin
      BY <2>1 DEF Recording
    <3>2. triggerLog' \subseteq TriggerRow({ThisPR}, Time)
      BY <2>1 DEF TableIsKeyed, IsKeyed, IsLog
    <3> QED BY <1>0, <2>1, <2>2, <3>1, <3>2 DEF TableType, TypeOK
  <2>4. /\ call' \in [Caller -> Call] /\ call'[c] = Idle
        /\ \A d \in Caller : d # c => call'[d] = call[d]
        /\ answer' \in [Caller -> Answer] /\ answer'[c] = NoAnswer
        /\ \A d \in Caller : d # c => answer'[d] = answer[d]
    BY <1>0, <2>1, NoAnswerType, SetAnswer
  <2>6. /\ IsKeyed(triggerLog, {ThisPR}, Time) /\ Cardinality(triggerLog) \in Nat
        /\ Cardinality(triggerLog') = Cardinality(triggerLog) + 1
    BY <1>0, <2>2, InsertKeyed DEF TableIsKeyed
  <2>5. CallsAreSound'
    BY <1>0, <2>4, <2>6, SoundCallsStay
  <2>7. \A i \in Nat : i <= Cardinality(triggerLog) /\ IsPending(triggerLog', i)
                       => IsPending(triggerLog, i)
    BY <2>2, <2>6, InsertPending
  <2>8. \A d \in Caller : answer'[d] = answer[d] \/ GoodAnswer(answer'[d], triggerLog')
    BY <2>4 DEF GoodAnswer
  <2>9. Cardinality(triggerLog) <= Cardinality(triggerLog') /\ faults' \in Nat
    BY <1>0, <2>1, <2>6 DEF TypeOK
  <2> QED BY <2>1, <2>3, <2>4, <2>5, <2>7, <2>8, <2>9, TableStep
<1>9. ASSUME NEW c \in Caller, Derive(c) PROVE ReviewInv'
  <2>1. /\ call[c] \in Reading /\ UNCHANGED <<github, now, table>> /\ faults' \in Nat
        /\ \/ \E k \in Settling :
                 /\ call' = [call EXCEPT ![c] = k] /\ UNCHANGED answer
                 /\ k.op = call[c].op /\ IsPending(triggerLog, k.trigger)
           \/ \E a \in Answer :
                 /\ Return(c, a) /\ a.trigger <= Cardinality(triggerLog)
                 /\ a.outcome = "ANSWER" /\ a.status \in Final
                    => ~IsPending(triggerLog, a.trigger)
           \/ /\ UNCHANGED answer
              /\ \E k \in Reading : call' = [call EXCEPT ![c] = k] /\ k.op = call[c].op
    BY <1>0, <1>9, DeriveEffect
  <2>2. GitHubType' /\ GitHubIsOrdered' /\ UNCHANGED table
    BY <1>0, <2>1, Stays
  <2>3. ASSUME NEW k \in Reading \cup Settling, k.op = call[c].op, UNCHANGED answer,
               call' = [call EXCEPT ![c] = k],
               k \in Settling => IsPending(triggerLog, k.trigger)
        PROVE  ReviewInv'
    <3>1. k \in Call /\ IsSound(k, triggerLog)
      BY <1>0, <2>3, KindsApart DEF Call, IsSound, IsPending, TableIsKeyed, IsKeyed
    <3> QED BY <2>1, <2>2, <2>3, <3>1, QuietStep
  <2>4. ASSUME NEW a \in Answer, Return(c, a), a.trigger <= Cardinality(triggerLog),
               a.outcome = "ANSWER" /\ a.status \in Final => ~IsPending(triggerLog, a.trigger)
        PROVE  ReviewInv'
    <3>1. GoodAnswer(a, triggerLog)
      BY <2>4 DEF GoodAnswer
    <3>2. Idle \in Call /\ Idle.op # "request" /\ IsSound(Idle, triggerLog)
      BY KindsApart DEF Call, IsSound, Idle
    <3> QED BY <2>1, <2>2, <2>4, <3>1, <3>2, QuietStep DEF Return
  <2> QED BY <2>1, <2>3, <2>4, KindsApart
<1>10. ASSUME NEW c \in Caller, Settle(c) PROVE ReviewInv'
  <2>1. /\ call[c] \in Settling
        /\ UNCHANGED <<github, now, prevReview, origin>> /\ faults' \in Nat
        /\ triggerLog' = UpdateCompletedAt(triggerLog, call[c].trigger)
        /\ settled' \in {settled, settled \cup {call[c].trigger}}
    BY <1>0, <1>10, SettleEffect
  <2>2. PICK a \in Answer : Return(c, a) /\ a.trigger = call[c].trigger
    BY <1>0, <1>10, SettleEffect
  <2>3. /\ call' \in [Caller -> Call] /\ call'[c] = Idle
        /\ \A d \in Caller : d # c => call'[d] = call[d]
        /\ answer' \in [Caller -> Answer] /\ answer'[c] = a
        /\ \A d \in Caller : d # c => answer'[d] = answer[d]
    BY <1>0, <2>2, SetAnswer
  <2>4. Requesting' \subseteq Requesting
    BY <2>3 DEF Idle, Requesting
  <2>5. settled' \subseteq TriggerId
    BY <1>0, <2>1 DEF TypeOK, Settling
  <2>6. /\ TableType' /\ TableIsKeyed'
        /\ Cardinality(triggerLog') = Cardinality(triggerLog)
        /\ ~IsPending(triggerLog', call[c].trigger)
        /\ \A t : IsPending(triggerLog', t) => IsPending(triggerLog, t)
    BY <1>0, <2>1, <2>4, <2>5, UpdateEffect
  <2>7. Cardinality(triggerLog) \in Nat /\ call[c].trigger <= Cardinality(triggerLog')
    BY <1>0, <2>1, <2>6, FS_CardinalityType
       DEF TableIsKeyed, IsKeyed, IsLog, CallsAreSound, IsSound
  <2>8. CallsAreSound'
    BY <1>0, <2>3, <2>6, <2>7, SoundCallsStay
  <2>9. \A d \in Caller : answer'[d] = answer[d] \/ GoodAnswer(answer'[d], triggerLog')
    BY <2>2, <2>3, <2>6, <2>7 DEF GoodAnswer
  <2> QED BY <2>1, <2>3, <2>6, <2>7, <2>8, <2>9, TableStep
<1>11. ASSUME NEW c \in Caller, Wake(c) PROVE ReviewInv'
  <2>1. call[c] \in Reading
    <3>1. call[c] \in Call /\ call[c].op # "idle"
      BY <1>0, <1>11 DEF TypeOK, Wake
    <3> QED BY <1>11, <3>1, CallKinds DEF Wake
  <2> DEFINE k == [call[c] EXCEPT !.pc = "reviewers"]
  <2>2. k \in Reading /\ k.op = call[c].op
    BY <2>1 DEF Reading
  <2>3. call' = [call EXCEPT ![c] = k]
    BY <1>0, <1>11 DEF Wake, TypeOK
  <2> HIDE DEF k
  <2>4. k \in Call /\ IsSound(k, triggerLog)
    BY <2>2, KindsApart DEF Call, IsSound
  <2>5. UNCHANGED <<github, now, table, answer, faults>>
    BY <1>11 DEF Wake
  <2>6. GitHubType' /\ GitHubIsOrdered' /\ UNCHANGED table /\ faults' \in Nat
    BY <1>0, <2>5, Stays DEF TypeOK
  <2> QED BY <2>2, <2>3, <2>4, <2>5, <2>6, QuietStep
<1>12. CASE CancelWatch
  <2>1. UNCHANGED <<github, now, prevReview, origin, settled, call, answer, faults>>
    BY <1>12 DEF CancelWatch
  <2>2. PICK e \in triggerLog : triggerLog' = UpdateCompletedAt(triggerLog, e.id)
    BY <1>12 DEF CancelWatch
  <2>3. Requesting' \subseteq Requesting /\ settled' \subseteq TriggerId
    BY <1>0, <2>1 DEF Requesting, TypeOK
  <2>4. /\ TableType' /\ TableIsKeyed'
        /\ Cardinality(triggerLog') = Cardinality(triggerLog)
        /\ \A t : IsPending(triggerLog', t) => IsPending(triggerLog, t)
    BY <1>0, <2>1, <2>2, <2>3, UpdateEffect
  <2>5. Cardinality(triggerLog) \in Nat
    BY <1>0, FS_CardinalityType DEF TableIsKeyed, IsKeyed, IsLog
  <2>6. /\ UNCHANGED <<github, now>> /\ faults' \in Nat
        /\ call' \in [Caller -> Call] /\ answer' \in [Caller -> Answer]
        /\ \A d \in Caller : answer'[d] = answer[d]
    BY <1>0, <2>1 DEF TypeOK
  <2>7. CallsAreSound'
    BY <1>0, <2>1, <2>4, <2>5, SoundCallsStay
  <2> QED BY <2>4, <2>5, <2>6, <2>7, TableStep
<1>13. CASE Crash
  <2>1. /\ UNCHANGED <<github, now, table>> /\ faults' \in Nat
        /\ call' = [c \in Caller |-> Idle]
        /\ answer' = [c \in Caller |-> NoAnswer]
    BY <1>0, <1>13, FaultType DEF Crash
  <2>2. triggerLog' = triggerLog /\ GitHubType' /\ GitHubIsOrdered'
    BY <1>0, <2>1, Stays DEF table
  <2>3. Requesting' \subseteq Requesting /\ TableIsKeyed'
    <3>1. Requesting' \subseteq Requesting
      BY <2>1 DEF Requesting, Idle
    <3> QED BY <1>0, <2>2, <3>1, KeepsRoom
  <2>4. call' \in [Caller -> Call] /\ answer' \in [Caller -> Answer]
    BY <2>1 DEF Call, Answer
  <2>5. CallsAreSound' /\ AnswersAreKnown' /\ AnswerIsSettled'
    BY <2>1, KindsApart DEF CallsAreSound, IsSound, AnswersAreKnown, AnswerIsSettled
  <2>6. TypeOK'
    BY <1>0, <2>1, <2>2, <2>4 DEF TypeOK, GitHubType, table
  <2> QED BY <2>2, <2>3, <2>5, <2>6 DEF ReviewInv
<1>14. CASE UNCHANGED vars
  <2>1. UNCHANGED <<github, now, table, call, answer, faults>>
    BY <1>14 DEF vars
  <2>2. /\ UNCHANGED <<asked, askedAt, workAt, reviews, asks>>
        /\ UNCHANGED <<triggerLog, prevReview, origin, settled>>
    BY <2>1 DEF github, table
  <2>3. Requesting' = Requesting
    BY <2>1 DEF Requesting
  <2>4. TableIsKeyed' /\ GitHubIsOrdered' /\ CallsAreSound'
    BY <1>0, <2>1, <2>2, <2>3 DEF TableIsKeyed, GitHubIsOrdered, CallsAreSound
  <2>5. AnswersAreKnown' /\ AnswerIsSettled'
    BY <2>1, <2>2 DEF ReviewInv, AnswersAreKnown, AnswerIsSettled
  <2>6. TypeOK'
    BY <1>0, <2>1, <2>2 DEF TypeOK
  <2> QED BY <2>4, <2>5, <2>6 DEF ReviewInv
<1> QED BY <1>1, <1>2, <1>3, <1>4, <1>5, <1>6, <1>7, <1>8, <1>9, <1>10, <1>11, <1>12,
          <1>13, <1>14 DEF Next, HandlerStep, GivesUpCall, GitHubStep

\* Every variable has its type, whatever the handlers and GitHub do.
THEOREM ReviewTypeCorrect == Spec => []TypeOK
<1>1. ReviewInv => TypeOK
  BY DEF ReviewInv
<1> QED BY <1>1, ReviewInit, ReviewNext, PTL DEF Spec

\* A call that told its caller of a finished review has completed the request
\* it answers, for any number of handlers at the same time.
THEOREM AnswersAreSettled == Spec => []AnswerIsSettled
<1>1. ReviewInv => AnswerIsSettled
  BY DEF ReviewInv
<1> QED BY <1>1, ReviewInit, ReviewNext, PTL DEF Spec

LEMMA ReviewInvariant == Spec => []ReviewInv
  BY ReviewInit, ReviewNext, PTL DEF Spec

-----------------------------------------------------------------------------
(* One handler at a time: what is completed was answered.                  *)

LEMMA Numbers ==
  ASSUME ReviewInv
  PROVE  /\ now \in Nat /\ askedAt \in Nat /\ Len(reviews) \in Nat
         /\ DOMAIN reviews = 1..Len(reviews)
         /\ \A i \in DOMAIN reviews : reviews[i].at \in Nat
         /\ \A e \in triggerLog : /\ e.at \in Nat /\ e.at # None
                                  /\ e.id \in TriggerId /\ e.id \in Nat /\ e.id # NoId
                                  /\ e.id <= Cardinality(triggerLog)
                                  /\ e.pr = ThisPR /\ e.done \in BOOLEAN
         /\ \A e, f \in triggerLog : e.id = f.id => e = f
         /\ \A t \in TriggerId : /\ origin[t].reviews \in Nat /\ origin[t].at \in Nat
                                 /\ prevReview[t] \in Nat
         /\ Cardinality(triggerLog) \in Nat
<1>1. TypeOK /\ TableIsKeyed
  BY DEF ReviewInv
<1>2. /\ Cardinality(triggerLog) \in Nat /\ Cardinality(triggerLog) <= MaxTriggers
  BY <1>1, FS_CardinalityType, RequestingIsFinite, ReviewBoundsAssumption
     DEF TableIsKeyed, IsKeyed, IsLog
<1>3. \A e \in triggerLog : /\ e.at \in Nat /\ e.at # None /\ e.id \in Nat /\ e.id # NoId
                            /\ e.pr = ThisPR /\ e.done \in BOOLEAN
  BY <1>1 DEF TypeOK, TriggerRow, Time
<1>4. \A e \in triggerLog : e.id <= Cardinality(triggerLog) /\ e.id \in TriggerId
  BY <1>1, <1>2, <1>3, ReviewBoundsAssumption DEF TableIsKeyed, IsKeyed, TriggerId, NoId
<1>5. \A t \in TriggerId : /\ origin[t].reviews \in Nat /\ origin[t].at \in Nat
                           /\ prevReview[t] \in Nat
  BY <1>1 DEF TypeOK, Origin
<1>6. \A e, f \in triggerLog : e.id = f.id => e = f
  BY <1>1 DEF TableIsKeyed, IsKeyed
<1>7. /\ now \in Nat /\ askedAt \in Nat /\ Len(reviews) \in Nat
      /\ DOMAIN reviews = 1..Len(reviews)
      /\ \A i \in DOMAIN reviews : reviews[i].at \in Nat
  BY <1>1, ReviewsType DEF TypeOK, Time
<1> QED BY <1>2, <1>3, <1>4, <1>5, <1>6, <1>7

\* GitHub goes on under a call and the rows.
LEMMA GrowsNew ==
  ASSUME ReviewInv, Grows, now' \in Nat, askedAt' \in Nat, Len(reviews') \in Nat,
         UNCHANGED table
  PROVE  /\ RowsAreDated => RowsAreDated'
         /\ OnePending => OnePending'
         /\ SettledAreRows => SettledAreRows'
         /\ CompletedIsAnswered => CompletedIsAnswered'
         /\ \A k \in Call : CallIsNew(k) => CallIsNew(k)'
<1>1. /\ triggerLog' = triggerLog /\ prevReview' = prevReview
      /\ origin' = origin /\ settled' = settled
  BY DEF table
<1>2. TypeOK /\ settled \subseteq TriggerId
  BY DEF ReviewInv, TypeOK
<1>3. ASSUME NEW id \in TriggerId, NEW at \in Nat, RowIsDated(id, at)
      PROVE  RowIsDated(id, at)'
  BY <1>1, <1>3, Numbers DEF RowIsDated, Grows
<1>4. RowsAreDated => RowsAreDated'
  BY <1>1, <1>3, Numbers DEF RowsAreDated
<1>5. OnePending => OnePending'
  BY <1>1 DEF OnePending
<1>6. SettledAreRows => SettledAreRows'
  BY <1>1 DEF SettledAreRows
<1>7. ASSUME NEW t \in TriggerId, Answers(t) PROVE Answers(t)'
  BY <1>1, <1>7 DEF Answers, Grows
<1>8. CompletedIsAnswered => CompletedIsAnswered'
  BY <1>1, <1>2, <1>7 DEF CompletedIsAnswered, Answers
<1>9. ASSUME NEW review \in ReviewRecord, Submitted(review) PROVE Submitted(review)'
  BY <1>9 DEF Submitted, Grows
<1>10. ASSUME NEW k \in Reading, ReadingIsNew(k) PROVE ReadingIsNew(k)'
  BY <1>1, <1>9, <1>10, ReadingFields, Numbers DEF ReadingIsNew, Grows
<1>11. ASSUME NEW k \in Recording, RecordingIsNew(k) PROVE RecordingIsNew(k)'
  <2>1. k.review \in ReviewRecord /\ k.origin.reviews \in Nat /\ k.origin.at \in Nat
    BY DEF Recording, Origin
  <2> QED BY <1>1, <1>9, <1>11, <2>1, Numbers DEF RecordingIsNew, Grows
<1>12. ASSUME NEW k \in Settling, SettlingIsNew(k) PROVE SettlingIsNew(k)'
  <2>1. k.trigger \in TriggerId
    BY DEF Settling
  <2> QED BY <1>1, <1>7, <1>12, <2>1, Numbers DEF SettlingIsNew, Grows
<1>13. \A k \in Call : CallIsNew(k) => CallIsNew(k)'
  BY <1>10, <1>11, <1>12 DEF CallIsNew
<1> QED BY <1>4, <1>5, <1>6, <1>8, <1>13

\* The steps of GitHub, and of a call that leaves the table alone.
LEMMA QuietNew ==
  ASSUME OneHandler, ReviewInv, HandlerInv, TypeOK', Grows, UNCHANGED table,
         \/ UNCHANGED call
         \/ \E c \in Caller, k \in Call :
              call' = [call EXCEPT ![c] = k] /\ (CallIsNew(k) \/ CallIsNew(k)')
  PROVE  HandlerInv'
<1>1. TypeOK
  BY DEF ReviewInv
<1>2. now' \in Nat /\ askedAt' \in Nat /\ Len(reviews') \in Nat
  <2>1. reviews' \in Seq([at : Time, verdict : Verdict])
    BY DEF TypeOK
  <2> DEFINE S == [at : Time, verdict : Verdict]
  <2> HIDE DEF S
  <2>2. reviews' \in Seq(S)
    BY <2>1 DEF S
  <2> QED BY <2>2, Elements DEF TypeOK, Time
<1>3. /\ RowsAreDated' /\ OnePending' /\ SettledAreRows' /\ CompletedIsAnswered'
      /\ \A k \in Call : CallIsNew(k) => CallIsNew(k)'
  BY <1>2, GrowsNew DEF HandlerInv
<1>4. CallsAreNew'
  <2> SUFFICES ASSUME NEW c \in Caller PROVE CallIsNew(call[c])'
    BY DEF CallsAreNew
  <2>1. PICK k \in Call : k = call'[c] /\ (CallIsNew(k) \/ CallIsNew(k)')
    <3>1. CASE UNCHANGED call
      BY <1>1, <3>1 DEF HandlerInv, CallsAreNew, TypeOK
    <3>2. ASSUME NEW d \in Caller, NEW k \in Call, call' = [call EXCEPT ![d] = k],
                 CallIsNew(k) \/ CallIsNew(k)'
          PROVE  \E l \in Call : l = call'[c] /\ (CallIsNew(l) \/ CallIsNew(l)')
      <4>1. c = d
        BY DEF OneHandler
      <4>2. call'[d] = k
        BY <1>1, <3>2 DEF TypeOK
      <4> QED BY <3>2, <4>1, <4>2
    <3> QED BY <3>1, <3>2
  <2>2. CallIsNew(k)'
    BY <1>3, <2>1
  <2> QED BY <2>1, <2>2
<1> QED BY <1>3, <1>4 DEF HandlerInv

LEMMA IdleIsNew == CallIsNew(Idle)
  BY KindsApart DEF CallIsNew

\* A row is completed, because of a review that answers it or because of a user.
LEMMA UpdateNew ==
  ASSUME ReviewInv, HandlerInv, NEW id, UNCHANGED <<github, now, prevReview, origin>>,
         triggerLog' = UpdateCompletedAt(triggerLog, id),
         \/ settled' = settled
         \/ /\ settled' = settled \cup {id}
            /\ Answers(id) /\ id <= Cardinality(triggerLog),
         \A c \in Caller : call'[c] = call[c] \/ call'[c] = Idle
  PROVE  HandlerInv'
<1>1. IsKeyed(triggerLog, {ThisPR}, Time) /\ IsLog(triggerLog, {ThisPR}, Time)
  BY DEF ReviewInv, TableIsKeyed, IsKeyed
<1>2. ASSUME NEW f \in triggerLog'
      PROVE  \E e \in triggerLog : /\ f.id = e.id /\ f.at = e.at
                                   /\ e.done => f.done
  BY <1>1, UpdateRows
<1>3. /\ now' = now /\ reviews' = reviews /\ askedAt' = askedAt
      /\ prevReview' = prevReview /\ origin' = origin
  BY DEF github
<1>4. RowsAreDated'
  <2>1. \A i, at : RowIsDated(i, at) => RowIsDated(i, at)'
    BY <1>3 DEF RowIsDated
  <2> SUFFICES ASSUME NEW f \in triggerLog' PROVE RowIsDated(f.id, f.at)'
    BY DEF RowsAreDated
  <2>2. RowIsDated(f.id, f.at)
    BY <1>2 DEF HandlerInv, RowsAreDated
  <2> QED BY <2>1, <2>2
<1>5. OnePending'
  <2>1. IsKeyed(triggerLog', {ThisPR}, Time)
    BY <1>1, UpdateKeyed
  <2>2. \A f, g \in triggerLog' : ~f.done /\ ~g.done => f.id = g.id
    BY <1>2 DEF HandlerInv, OnePending
  <2> QED BY <2>1, <2>2 DEF OnePending, IsKeyed
<1>6. CallsAreNew'
  <2>1. ASSUME NEW k \in Reading, ReadingIsNew(k) PROVE ReadingIsNew(k)'
    BY <1>2, <1>3, <2>1 DEF ReadingIsNew, Submitted
  <2>2. ASSUME NEW k \in Recording, RecordingIsNew(k) PROVE RecordingIsNew(k)'
    BY <1>2, <1>3, <2>2 DEF RecordingIsNew, Submitted
  <2>3. ASSUME NEW k \in Settling, SettlingIsNew(k) PROVE SettlingIsNew(k)'
    BY <1>2, <1>3, <2>3 DEF SettlingIsNew, Answers
  <2>4. \A k : CallIsNew(k) => CallIsNew(k)'
    BY <2>1, <2>2, <2>3 DEF CallIsNew
  <2> SUFFICES ASSUME NEW c \in Caller PROVE CallIsNew(call[c])'
    BY DEF CallsAreNew
  <2>5. PICK k : k = call'[c]
    OBVIOUS
  <2>6. CallIsNew(k)
    BY <2>5, IdleIsNew DEF HandlerInv, CallsAreNew
  <2> QED BY <2>4, <2>5, <2>6
<1>7. Cardinality(triggerLog') = Cardinality(triggerLog)
  BY <1>1, UpdateKeyed
<1>8. SettledAreRows'
  BY <1>7 DEF HandlerInv, SettledAreRows
<1>9. CompletedIsAnswered'
  <2>1. \A t \in settled' : Answers(t)
    BY DEF HandlerInv, CompletedIsAnswered, Answers
  <2> QED BY <1>3, <2>1 DEF CompletedIsAnswered, Answers
<1> QED BY <1>4, <1>5, <1>6, <1>8, <1>9 DEF HandlerInv

\* A request is recorded.
LEMMA RecordNew ==
  ASSUME OneHandler, ReviewInv, HandlerInv, NEW c \in Caller, RequestRecord(c)
  PROVE  HandlerInv'
<1>0. Base /\ CallsAreSound /\ TypeOK
  BY DEF ReviewInv, Base
<1>1. /\ call[c] \in Recording /\ Return(c, NoAnswer)
      /\ UNCHANGED <<github, now, settled, faults>>
  BY <1>0, RecordEffect
<1>2. PICK t \in TriggerId, at \in Time, p \in Nat :
        /\ t = Cardinality(triggerLog) + 1
        /\ triggerLog' = Insert(triggerLog, ThisPR, at)
        /\ prevReview' = [prevReview EXCEPT ![t] = p]
        /\ origin' = [origin EXCEPT ![t] = call[c].origin]
        /\ \/ /\ call[c].pc = "insertDated"
              /\ p = call[c].review.id /\ at = call[c].review.at + 1
           \/ call[c].pc = "insertNow" /\ p = None /\ at = now
  BY <1>0, RecordEffect
<1> DEFINE new == [id |-> t, pr |-> ThisPR, at |-> at, done |-> FALSE]
<1>3. /\ now' = now /\ reviews' = reviews /\ askedAt' = askedAt /\ settled' = settled
  BY <1>1 DEF github
<1>4. triggerLog' = triggerLog \cup {new} /\ new.id = t /\ new.at = at
  BY <1>2 DEF Insert
<1>5. RecordingIsNew(call[c])
  BY <1>1 DEF HandlerInv, CallsAreNew, CallIsNew
<1> HIDE DEF new
<1>6. /\ prevReview'[t] = p /\ origin'[t] = call[c].origin
      /\ \A i \in TriggerId : i # t => prevReview'[i] = prevReview[i] /\ origin'[i] = origin[i]
  BY <1>0, <1>2 DEF TypeOK
<1>7. RowsAreDated'
  <2> SUFFICES ASSUME NEW e \in triggerLog' PROVE RowIsDated(e.id, e.at)'
    BY DEF RowsAreDated
  <2>1. CASE e \in triggerLog
    <3>1. e.id \in TriggerId /\ e.id # t
      BY <1>2, <2>1, Numbers
    <3>2. RowIsDated(e.id, e.at)
      BY <2>1 DEF HandlerInv, RowsAreDated
    <3> QED BY <1>3, <1>6, <3>1, <3>2 DEF RowIsDated
  <2>2. CASE e = new
    <3>1. /\ call[c].origin.at <= askedAt /\ askedAt <= now
          /\ call[c].origin.at \in Nat /\ askedAt \in Nat /\ now \in Nat
      BY <1>1, <1>5, Numbers DEF RecordingIsNew, Recording, Origin, ReviewInv, GitHubIsOrdered
    <3>2. CASE call[c].pc = "insertNow" /\ p = None /\ at = now
      BY <1>3, <1>4, <1>6, <2>2, <3>1, <3>2 DEF RowIsDated
    <3>3. CASE /\ call[c].pc = "insertDated"
               /\ p = call[c].review.id /\ at = call[c].review.at + 1
      <4>1. /\ call[c].review # NoReview
            /\ call[c].origin.reviews <= p /\ p \in DOMAIN reviews
            /\ at = reviews[p].at + 1
        BY <1>5, <3>3 DEF RecordingIsNew, Submitted
      <4>2. p # None
        BY <4>1, Numbers DEF None
      <4> QED BY <1>3, <1>4, <1>6, <2>2, <3>1, <4>1, <4>2 DEF RowIsDated
    <3> QED BY <1>2, <3>2, <3>3
  <2> QED BY <1>4, <2>1, <2>2
<1>8. OnePending'
  BY <1>4, <1>5 DEF RecordingIsNew, OnePending
<1>9. CallsAreNew'
  <2> SUFFICES ASSUME NEW d \in Caller PROVE CallIsNew(call[d])'
    BY DEF CallsAreNew
  <2>1. call'[d] = Idle
    BY <1>0, <1>1 DEF OneHandler, Return, TypeOK
  <2>2. CallIsNew(Idle)'
    BY KindsApart DEF CallIsNew
  <2> QED BY <2>1, <2>2 DEF Idle
<1>10. SettledAreRows'
  <2>1. Cardinality(triggerLog') = Cardinality(triggerLog) + 1
    BY <1>2, InsertKeyed DEF ReviewInv, TableIsKeyed
  <2>2. \A i \in settled : i \in Nat /\ i <= Cardinality(triggerLog)
    BY <1>0 DEF HandlerInv, SettledAreRows, TypeOK, TriggerId
  <2> QED BY <1>3, <2>1, <2>2, Numbers DEF SettledAreRows
<1>11. CompletedIsAnswered'
  <2>1. \A i \in settled : i # t /\ i \in TriggerId
    <3>1. \A i \in settled : i \in TriggerId /\ i \in Nat /\ i <= Cardinality(triggerLog)
      BY <1>0 DEF HandlerInv, SettledAreRows, TypeOK, TriggerId
    <3> QED BY <1>2, <3>1, Numbers
  <2> QED BY <1>3, <1>6, <2>1 DEF HandlerInv, CompletedIsAnswered
<1> QED BY <1>7, <1>8, <1>9, <1>10, <1>11 DEF HandlerInv

\* A status that settles a row comes from a review that answers it.
LEMMA FinalAnswers ==
  ASSUME ReviewInv, HandlerInv, NEW k \in Reading, ReadingIsNew(k),
         k.op \in {"status", "wait"}, NEW e \in triggerLog,
         DeriveStatus(k.data, EntryOf(e.id)) \in Final
  PROVE  Answers(e.id) /\ e.at <= now
<1> DEFINE t == e.id
           r == k.data.review
<1>1. /\ k.data \in Data /\ r \in ReviewRecord /\ k.data.askedAt \in Nat
      /\ r # NoReview => r.id \in Nat /\ r.at \in Nat
  BY ReadingFields DEF ReviewRecord, Time
<1>2. r # NoReview /\ Relevant(k.data, EntryOf(t))
  BY <1>1, StatusOf
<1>3. EntryOf(t).at = e.at /\ EntryOf(t).prev = prevReview[t]
  <2>1. t # NoId /\ (CHOOSE f \in triggerLog : f.id = t) = e
    BY Numbers
  <2> QED BY <2>1 DEF EntryOf
<1>4. /\ r.id \in DOMAIN reviews /\ r.at = reviews[r.id].at
      /\ prevReview[t] # None => prevReview[t] <= r.id
      /\ k.data.askedAt # None => origin[t].at <= k.data.askedAt
      /\ RowIsDated(t, e.at)
  BY <1>2 DEF ReadingIsNew, Submitted, HandlerInv, RowsAreDated
<1>5. /\ t \in TriggerId /\ e.at \in Nat /\ e.at # None
      /\ origin[t].reviews \in Nat /\ origin[t].at \in Nat /\ prevReview[t] \in Nat
      /\ r.id \in Nat /\ r.at \in Nat /\ reviews[r.id].at \in Nat /\ now \in Nat
  BY <1>1, <1>2, <1>4, Numbers
<1>6. CASE prevReview[t] = None
  <2>1. RequestedAt(k.data, EntryOf(t)) # None
    BY <1>3, <1>5 DEF RequestedAt
  <2>2. r.at >= RequestedAt(k.data, EntryOf(t))
    BY <1>2, <1>3, <1>6, <2>1 DEF Relevant
  <2>3. origin[t].at <= e.at /\ e.at <= now
    BY <1>4, <1>6 DEF RowIsDated
  <2>4. reviews[r.id].at >= origin[t].at
    BY <1>1, <1>3, <1>4, <1>5, <2>2, <2>3 DEF RequestedAt
  <2> QED BY <1>4, <2>3, <2>4 DEF Answers
<1>7. CASE prevReview[t] # None
  <2>1. RequestedAt(k.data, EntryOf(t)) # None
    BY <1>3, <1>5 DEF RequestedAt
  <2>2. r.id # prevReview[t]
    BY <1>2, <1>3, <1>7, <2>1 DEF Relevant
  <2>3. /\ origin[t].reviews <= prevReview[t] /\ prevReview[t] \in DOMAIN reviews
        /\ e.at = reviews[prevReview[t]].at + 1
    BY <1>4, <1>7 DEF RowIsDated
  <2>4. prevReview[t] < r.id /\ r.id > origin[t].reviews
    BY <1>4, <1>5, <1>7, <2>2, <2>3
  <2>5. reviews[prevReview[t]].at < reviews[r.id].at /\ reviews[r.id].at <= now
    BY <1>4, <2>3, <2>4 DEF ReviewInv, GitHubIsOrdered
  <2>6. reviews[prevReview[t]].at \in Nat
    BY <2>3, Numbers
  <2>7. e.at <= now
    BY <1>5, <2>3, <2>5, <2>6
  <2> QED BY <1>4, <2>4, <2>7 DEF Answers
<1> QED BY <1>6, <1>7

\* The newest row is older than a request dated by a review.
LEMMA NewerThanAll ==
  ASSUME ReviewInv, NEW at \in Nat,
         \A t \in LatestIds(triggerLog, ThisPR), e \in triggerLog : e.id = t => e.at < at
  PROVE  \A e \in triggerLog : e.at < at
<1>1. PICK t : t \in LatestIds(triggerLog, ThisPR)
  BY LatestExists DEF ReviewInv, TableIsKeyed, IsKeyed, Time
<1>2. RowsOf(triggerLog, ThisPR) = triggerLog
  BY Numbers DEF RowsOf
<1>3. CASE triggerLog = {}
  BY <1>3
<1>4. CASE triggerLog # {}
  <2>1. PICK e \in triggerLog : e.id = t /\ \A f \in triggerLog : NotOlder(e, f)
    BY <1>1, <1>2, <1>4 DEF LatestIds
  <2>2. e.at < at
    BY <1>1, <2>1
  <2> QED BY <2>1, <2>2, Numbers DEF NotOlder
<1> QED BY <1>3, <1>4

LEMMA HandlerInit == Init => HandlerInv
<1> SUFFICES ASSUME Init PROVE HandlerInv
  OBVIOUS
<1>1. triggerLog = {} /\ settled = {} /\ \A c \in Caller : call[c] = Idle
  BY DEF Init
<1>2. CallsAreNew
  BY <1>1, IdleIsNew DEF CallsAreNew
<1> QED BY <1>1, <1>2
        DEF HandlerInv, OnePending, RowsAreDated, SettledAreRows, CompletedIsAnswered

LEMMA HandlerNext ==
  ASSUME OneHandler, ReviewInv, ReviewInv', HandlerInv, [Next]_vars
  PROVE  HandlerInv'
<1>0. /\ Base /\ TypeOK /\ TypeOK' /\ GitHubIsOrdered /\ CallsAreSound
      /\ \A c \in Caller : CallIsNew(call[c])
  BY DEF ReviewInv, Base, HandlerInv, CallsAreNew
<1>1. CASE GitHubStep
  <2>1. UNCHANGED <<table, call>> /\ Grows
    BY <1>0, <1>1, GitHubEffect
  <2> QED BY <1>0, <2>1, QuietNew
<1>2. ASSUME NEW c \in Caller,
             RequestGuard(c) \/ BeginStatus(c) \/ BeginWait(c)
      PROVE  HandlerInv'
  <2>1. PICK op \in {"request", "status", "wait"} : Begin(c, op) /\ (op = "request" => MayRequest)
    BY <1>2 DEF RequestGuard, BeginStatus, BeginWait
  <2>2. UNCHANGED <<github, now, table>>
    BY <1>2 DEF RequestGuard, BeginStatus, BeginWait
  <2>3. PICK k \in Reading :
          /\ call' = [call EXCEPT ![c] = k]
          /\ k.op = op /\ k.reviews = Len(reviews) /\ k.data = NoData
    BY <1>0, <2>1, BeginEffect
  <2>4. op = "request" => \A e \in triggerLog : e.done
    BY <2>1, Numbers DEF MayRequest, HasPending, RowsOf
  <2>5. ReadingIsNew(k)
    BY <2>3, <2>4, NoDataType, Numbers DEF ReadingIsNew, Submitted, None
  <2>6. CallIsNew(k) /\ k \in Call
    BY <2>5, KindsApart DEF CallIsNew, Call
  <2> QED BY <1>0, <2>2, <2>3, <2>6, Stays, QuietNew
<1>3. ASSUME NEW c \in Caller, ReadReviewers(c) \/ ReadReviews(c) \/ ReadTimeline(c)
      PROVE  HandlerInv'
  <2>1. call[c] \in Reading /\ UNCHANGED <<github, now, table>>
    BY <1>0, <1>3, ReadEffect
  <2>2. PICK k \in Reading :
          /\ call' = [call EXCEPT ![c] = k]
          /\ k.op = call[c].op /\ k.reviews = call[c].reviews
          /\ k.data.review \in {call[c].data.review, LatestCopilotReview}
          /\ k.data.askedAt \in {call[c].data.askedAt, askedAt}
    BY <1>0, <1>3, ReadEffect
  <2>3. ReadingIsNew(call[c])
    BY <1>0, <2>1 DEF CallIsNew
  <2>4. ReadingIsNew(k)
    <3>1. /\ Submitted(LatestCopilotReview)
          /\ LatestCopilotReview # NoReview => LatestCopilotReview.id = Len(reviews)
      BY <1>0, LatestReview
    <3>2. \A e \in triggerLog : /\ origin[e.id].at <= askedAt
                                /\ prevReview[e.id] # None => prevReview[e.id] <= Len(reviews)
      BY Numbers DEF HandlerInv, RowsAreDated, RowIsDated
    <3>3. askedAt <= now /\ call[c].reviews <= Len(reviews)
      BY <1>0, <2>3 DEF GitHubIsOrdered, ReadingIsNew
    <3> QED BY <2>2, <2>3, <3>1, <3>2, <3>3 DEF ReadingIsNew
  <2>5. CallIsNew(k) /\ k \in Call
    BY <2>4, KindsApart DEF CallIsNew, Call
  <2> QED BY <1>0, <2>1, <2>2, <2>5, Stays, QuietNew
<1>4. ASSUME NEW c \in Caller, GivesUpCall(c) PROVE HandlerInv'
  <2>1. UNCHANGED <<github, now, table>> /\ call' = [call EXCEPT ![c] = Idle]
    BY <1>0, <1>4, GivesUpEffect DEF Return
  <2>2. Idle \in Call
    BY DEF Call
  <2> QED BY <1>0, <2>1, <2>2, IdleIsNew, Stays, QuietNew
<1>5. ASSUME NEW c \in Caller, RequestCopilotReview(c) PROVE HandlerInv'
  <2>1. /\ call[c] \in Reading /\ call[c].op = "request"
        /\ Ask /\ UNCHANGED <<now, asks, table>>
        /\ \/ Return(c, NoAnswer)
           \/ \E k \in Recording :
                /\ call' = [call EXCEPT ![c] = k]
                /\ k.op = "request" /\ k.pc = "record"
                /\ k.review = call[c].data.review
                /\ k.origin = [reviews |-> call[c].reviews, at |-> askedAt']
    BY <1>0, <1>5, MutationEffect
  <2>2. Grows /\ UNCHANGED table /\ askedAt' \in Nat
    BY <1>0, <2>1, AskEffect DEF TypeOK
  <2>3. CASE Return(c, NoAnswer)
    <3>1. Idle \in Call /\ call' = [call EXCEPT ![c] = Idle]
      BY <2>3 DEF Call, Return
    <3> QED BY <1>0, <2>2, <3>1, IdleIsNew, QuietNew
  <2>4. ASSUME NEW k \in Recording, call' = [call EXCEPT ![c] = k], k.pc = "record",
               k.review = call[c].data.review,
               k.origin = [reviews |-> call[c].reviews, at |-> askedAt']
        PROVE  HandlerInv'
    <3>1. ReadingIsNew(call[c])
      BY <1>0, <2>1 DEF CallIsNew
    <3>2. /\ triggerLog' = triggerLog /\ reviews' = reviews
          /\ k.origin.reviews = call[c].reviews /\ k.origin.at = askedAt'
      BY <2>1, <2>4 DEF Ask, table
    <3>3. RecordingIsNew(k)'
      BY <2>1, <2>2, <2>4, <3>1, <3>2 DEF RecordingIsNew, ReadingIsNew, Submitted
    <3>4. CallIsNew(k)' /\ k \in Call
      BY <3>3, KindsApart DEF CallIsNew, Call
    <3> QED BY <1>0, <2>2, <2>4, <3>4, QuietNew
  <2> QED BY <2>1, <2>3, <2>4
<1>6. ASSUME NEW c \in Caller, RequestPlan(c) PROVE HandlerInv'
  <2>1. call[c] \in Recording /\ UNCHANGED <<github, now, table>>
    BY <1>0, <1>6, PlanEffect
  <2>2. PICK k \in Recording :
          /\ call' = [call EXCEPT ![c] = k]
          /\ k.review = call[c].review /\ k.origin = call[c].origin
          /\ k.pc = "insertDated" =>
               /\ k.review # NoReview
               /\ \A t \in LatestIds(triggerLog, ThisPR), e \in triggerLog :
                    e.id = t => e.at < k.review.at + 1
    BY <1>0, <1>6, PlanEffect
  <2>3. RecordingIsNew(call[c])
    BY <1>0, <2>1 DEF CallIsNew
  <2>4. k.pc = "insertDated" => \A e \in triggerLog : e.at < k.review.at + 1
    <3>1. k.review # NoReview => k.review.at + 1 \in Nat
      BY DEF Recording, ReviewRecord, Time
    <3> QED BY <2>2, <3>1, NewerThanAll
  <2>5. RecordingIsNew(k)
    BY <2>2, <2>3, <2>4 DEF RecordingIsNew
  <2>6. CallIsNew(k) /\ k \in Call
    BY <2>5, KindsApart DEF CallIsNew, Call
  <2> QED BY <1>0, <2>1, <2>2, <2>6, Stays, QuietNew
<1>7. ASSUME NEW c \in Caller, RequestRecord(c) PROVE HandlerInv'
  BY <1>7, RecordNew
<1>8. ASSUME NEW c \in Caller, Derive(c) PROVE HandlerInv'
  <2>1. /\ call[c] \in Reading /\ call[c].op \in {"status", "wait"}
        /\ UNCHANGED <<github, now, table>>
        /\ \/ \E t \in LatestIds(triggerLog, ThisPR), k \in Settling :
                /\ call' = [call EXCEPT ![c] = k] /\ k.trigger = t
                /\ IsPending(triggerLog, t)
                /\ DeriveStatus(call[c].data, EntryOf(t)) \in Final
           \/ \E a \in Answer : Return(c, a)
           \/ \E k \in Reading :
                /\ call' = [call EXCEPT ![c] = k]
                /\ k.op = call[c].op /\ k.reviews = call[c].reviews
                /\ k.data = NoData
    BY <1>0, <1>8, DeriveEffect
  <2>2. Grows /\ UNCHANGED table /\ ReadingIsNew(call[c])
    BY <1>0, <2>1, Stays DEF CallIsNew
  <2>3. ASSUME NEW k \in Settling, call' = [call EXCEPT ![c] = k],
               IsPending(triggerLog, k.trigger),
               DeriveStatus(call[c].data, EntryOf(k.trigger)) \in Final
        PROVE  HandlerInv'
    <3>1. PICK e \in triggerLog : e.id = k.trigger
      BY <2>3 DEF IsPending
    <3>2. Answers(k.trigger) /\ e.at <= now
      BY <2>1, <2>2, <2>3, <3>1, FinalAnswers
    <3>3. SettlingIsNew(k)
      BY <3>1, <3>2, Numbers DEF SettlingIsNew
    <3>4. CallIsNew(k) /\ k \in Call
      BY <3>3, KindsApart DEF CallIsNew, Call
    <3> QED BY <1>0, <2>2, <2>3, <3>4, QuietNew
  <2>4. ASSUME NEW a, Return(c, a) PROVE HandlerInv'
    <3>1. Idle \in Call /\ call' = [call EXCEPT ![c] = Idle]
      BY <2>4 DEF Call, Return
    <3> QED BY <1>0, <2>2, <3>1, IdleIsNew, QuietNew
  <2>5. ASSUME NEW k \in Reading, call' = [call EXCEPT ![c] = k],
               k.op = call[c].op, k.reviews = call[c].reviews, k.data = NoData
        PROVE  HandlerInv'
    <3>1. ReadingIsNew(k)
      BY <2>1, <2>2, <2>5, NoDataType, Numbers DEF ReadingIsNew, Submitted, None
    <3>2. CallIsNew(k) /\ k \in Call
      BY <3>1, KindsApart DEF CallIsNew, Call
    <3> QED BY <1>0, <2>2, <2>5, <3>2, QuietNew
  <2> QED BY <2>1, <2>3, <2>4, <2>5
<1>9. ASSUME NEW c \in Caller, Settle(c) PROVE HandlerInv'
  <2>1. /\ call[c] \in Settling
        /\ UNCHANGED <<github, now, prevReview, origin>>
        /\ triggerLog' = UpdateCompletedAt(triggerLog, call[c].trigger)
        /\ settled' \in {settled, settled \cup {call[c].trigger}}
        /\ \E a \in Answer : Return(c, a)
    BY <1>0, <1>9, SettleEffect
  <2>2. Answers(call[c].trigger) /\ call[c].trigger <= Cardinality(triggerLog)
    BY <1>0, <2>1 DEF CallIsNew, SettlingIsNew, CallsAreSound, IsSound
  <2>3. \A d \in Caller : call'[d] = call[d] \/ call'[d] = Idle
    BY <1>0, <2>1 DEF Return, TypeOK
  <2>4. PICK id : id = call[c].trigger
    OBVIOUS
  <2>5. Answers(id)
    BY <2>2, <2>4
  <2> QED BY <2>1, <2>2, <2>3, <2>4, <2>5, UpdateNew
<1>10. ASSUME NEW c \in Caller, Wake(c) PROVE HandlerInv'
  <2>1. call[c] \in Reading
    <3>1. call[c] \in Call /\ call[c].op # "idle"
      BY <1>0, <1>10 DEF TypeOK, Wake
    <3> QED BY <1>10, <3>1, CallKinds DEF Wake
  <2> DEFINE k == [call[c] EXCEPT !.pc = "reviewers"]
  <2>2. k \in Reading /\ k.op = call[c].op /\ k.reviews = call[c].reviews /\ k.data = call[c].data
    BY <2>1 DEF Reading
  <2>3. call' = [call EXCEPT ![c] = k] /\ UNCHANGED <<github, now, table>>
    BY <1>0, <1>10 DEF Wake, TypeOK
  <2> HIDE DEF k
  <2>4. ReadingIsNew(call[c])
    BY <1>0, <2>1 DEF CallIsNew
  <2>5. ReadingIsNew(k)
    BY <2>2, <2>4 DEF ReadingIsNew
  <2>6. CallIsNew(k) /\ k \in Call
    BY <2>2, <2>5, KindsApart DEF CallIsNew, Call
  <2> QED BY <1>0, <2>3, <2>6, Stays, QuietNew
<1>11. CASE CancelWatch
  <2>1. UNCHANGED <<github, now, prevReview, origin, settled, call>>
    BY <1>11 DEF CancelWatch
  <2>2. PICK e \in triggerLog : triggerLog' = UpdateCompletedAt(triggerLog, e.id)
    BY <1>11 DEF CancelWatch
  <2>3. \A d \in Caller : call'[d] = call[d]
    BY <2>1
  <2>4. PICK id : id = e.id
    OBVIOUS
  <2> QED BY <2>1, <2>2, <2>3, <2>4, UpdateNew
<1>12. CASE Crash
  <2>1. UNCHANGED <<github, now, table>> /\ call' = [c \in Caller |-> Idle]
    BY <1>12 DEF Crash
  <2>2. CASE Caller = {}
    BY <1>0, <2>1, <2>2, Stays, QuietNew DEF TypeOK
  <2>3. CASE Caller # {}
    <3>1. PICK c \in Caller : TRUE
      BY <2>3
    <3>2. Idle \in Call /\ call' = [call EXCEPT ![c] = Idle]
      BY <1>0, <2>1 DEF Call, OneHandler, TypeOK
    <3> QED BY <1>0, <2>1, <3>2, IdleIsNew, Stays, QuietNew
  <2> QED BY <2>2, <2>3
<1>13. CASE UNCHANGED vars
  <2>1. UNCHANGED <<github, now, table, call>>
    BY <1>13 DEF vars
  <2> QED BY <1>0, <2>1, Stays, QuietNew
<1> QED BY <1>1, <1>2, <1>3, <1>4, <1>5, <1>6, <1>7, <1>8, <1>9, <1>10, <1>11, <1>12, <1>13
        DEF Next, HandlerStep, GivesUpCall, GitHubStep

\* While a request is pending no other is recorded, unless two handlers overlap.
THEOREM OneRequestPending == ASSUME OneHandler PROVE Spec => []OnePending
<1>1. Init => HandlerInv
  BY HandlerInit
<1>2. ReviewInv /\ ReviewInv' /\ HandlerInv /\ [Next]_vars => HandlerInv'
  BY HandlerNext
<1>3. HandlerInv => OnePending
  BY DEF HandlerInv
<1> QED BY <1>1, <1>2, <1>3, ReviewInvariant, PTL DEF Spec

\* A request is not completed by a review from before it, unless two handlers
\* overlap.
THEOREM CompletedRequestsAreAnswered == ASSUME OneHandler PROVE Spec => []CompletedIsAnswered
<1>1. Init => HandlerInv
  BY HandlerInit
<1>2. ReviewInv /\ ReviewInv' /\ HandlerInv /\ [Next]_vars => HandlerInv'
  BY HandlerNext
<1>3. HandlerInv => CompletedIsAnswered
  BY DEF HandlerInv
<1> QED BY <1>1, <1>2, <1>3, ReviewInvariant, PTL DEF Spec

-----------------------------------------------------------------------------
(* One handler at a time, and nobody cancels: the pending row is found.    *)

LEMMA LatestIsNewest ==
  ASSUME NEW log, IsKeyed(log, {ThisPR}, Time)
  PROVE  (\A e \in log : ~e.done => e.id \in LatestIds(log, ThisPR))
         <=> (\A e, f \in log : ~e.done => NotOlder(e, f))
<1>1. RowsOf(log, ThisPR) = log /\ \A e, f \in log : e.id = f.id => e = f
  BY DEF RowsOf, IsKeyed, IsLog, TriggerRow
<1>2. ASSUME NEW e \in log
      PROVE  e.id \in LatestIds(log, ThisPR) <=> \A f \in log : NotOlder(e, f)
  <2>1. LatestIds(log, ThisPR) = {e1.id : e1 \in {e2 \in log : \A f \in log : NotOlder(e2, f)}}
    BY <1>1, <1>2 DEF LatestIds
  <2> QED BY <1>1, <2>1
<1> QED BY <1>2

LEMMA LatestNext ==
  ASSUME OneHandler, GivesUp = FALSE, ReviewInv, ReviewInv', HandlerInv, LatestInv, [Next]_vars
  PROVE  LatestInv'
<1>0. Base /\ TypeOK /\ GitHubIsOrdered /\ CallsAreSound
  BY DEF ReviewInv, Base
<1>1. /\ IsKeyed(triggerLog, {ThisPR}, Time) /\ IsKeyed(triggerLog', {ThisPR}, Time)
      /\ \A e, f \in triggerLog : ~e.done => NotOlder(e, f)
  BY LatestIsNewest DEF ReviewInv, TableIsKeyed, LatestInv, PendingIsLatest
<1>2. SUFFICES /\ \A e \in triggerLog' : e.done => e.at <= now'
               /\ \A e, f \in triggerLog' : ~e.done => NotOlder(e, f)
  BY <1>1, LatestIsNewest DEF LatestInv, DoneIsPast, PendingIsLatest
<1>3. now' \in Nat
  BY DEF ReviewInv, TypeOK, Time
<1>4. CASE triggerLog' = triggerLog
  <2>1. now <= now'
    <3>1. CASE GitHubStep
      BY <1>0, <3>1, GitHubEffect DEF Grows
    <3>2. CASE ~GitHubStep
      <4>1. now' = now
        BY <3>2 DEF Next, HandlerStep, GitHubStep, vars, github, RequestGuard, BeginStatus,
                    BeginWait, ReadReviewers, ReadReviews, ReadTimeline, RequestRefused,
                    RequestCopilotReview, RequestPlan, RequestRecord, LowRate, Derive, Settle,
                    Wake, WaitCancelled, Fails, CancelWatch, Crash
      <4> QED BY <4>1, Numbers
    <3> QED BY <3>1, <3>2
  <2> QED BY <1>1, <1>3, <1>4, <2>1, Numbers DEF LatestInv, DoneIsPast
<1>5. ASSUME NEW c \in Caller, RequestRecord(c)
      PROVE  /\ \A e \in triggerLog' : e.done => e.at <= now'
             /\ \A e, f \in triggerLog' : ~e.done => NotOlder(e, f)
  <2>1. /\ call[c] \in Recording /\ now' = now
    BY <1>0, <1>5, RecordEffect
  <2>2. PICK t \in TriggerId, at \in Time, p \in Nat :
          /\ t = Cardinality(triggerLog) + 1
          /\ triggerLog' = Insert(triggerLog, ThisPR, at)
          /\ \/ /\ call[c].pc = "insertDated"
                /\ p = call[c].review.id /\ at = call[c].review.at + 1
             \/ call[c].pc = "insertNow" /\ p = None /\ at = now
    BY <1>0, <1>5, RecordEffect
  <2> DEFINE new == [id |-> t, pr |-> ThisPR, at |-> at, done |-> FALSE]
  <2>3. triggerLog' = triggerLog \cup {new} /\ new.id = t /\ new.at = at /\ ~new.done
    BY <2>2 DEF Insert
  <2>4. \A e \in triggerLog : e.done /\ e.at <= at
    <3>1. RecordingIsNew(call[c])
      BY <2>1 DEF HandlerInv, CallsAreNew, CallIsNew
    <3>2. \A e \in triggerLog : e.at \in Nat
      BY Numbers
    <3> QED BY <2>2, <3>1, <3>2 DEF RecordingIsNew, LatestInv, DoneIsPast, Time
  <2> HIDE DEF new
  <2>5. \A e \in triggerLog : e.id < t /\ e.id \in Nat /\ e.at \in Nat
    BY <2>2, Numbers
  <2>6. \A f \in triggerLog' : NotOlder(new, f)
    BY <2>2, <2>3, <2>4, <2>5 DEF NotOlder, Time, TriggerId
  <2> QED BY <2>1, <2>3, <2>4, <2>6 DEF LatestInv, DoneIsPast
<1>6. ASSUME NEW c \in Caller, Settle(c)
      PROVE  /\ \A e \in triggerLog' : e.done => e.at <= now'
             /\ \A e, f \in triggerLog' : ~e.done => NotOlder(e, f)
  <2>1. /\ call[c] \in Settling /\ now' = now
        /\ triggerLog' = UpdateCompletedAt(triggerLog, call[c].trigger)
    BY <1>0, <1>6, SettleEffect
  <2>2. \A f \in triggerLog' :
          \E e \in triggerLog : /\ f.id = e.id /\ f.at = e.at
                                /\ f.done <=> e.done \/ e.id = call[c].trigger
    BY <1>1, <2>1, UpdateRows DEF IsKeyed
  <2>3. \A e \in triggerLog : e.id = call[c].trigger => e.at <= now
    BY <2>1 DEF HandlerInv, CallsAreNew, CallIsNew, SettlingIsNew
  <2>4. \A e \in triggerLog' : e.done => e.at <= now'
    BY <2>1, <2>2, <2>3 DEF LatestInv, DoneIsPast
  <2>5. \A e, f \in triggerLog' : ~e.done => NotOlder(e, f)
    <3> SUFFICES ASSUME NEW e \in triggerLog', NEW f \in triggerLog', ~e.done
                 PROVE  NotOlder(e, f)
      OBVIOUS
    <3>1. PICK e0 \in triggerLog : e.id = e0.id /\ e.at = e0.at /\ ~e0.done
      BY <2>2
    <3>2. PICK f0 \in triggerLog : f.id = f0.id /\ f.at = f0.at
      BY <2>2
    <3>3. NotOlder(e0, f0)
      BY <1>1, <3>1
    <3> QED BY <3>1, <3>2, <3>3 DEF NotOlder
  <2> QED BY <2>4, <2>5
<1>7. ~CancelWatch
  BY DEF CancelWatch
<1>8. \/ triggerLog' = triggerLog
      \/ \E c \in Caller : RequestRecord(c) \/ Settle(c)
  BY <1>7 DEF Next, HandlerStep, vars, table, RequestGuard, BeginStatus, BeginWait,
              ReadReviewers, ReadReviews, ReadTimeline, RequestRefused, RequestCopilotReview,
              RequestPlan, LowRate, Derive, Wake, WaitCancelled, Fails, Crash,
              Tick, AskElsewhere, Withdraw, Work, Review
<1> QED BY <1>4, <1>5, <1>6, <1>8

\* A pending request is the row the next poll looks at, unless two handlers
\* overlap or a user cancels a watch.
THEOREM PendingRequestIsLatest ==
  ASSUME OneHandler, GivesUp = FALSE PROVE Spec => []PendingIsLatest
<1>1. Init => HandlerInv
  BY HandlerInit
<1>2. Init => LatestInv
  BY DEF Init, LatestInv, DoneIsPast, PendingIsLatest
<1>3. ReviewInv /\ ReviewInv' /\ HandlerInv /\ [Next]_vars => HandlerInv'
  BY HandlerNext
<1>4. ReviewInv /\ ReviewInv' /\ HandlerInv /\ LatestInv /\ [Next]_vars => LatestInv'
  BY LatestNext
<1>5. LatestInv => PendingIsLatest
  BY DEF LatestInv
<1> QED BY <1>1, <1>2, <1>3, <1>4, <1>5, ReviewInvariant, PTL DEF Spec
=============================================================================
