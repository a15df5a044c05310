------------------------------ MODULE WriteProofs -------------------------------
(***************************************************************************)
(* Theorems about the writing tools, for any calls, any number of changes  *)
(* by others, and any failures.                                            *)
(*                                                                         *)
(* The tools share nothing but the pull request.  The invariant says, call *)
(* by call, what the call has written so far and what its last readings    *)
(* still mean (ReplySound, IssueSound, UpdateSound, ThreadSound), and of   *)
(* each reply and issue what its author had seen (RowsSound).              *)
(***************************************************************************)
EXTENDS WriteProperties, FiniteSetTheorems, SequenceTheorems, WellFoundedInduction, TLAPS

-----------------------------------------------------------------------------
(* Types.                                                                  *)

\* A reply, an issue and a description, with what they say of calls.
Reply == [source : Source, by : Caller, edited : BOOLEAN, checked : SUBSET Nat]
Issue == [source : Source, by : Caller \cup {Others}, touched : BOOLEAN, searched : SUBSET Nat]
Description ==
  [text : Text, by : Caller \cup {Others}, edits : Nat, patched : SUBSET Caller]
Thread == [resolved : BOOLEAN, replies : SUBSET Caller, resolvers : SUBSET Caller]

\* What a call was asked.
Input ==
  [source : Source, head : Tip, snapshot : Reading]
  \cup [source : Source, head : Tip, number : Nat]
  \cup [head : Tip, text : Text, new : Text]
  \cup [resolve : BOOLEAN]
  \cup [head : Tip]

\* What the tools answer.
Codes ==
  {"PRECONDITION_FAILED", "READ_FAILED", "ALREADY_REPLIED", "SNAPSHOT_CHANGED",
   "FOLLOW_UP_EXISTS", "WRITE_OUTCOME_UNKNOWN", "POST_WRITE_MISMATCH", "created",
   "read", "read, other head",
   "unchanged", "UPDATE_OUTCOME_UNKNOWN", "APP_IDENTITY_FAILED", "POST_UPDATE_MISMATCH", "updated",
   "already resolved", "resolved", "error", "replyError", "replied",
   "replied, resolved", "replied, resolveError", "replied, thread_already_resolved",
   "refused", "posted", "outcome may be unknown"}

\* A call under way, and one that is over.
Active ==
  [op : Op, at : Place, input : Input, read : Reading, context : Context,
   found : SUBSET Nat, left : SUBSET Nat, existing : SUBSET Nat, about : Nat,
   kept : Seq(BOOLEAN \cup Description), good : BOOLEAN]
Ended == [op : Op, at : {"done"}, input : Input, code : Codes, mayHaveChanged : BOOLEAN]

WorldTyped ==
  /\ pr \in [open : BOOLEAN, head : Tip] /\ talk \in Nat /\ sources \subseteq Source
  /\ replies \in Seq(Reply)
  /\ issues \in Seq(Issue) /\ indexed \subseteq DOMAIN issues
  /\ description \in Description
  /\ thread \in Thread
  /\ changes \in 0..MaxChanges /\ faults \in 0..MaxFaults

IsAsked(k) ==
  /\ k.op \in FollowUp => k.input.source \in Source
  /\ k.op = "get" => k.input.number \in Nat
  /\ k.op = "update" => k.input.new \in Text

CallsTyped ==
  /\ call \in [Caller -> {Unused} \cup Active \cup Ended]
  /\ \A c \in Caller : IsAsked(call[c])

-----------------------------------------------------------------------------
(* What a call has written, and what it knows.                             *)

\* A call of reply_to_pr_comment and the replies: it posts once, says so, and
\* none of the replies it looked through answers its source.
ReplySound(c, k, rs) ==
  /\ \A i \in DOMAIN rs : rs[i].by = c =>
       /\ k.op = "reply" /\ k.at \in {"verify", "readback", "final", "done"}
       /\ rs[i].source = k.input.source
  /\ \A i, j \in DOMAIN rs : rs[i].by = c /\ rs[j].by = c => i = j
  /\ k.op = "reply" =>
       /\ k.at \in {"verify", "readback", "final"} => \E i \in DOMAIN rs : rs[i].by = c
       /\ k.at = "done" /\ ~k.mayHaveChanged => \A i \in DOMAIN rs : rs[i].by # c
       /\ k.at = "done" /\ k.code = "created" => \E i \in DOMAIN rs : rs[i].by = c
       /\ k.at \in {"refs", "post"} =>
            \A i \in k.found : i \in DOMAIN rs /\ rs[i].source # k.input.source

\* A call of create_follow_up_issue and the issues: the same; of the issues it
\* found, those it has read and those of the App are told apart.
IssueSound(c, k, is) ==
  /\ \A n \in DOMAIN is : is[n].by = c =>
       /\ k.op = "issue" /\ k.at \in {"issue", "issueAgain", "final", "done"}
       /\ is[n].source = k.input.source
  /\ \A m, n \in DOMAIN is : is[m].by = c /\ is[n].by = c => m = n
  /\ k.op = "issue" =>
       /\ k.at \in {"issue", "issueAgain", "final"} => k.about \in DOMAIN is /\ is[k.about].by = c
       /\ k.at = "done" /\ ~k.mayHaveChanged => \A n \in DOMAIN is : is[n].by # c
       /\ k.at = "done" /\ k.code = "created" => \E n \in DOMAIN is : is[n].by = c
       /\ k.at \in {"candidates", "candidate", "again", "refs", "post"} =>
            /\ k.found \subseteq DOMAIN is /\ k.left \subseteq k.found
            /\ \A n \in k.found \ k.left : is[n].by \in Caller => n \in k.existing
       /\ k.at = "candidate" => k.about \in k.left
       /\ k.at \in {"again", "refs", "post"} => \A n \in k.found : is[n].by \notin Caller

\* A call of update_pr_description and the description.
UpdateSound(c, k, d) ==
  /\ c \in d.patched => k.op = "update" /\ k.at \in {"after", "done"}
  /\ k.op = "update" =>
       /\ k.at = "after" => c \in d.patched
       /\ k.at = "done" /\ ~k.mayHaveChanged => c \notin d.patched
       /\ k.at = "patch" => /\ k.about <= d.edits
                            /\ k.about = d.edits => d.text = k.input.text
       /\ k.at = "after" => \/ k.kept[1].text = k.input.text
                            \/ k.kept[1].edits > k.about
  /\ k.at = "done" /\ k.code = "updated" => c \in d.patched

\* A call about the review thread.
ThreadSound(c, k, t) ==
  /\ k.op = "reply and resolve" =>
       /\ k.at \in {"state", "resolve"} => c \in t.replies
       /\ c \in t.resolvers => c \in t.replies /\ k.at = "done" /\ k.code # "replyError"
  /\ k.at = "done" /\ k.code \in {"replied", "replied, resolved", "replied, resolveError",
                                  "replied, thread_already_resolved"} => c \in t.replies
  /\ c \in t.resolvers => k.op \in {"resolve", "reply and resolve"} /\ k.at = "done"

\* "created" is what the tools that post say.
CodeSound(k) == k.at = "done" /\ k.code = "created" => k.op \in Writing

RowsSound ==
  /\ \A j \in DOMAIN replies : \A i \in replies[j].checked :
       i \in DOMAIN replies /\ replies[i].source # replies[j].source
  /\ \A n \in DOMAIN issues : \A m \in issues[n].searched :
       m \in DOMAIN issues /\ issues[m].by \notin Caller

\* What call c knows and has done is so, of these replies, issues, this
\* description and this thread.
Sound(c, k, rs, is, d, t) ==
  /\ ReplySound(c, k, rs)
  /\ IssueSound(c, k, is)
  /\ UpdateSound(c, k, d)
  /\ ThreadSound(c, k, t)
  /\ CodeSound(k)

CallsSound ==
  \A c \in Caller : Sound(c, call[c], replies, issues, description, thread)

\* The issues that were there before come first.
OthersFirst ==
  \E k \in 0..Number :
    k <= Len(issues) /\ \A n \in DOMAIN issues : issues[n].by \in Caller <=> n > k

-----------------------------------------------------------------------------
(* Types are kept.                                                         *)

LEMMA ContextType ==
  ASSUME WorldTyped
  PROVE  pr \in Context
  BY DEF WorldTyped, Context

LEMMA SnapshotType ==
  ASSUME WorldTyped
  PROVE  Snapshot \in Reading
<1> DEFINE bits == [i \in DOMAIN replies |-> replies[i].edited]
<1>1. DOMAIN replies = 1..Len(replies) /\ Len(replies) \in Nat
      /\ \A i \in DOMAIN replies : replies[i].edited \in BOOLEAN
  <2>1. replies \in Seq(Reply)
    BY DEF WorldTyped
  <2> HIDE DEF WorldTyped
  <2>2. \A e \in Reply : e.edited \in BOOLEAN
    BY DEF Reply
  <2> QED
    BY <2>1, <2>2, LenProperties, ElementOfSeq
<1>2. bits \in Seq(BOOLEAN)
  <2> \A i \in 1..Len(replies) : replies[i].edited \in BOOLEAN
    BY <1>1
  <2> bits = [i \in 1..Len(replies) |-> replies[i].edited]
    BY <1>1
  <2> QED
    BY <1>1, IsASeq
<1> HIDE DEF bits
<1>3. Snapshot = [head |-> pr.head, talk |-> talk, sources |-> sources, replies |-> bits]
  BY DEF Snapshot, bits
<1> QED
  BY <1>2, <1>3 DEF Reading, WorldTyped

\* The records of calls.
LEMMA ActiveFields ==
  ASSUME NEW k \in Active
  PROVE  /\ k.op \in Op /\ k.at \in Place /\ k.input \in Input
         /\ k.found \subseteq Nat /\ k.left \subseteq Nat /\ k.existing \subseteq Nat
         /\ k.about \in Nat /\ k.at # "done" /\ k # Unused /\ k.op # "none"
<1>1. "done" \notin Place /\ "unused" \notin Place /\ "none" \notin Op
  BY DEF Place, Op, FollowUp, Writing
<1> HIDE DEF Place, Op, Input
<1> QED
  BY <1>1 DEF Active, Unused

LEMMA NewCallType ==
  ASSUME NEW op \in Op, NEW at \in Place, NEW input \in Input
  PROVE  /\ Call(op, at, input) \in Active
         /\ Call(op, at, input).op = op /\ Call(op, at, input).at = at
         /\ Call(op, at, input).input = input
<1>1. NoSnapshot \in Reading /\ NoContext \in Context
  BY EmptySeq DEF NoSnapshot, NoContext, Reading, Context
<1>2. << >> \in Seq(BOOLEAN \cup Description)
  OBVIOUS
<1> HIDE DEF NoSnapshot, NoContext
<1> QED
  BY <1>1, <1>2 DEF Call, Active

LEMMA AnswerType ==
  ASSUME NEW op \in Op, NEW input \in Input, NEW code \in Codes, NEW m \in BOOLEAN
  PROVE  Answer(op, input, code, m) \in Ended
  BY DEF Answer, Ended

\* A call under way: the only ones a handler's step is about.
LEMMA AtIsActive ==
  ASSUME CallsTyped, NEW c \in Caller, call[c].at # "done", call[c].op # "none"
  PROVE  call[c] \in Active
  BY DEF CallsTyped, Ended, Unused

\* k becomes k2.
Becomes(k, k2) ==
  /\ k2 \in Active \cup Ended
  /\ k2.op = k.op /\ k2.input = k.input

\* The call of c goes on or ends.
Moves(c) ==
  \E k2 : Becomes(call[c], k2) /\ call' = [call EXCEPT ![c] = k2]

LEMMA EndsMoves ==
  ASSUME NEW c \in Caller, call[c] \in Active, NEW code \in Codes, NEW m \in BOOLEAN,
         Ends(c, code, m)
  PROVE  Moves(c)
<1> DEFINE k2 == Answer(call[c].op, call[c].input, code, m)
<1>1. k2 \in Ended /\ k2.op = call[c].op /\ k2.input = call[c].input
  BY ActiveFields, AnswerType DEF Answer
<1> HIDE DEF k2
<1> QED
  BY <1>1 DEF Ends, Moves, Becomes, k2

LEMMA GoesOnMoves ==
  ASSUME NEW c \in Caller, NEW k2 \in Active, k2.op = call[c].op, k2.input = call[c].input,
         GoesOn(c, k2)
  PROVE  Moves(c)
  BY DEF GoesOn, Moves, Becomes

LEMMA MovesTyped ==
  ASSUME CallsTyped, NEW c \in Caller, Moves(c)
  PROVE  CallsTyped'
  BY DEF CallsTyped, Moves, Becomes, IsAsked

-----------------------------------------------------------------------------
(* A call stays sound as it goes on.                                       *)

\* The call of c becomes one that is sound of what is there then.
Keeps(c) ==
  \E k2 :
    /\ Becomes(call[c], k2) /\ call' = [call EXCEPT ![c] = k2]
    /\ Sound(c, k2, replies', issues', description', thread')

WorldStays == UNCHANGED <<replies, issues, description, thread>>

IsSound(c) == Sound(c, call[c], replies, issues, description, thread)

ThreadCodes == {"replied", "replied, resolved", "replied, resolveError",
                "replied, thread_already_resolved"}

\* The tools of FollowUps do not touch the description or the thread.
LEMMA FollowUpSound ==
  ASSUME NEW c, NEW k, NEW k2, NEW rs, NEW is, NEW d, NEW t,
         Sound(c, k, rs, is, d, t), k.op \in FollowUp, k2.op = k.op,
         k2.at = "done" => /\ k2.code \notin ThreadCodes /\ k2.code # "updated"
                           /\ k2.code = "created" => k2.op \in Writing
  PROVE  /\ UpdateSound(c, k2, d) /\ ThreadSound(c, k2, t) /\ CodeSound(k2)
         /\ k.op # "reply" => ReplySound(c, k2, rs)
         /\ k.op # "issue" => IssueSound(c, k2, is)
<1>1. UpdateSound(c, k2, d)
  BY DEF Sound, UpdateSound, FollowUp, Writing
<1>2. ThreadSound(c, k2, t)
  BY DEF Sound, ThreadSound, FollowUp, Writing, ThreadCodes
<1>3. CodeSound(k2)
  BY DEF CodeSound
<1>4. k.op # "reply" => ReplySound(c, k2, rs)
  BY DEF Sound, ReplySound
<1>5. k.op # "issue" => IssueSound(c, k2, is)
  BY DEF Sound, IssueSound
<1> QED
  BY <1>1, <1>2, <1>3, <1>4, <1>5

\* It ends, and says so if it has written.
LEMMA FollowUpEnds ==
  ASSUME NEW c \in Caller, call[c] \in Active, IsSound(c), WorldStays,
         call[c].op \in FollowUp,
         NEW code \in Codes, NEW m \in BOOLEAN, Ends(c, code, m),
         code \notin ThreadCodes /\ code # "updated",
         code = "created" => call[c].op \in Writing /\ call[c].at = "final",
         Written(call[c]) => m
  PROVE  Keeps(c)
<1> DEFINE k == call[c]
           k2 == Answer(k.op, k.input, code, m)
<1>1. /\ k2 \in Ended /\ k2.op = k.op /\ k2.input = k.input
      /\ k2.at = "done" /\ k2.code = code /\ k2.mayHaveChanged = m
  BY ActiveFields, AnswerType DEF Answer
<1>2. call' = [call EXCEPT ![c] = k2]
  BY DEF Ends
<1> HIDE DEF k2
<1>3. ReplySound(c, k2, replies)
  <2>1. CASE k.op = "reply"
    <3>1. ReplySound(c, k, replies)
      BY DEF IsSound, Sound
    <3>2. ~k2.mayHaveChanged => k.at \notin {"verify", "readback", "final", "done"}
      BY <1>1, <2>1, ActiveFields DEF Written, Writing
    <3>3. k2.code = "created" => k.at = "final"
      BY <1>1
    <3> HIDE DEF k
    <3> QED
      BY <1>1, <2>1, <3>1, <3>2, <3>3 DEF ReplySound
  <2> QED
    BY <1>1, <2>1, FollowUpSound DEF IsSound
<1>4. IssueSound(c, k2, issues)
  <2>1. CASE k.op = "issue"
    <3>1. IssueSound(c, k, issues)
      BY DEF IsSound, Sound
    <3>2. ~k2.mayHaveChanged => k.at \notin {"issue", "issueAgain", "final", "done"}
      BY <1>1, <2>1, ActiveFields DEF Written, Writing
    <3>3. k2.code = "created" => k.at = "final"
      BY <1>1
    <3> HIDE DEF k
    <3> QED
      BY <1>1, <2>1, <3>1, <3>2, <3>3 DEF IssueSound
  <2> QED
    BY <1>1, <2>1, FollowUpSound DEF IsSound
<1>5. Sound(c, k2, replies, issues, description, thread)
  BY <1>1, <1>3, <1>4, FollowUpSound DEF IsSound, Sound
<1> QED
  BY <1>1, <1>2, <1>5 DEF Keeps, Becomes, WorldStays

\* It goes on, and neither says nor forgets that it has written.
LEMMA FollowUpGoesOn ==
  ASSUME NEW c \in Caller, call[c] \in Active, IsSound(c), WorldStays,
         call[c].op \in FollowUp,
         NEW k2 \in Active, k2.op = call[c].op, k2.input = call[c].input, GoesOn(c, k2),
         call[c].op = "reply" => ReplySound(c, k2, replies),
         call[c].op = "issue" => IssueSound(c, k2, issues)
  PROVE  Keeps(c)
<1>1. k2.at # "done"
  BY ActiveFields
<1>2. Sound(c, k2, replies, issues, description, thread)
  BY <1>1, FollowUpSound DEF IsSound, Sound
<1> QED
  BY <1>2 DEF Keeps, Becomes, GoesOn, WorldStays

\* Far from its writing and before it has looked, anything is sound.
LEMMA ReplyBefore ==
  ASSUME NEW c, NEW k, NEW k2, NEW rs, ReplySound(c, k, rs), k2.op = k.op, k2.input = k.input,
         k.at \notin {"verify", "readback", "final", "done"},
         k2.at \notin {"verify", "readback", "final", "done", "refs", "post"}
  PROVE  ReplySound(c, k2, rs)
  BY DEF ReplySound

LEMMA IssueBefore ==
  ASSUME NEW c, NEW k, NEW k2, NEW is, IssueSound(c, k, is), k2.op = k.op, k2.input = k.input,
         k.at \notin {"issue", "issueAgain", "final", "done"},
         k2.at \notin {"issue", "issueAgain", "final", "done",
                       "candidates", "candidate", "again", "refs", "post"}
  PROVE  IssueSound(c, k2, is)
  BY DEF IssueSound

LEMMA ReplyAfter ==
  ASSUME NEW c, NEW k, NEW k2, NEW rs, ReplySound(c, k, rs), k2.op = k.op, k2.input = k.input,
         k.op = "reply", k.at \in {"verify", "readback", "final"},
         k2.at \in {"verify", "readback", "final"}
  PROVE  ReplySound(c, k2, rs)
  BY DEF ReplySound

LEMMA IssueAfter ==
  ASSUME NEW c, NEW k, NEW k2, NEW is, IssueSound(c, k, is), k2.op = k.op, k2.input = k.input,
         k.op = "issue", k.at \in {"issue", "issueAgain", "final"},
         k2.at \in {"issue", "issueAgain", "final"}, k2.about = k.about
  PROVE  IssueSound(c, k2, is)
  BY DEF IssueSound

\* A set of natural numbers has a least one.
LEMMA LeastExists ==
  ASSUME NEW T, T \subseteq Nat, T # {}
  PROVE  \E i \in T : \A j \in T : i <= j
<1> DEFINE R == OpToRel(<, Nat)
<1>1. IsWellFoundedOn(R, Nat)
  BY NatLessThanWellFounded
<1>2. \A i, j \in Nat : j < i => <<j, i>> \in R
  BY DEF OpToRel
<1> HIDE DEF R
<1>3. PICK i \in T : \A j \in T : <<j, i>> \notin R
  BY <1>1, WFMin
<1>4. \A j \in T : ~(j < i)
  BY <1>2, <1>3
<1> QED
  BY <1>4

\* The steps of FollowUps that read.
FollowUpReads(c) ==
  \/ ReadDiscussion(c) \/ ReadContext(c) \/ CheckRefs(c)
  \/ LookForReply(c) \/ ReadPrevious(c) \/ VerifyReply(c) \/ ReadBackReply(c)
  \/ FindIssues(c) \/ ReadCandidate(c) \/ ReadCandidateAgain(c) \/ Candidates(c)
  \/ ReadAgain(c) \/ ReadIssue(c) \/ ReadIssueAgain(c) \/ GotIssue(c)
  \/ Confirm(c) \/ FollowUpFails(c)

LEMMA FollowUpReadsKeep ==
  ASSUME WorldTyped, CallsTyped, NEW c \in Caller, IsSound(c), FollowUpReads(c)
  PROVE  Keeps(c)
<1> DEFINE k == call[c]
           R(k2) == k.op = "reply" => ReplySound(c, k2, replies)
           I(k2) == k.op = "issue" => IssueSound(c, k2, issues)
<1>1. /\ call[c] \in Active /\ call[c].op \in FollowUp
      /\ WorldStays
      /\ ReplySound(c, call[c], replies) /\ IssueSound(c, call[c], issues)
  <2>1. call[c].op \in FollowUp /\ call[c].at # "done"
    BY DEF FollowUpReads, ReadDiscussion, ReadContext, CheckRefs, LookForReply, ReadPrevious,
           VerifyReply, ReadBackReply, FindIssues, ReadCandidate, ReadCandidateAgain, Candidates,
           ReadAgain, ReadIssue, ReadIssueAgain, GotIssue, Confirm, FollowUpFails,
           At, FollowUp, Writing
  <2>2. WorldStays
    BY DEF FollowUpReads, ReadDiscussion, ReadContext, CheckRefs, LookForReply, ReadPrevious,
           VerifyReply, ReadBackReply, FindIssues, ReadCandidate, ReadCandidateAgain, Candidates,
           ReadAgain, ReadIssue, ReadIssueAgain, GotIssue, Confirm, FollowUpFails,
           Reads, discussion, issueVars, WorldStays
  <2>3. call[c].op # "none"
    BY <2>1 DEF FollowUp, Writing
  <2> QED
    BY <2>1, <2>2, <2>3, AtIsActive DEF IsSound, Sound
<1>2. ASSUME NEW k2 \in Active, k2.op = k.op, k2.input = k.input, GoesOn(c, k2), R(k2), I(k2)
      PROVE  Keeps(c)
  BY <1>1, <1>2, FollowUpGoesOn
<1>3. ASSUME NEW code \in {"PRECONDITION_FAILED", "READ_FAILED", "ALREADY_REPLIED",
                           "SNAPSHOT_CHANGED", "FOLLOW_UP_EXISTS", "WRITE_OUTCOME_UNKNOWN",
                           "POST_WRITE_MISMATCH", "read", "read, other head"},
             NEW m \in BOOLEAN, Written(k) => m, Ends(c, code, m)
      PROVE  Keeps(c)
  <2>1. code \notin ThreadCodes /\ code # "updated" /\ code # "created"
    BY DEF ThreadCodes
  <2>2. code \in Codes
    BY DEF Codes
  <2> QED
    BY <1>1, <1>3, <2>1, <2>2, FollowUpEnds
<1>4. Snapshot \in Reading /\ pr \in Context
  BY SnapshotType, ContextType
<1>5. CASE ReadDiscussion(c)
  <2> DEFINE k2 == [k EXCEPT !.read = Snapshot, !.at = "context"]
  <2>1. k2 \in Active /\ k2.op = k.op /\ k2.input = k.input /\ k2.at = "context"
    BY <1>1, <1>4 DEF Active, Place
  <2>2. k.at = "read" /\ GoesOn(c, k2)
    BY <1>5 DEF ReadDiscussion, At
  <2> HIDE DEF k2
  <2>3. R(k2) /\ I(k2)
    BY <1>1, <2>1, <2>2, ReplyBefore, IssueBefore
  <2> QED
    BY <1>2, <2>1, <2>2, <2>3
<1>6. CASE ReadContext(c)
  <2>1. k.at = "context" /\ ~Written(k)
    BY <1>6 DEF ReadContext, At, Written
  <2>2. CASE Ends(c, "PRECONDITION_FAILED", FALSE)
    BY <1>3, <2>1, <2>2
  <2>3. ASSUME NEW at \in {"full", "find"}, GoesOn(c, [k EXCEPT !.context = pr, !.at = at])
        PROVE  Keeps(c)
    <3> DEFINE k2 == [k EXCEPT !.context = pr, !.at = at]
    <3>1. k2 \in Active /\ k2.op = k.op /\ k2.input = k.input /\ k2.at = at
      BY <1>1, <1>4 DEF Active, Place
    <3> HIDE DEF k2
    <3>2. R(k2) /\ I(k2)
      BY <1>1, <2>1, <3>1, ReplyBefore, IssueBefore
    <3> QED
      BY <1>2, <2>3, <3>1, <3>2 DEF k2
  <2>4. ASSUME k.op = "get",
               GoesOn(c, [k EXCEPT !.context = pr, !.about = k.input.number, !.at = "issue"])
        PROVE  Keeps(c)
    <3>1. k.input.number \in Nat
      BY <2>4 DEF CallsTyped, IsAsked
    <3> DEFINE k2 == [k EXCEPT !.context = pr, !.about = k.input.number, !.at = "issue"]
    <3>2. k2 \in Active /\ k2.op = k.op /\ k2.input = k.input
      BY <1>1, <1>4, <3>1 DEF Active, Place
    <3> QED
      BY <1>2, <2>4, <3>2
  <2>5. \/ Ends(c, "PRECONDITION_FAILED", FALSE)
        \/ GoesOn(c, [k EXCEPT !.context = pr, !.at = "full"])
        \/ GoesOn(c, [k EXCEPT !.context = pr, !.at = "find"])
        \/ /\ k.op = "get"
           /\ GoesOn(c, [k EXCEPT !.context = pr, !.about = k.input.number, !.at = "issue"])
    BY <1>6 DEF ReadContext
  <2> QED
    BY <2>2, <2>3, <2>4, <2>5
<1>7. CASE CheckRefs(c)
  <2>1. k.at = "refs" /\ ~Written(k)
    BY <1>7 DEF CheckRefs, At, Written
  <2> DEFINE k2 == [k EXCEPT !.at = "post"]
  <2>2. /\ k2 \in Active /\ k2.op = k.op /\ k2.input = k.input /\ k2.at = "post"
        /\ k2.found = k.found /\ k2.left = k.left /\ k2.existing = k.existing
    BY <1>1 DEF Active, Place
  <2>3. GoesOn(c, k2) \/ Ends(c, "PRECONDITION_FAILED", FALSE)
    BY <1>7 DEF CheckRefs
  <2> HIDE DEF k2
  <2>4. R(k2) /\ I(k2)
    BY <1>1, <2>1, <2>2 DEF ReplySound, IssueSound
  <2> QED
    BY <1>2, <1>3, <2>1, <2>2, <2>3, <2>4
<1>8. CASE LookForReply(c)
  <2>1. k.op = "reply" /\ k.at = "full" /\ ~Written(k)
    BY <1>8 DEF LookForReply, At, Written
  <2> DEFINE there == Answering(k.input.source)
             found == [k EXCEPT !.found = DOMAIN replies, !.at = "refs"]
             Seen(i) == [k EXCEPT !.about = i, !.good = replies[i].edited, !.at = "previous"]
  <2>2. /\ DOMAIN replies \subseteq Nat
        /\ \A i \in DOMAIN replies : replies[i].edited \in BOOLEAN
    <3>1. replies \in Seq(Reply)
      BY DEF WorldTyped
    <3>2. \A e \in Reply : e.edited \in BOOLEAN
      BY DEF Reply
    <3> QED
      BY <3>1, <3>2, LenProperties, ElementOfSeq
  <2>3. CASE Ends(c, "PRECONDITION_FAILED", FALSE)
    BY <1>3, <2>1, <2>3
  <2>4. CASE there = {} /\ GoesOn(c, found)
    <3>1. /\ found \in Active /\ found.op = k.op /\ found.input = k.input
          /\ found.at = "refs" /\ found.found = DOMAIN replies
      BY <1>1, <2>2 DEF Active, Place
    <3>2. \A i \in DOMAIN replies : replies[i].source # k.input.source
      BY <2>4 DEF Answering
    <3> HIDE DEF found
    <3>3. R(found)
      BY <1>1, <2>1, <3>1, <3>2 DEF ReplySound
    <3> QED
      BY <1>2, <2>1, <2>4, <3>1, <3>3
  <2>5. ASSUME NEW i \in DOMAIN replies, GoesOn(c, Seen(i))
        PROVE  Keeps(c)
    <3>1. /\ Seen(i) \in Active /\ Seen(i).op = k.op /\ Seen(i).input = k.input
          /\ Seen(i).at = "previous"
      BY <1>1, <2>2 DEF Active, Place
    <3> HIDE DEF Seen
    <3>2. R(Seen(i))
      BY <1>1, <2>1, <3>1, ReplyBefore
    <3> QED
      BY <1>2, <2>1, <2>5, <3>1, <3>2
  <2>6. \/ Ends(c, "PRECONDITION_FAILED", FALSE)
        \/ there = {} /\ GoesOn(c, found)
        \/ /\ there # {}
           /\ GoesOn(c, Seen(CHOOSE i \in there : \A j \in there : i <= j))
    BY <1>8 DEF LookForReply
  <2>7. there # {} => (CHOOSE i \in there : \A j \in there : i <= j) \in DOMAIN replies
    <3>1. there \subseteq Nat /\ there \subseteq DOMAIN replies
      BY <2>2 DEF Answering
    <3> HIDE DEF there
    <3>2. there # {} => \E i \in there : \A j \in there : i <= j
      BY <3>1, LeastExists
    <3> QED
      BY <3>1, <3>2
  <2> HIDE DEF there, found, Seen
  <2> QED
    BY <2>3, <2>4, <2>5, <2>6, <2>7
<1>9. CASE ReadPrevious(c)
  BY <1>3, <1>9 DEF ReadPrevious, At, Written
<1>10. CASE VerifyReply(c)
  <2> DEFINE good == ~replies[k.about].edited /\ pr.head = k.context.head
             k2 == [k EXCEPT !.good = good, !.at = "readback"]
  <2>1. k2 \in Active /\ k2.op = k.op /\ k2.input = k.input /\ k2.at = "readback"
    BY <1>1 DEF Active, Place
  <2>2. k.op = "reply" /\ k.at = "verify" /\ GoesOn(c, k2)
    BY <1>10 DEF VerifyReply, At
  <2> HIDE DEF k2
  <2>3. R(k2)
    BY <1>1, <2>1, <2>2, ReplyAfter
  <2> QED
    BY <1>2, <2>1, <2>2, <2>3
<1>11. CASE ReadBackReply(c)
  <2> DEFINE k2 == [k EXCEPT !.at = "final"]
  <2>1. k2 \in Active /\ k2.op = k.op /\ k2.input = k.input /\ k2.at = "final"
    BY <1>1 DEF Active, Place
  <2>2. /\ k.op = "reply" /\ k.at = "readback"
        /\ GoesOn(c, k2) \/ Ends(c, "POST_WRITE_MISMATCH", TRUE)
    BY <1>11 DEF ReadBackReply, At
  <2> HIDE DEF k2
  <2>3. R(k2)
    BY <1>1, <2>1, <2>2, ReplyAfter
  <2> QED
    BY <1>2, <1>3, <2>1, <2>2, <2>3
<1>12. CASE FindIssues(c)
  <2>1. k.op = "issue" /\ k.at = "find" /\ ~Written(k)
    BY <1>12 DEF FindIssues, At, Written
  <2> DEFINE hits == {n \in indexed : issues[n].source = k.input.source}
             k2(listed) == [k EXCEPT !.found = hits, !.left = listed, !.at = "candidates"]
  <2>2. hits \subseteq DOMAIN issues /\ DOMAIN issues \subseteq Nat
    <3>1. issues \in Seq(Issue) /\ indexed \subseteq DOMAIN issues
      BY DEF WorldTyped
    <3> QED
      BY <3>1, LenProperties
  <2>3. \/ GoesOn(c, k2(hits))
        \/ Ends(c, "READ_FAILED", FALSE)
    BY <1>12 DEF FindIssues, IsComplete
  <2> HIDE DEF hits
  <2>4. /\ k2(hits) \in Active /\ k2(hits).op = k.op /\ k2(hits).input = k.input
        /\ k2(hits).at = "candidates" /\ k2(hits).found = hits /\ k2(hits).left = hits
    BY <1>1, <2>2 DEF Active, Place
  <2> HIDE DEF k2
  <2>5. I(k2(hits))
    BY <1>1, <2>1, <2>2, <2>4 DEF IssueSound
  <2> QED
    BY <1>2, <1>3, <2>1, <2>3, <2>4, <2>5
<1>13. CASE ReadCandidate(c)
  <2>1. PICK n \in k.left :
          /\ k.op = "issue" /\ k.at = "candidates"
          /\ GoesOn(c, [k EXCEPT !.about = n, !.kept = <<issues[n].touched>>, !.at = "candidate"])
    BY <1>13 DEF ReadCandidate, At
  <2> DEFINE k2 == [k EXCEPT !.about = n, !.kept = <<issues[n].touched>>, !.at = "candidate"]
  <2>2. n \in DOMAIN issues /\ n \in Nat
    BY <1>1, <2>1, ActiveFields DEF IssueSound
  <2>3. <<issues[n].touched>> \in Seq(BOOLEAN \cup Description)
    <3>1. issues[n] \in Issue
      BY <2>2, ElementOfSeq DEF WorldTyped
    <3>2. issues[n].touched \in BOOLEAN
      BY <3>1 DEF Issue
    <3> QED
      BY <3>2
  <2>4. /\ k2 \in Active /\ k2.op = k.op /\ k2.input = k.input
        /\ k2.at = "candidate" /\ k2.about = n
        /\ k2.found = k.found /\ k2.left = k.left /\ k2.existing = k.existing
    BY <1>1, <2>2, <2>3 DEF Active, Place
  <2> HIDE DEF k2
  <2>5. I(k2)
    BY <1>1, <2>1, <2>4 DEF IssueSound
  <2> QED
    BY <1>2, <2>1, <2>4, <2>5 DEF k2
<1>14. CASE ReadCandidateAgain(c)
  <2>1. k.op = "issue" /\ k.at = "candidate" /\ ~Written(k)
    BY <1>14 DEF ReadCandidateAgain, At, Written
  <2> DEFINE n == k.about
             more == IF issues[n].by \in Caller THEN k.existing \cup {n} ELSE k.existing
             k2 == [k EXCEPT !.left = k.left \ {n}, !.at = "candidates", !.about = 0,
                             !.kept = << >>, !.existing = more]
  <2>2. GoesOn(c, k2) \/ Ends(c, "SNAPSHOT_CHANGED", FALSE)
    BY <1>1, <1>14 DEF ReadCandidateAgain, Active
  <2>3. more \subseteq Nat /\ k.left \ {n} \subseteq Nat /\ << >> \in Seq(BOOLEAN \cup Description)
    BY <1>1, ActiveFields
  <2>4. /\ k.existing \subseteq more
        /\ issues[n].by \in Caller => n \in more
    OBVIOUS
  <2> HIDE DEF more
  <2>5. /\ k2 \in Active /\ k2.op = k.op /\ k2.input = k.input
        /\ k2.at = "candidates" /\ k2.found = k.found
        /\ k2.left = k.left \ {n} /\ k2.existing = more
    BY <1>1, <2>3 DEF Active, Place
  <2> HIDE DEF k2
  <2>6. I(k2)
    BY <1>1, <2>1, <2>4, <2>5 DEF IssueSound
  <2> QED
    BY <1>2, <1>3, <2>1, <2>2, <2>5, <2>6
<1>15. CASE Candidates(c)
  <2>1. k.op = "issue" /\ k.at = "candidates" /\ k.left = {} /\ ~Written(k)
    BY <1>15 DEF Candidates, At, Written
  <2> DEFINE k2 == [k EXCEPT !.at = "again"]
  <2>2. \/ k.existing = {} /\ GoesOn(c, k2)
        \/ Ends(c, "FOLLOW_UP_EXISTS", FALSE)
    BY <1>15 DEF Candidates, MayCreate
  <2>3. /\ k2 \in Active /\ k2.op = k.op /\ k2.input = k.input
        /\ k2.at = "again" /\ k2.found = k.found /\ k2.left = k.left /\ k2.existing = k.existing
    BY <1>1 DEF Active, Place
  <2> HIDE DEF k2
  <2>4. k.existing = {} => I(k2)
    BY <1>1, <2>1, <2>3 DEF IssueSound
  <2> QED
    BY <1>2, <1>3, <2>1, <2>2, <2>3, <2>4
<1>16. CASE ReadAgain(c)
  <2>1. k.op = "issue" /\ k.at = "again" /\ ~Written(k)
    BY <1>16 DEF ReadAgain, At, Written
  <2> DEFINE k2 == [k EXCEPT !.at = "refs"]
  <2>2. GoesOn(c, k2) \/ Ends(c, "PRECONDITION_FAILED", FALSE)
    BY <1>16 DEF ReadAgain
  <2>3. /\ k2 \in Active /\ k2.op = k.op /\ k2.input = k.input
        /\ k2.at = "refs" /\ k2.found = k.found /\ k2.left = k.left /\ k2.existing = k.existing
    BY <1>1 DEF Active, Place
  <2> HIDE DEF k2
  <2>4. I(k2)
    BY <1>1, <2>1, <2>3 DEF IssueSound
  <2> QED
    BY <1>2, <1>3, <2>1, <2>2, <2>3, <2>4
<1>17. CASE ReadIssue(c)
  <2>1. k.op \in {"issue", "get"} /\ k.at = "issue"
    BY <1>17 DEF ReadIssue, At
  <2> DEFINE k2 == [k EXCEPT !.kept = <<issues[k.about].touched>>, !.at = "issueAgain"]
  <2>2. CASE k.about \in DOMAIN issues
    <3>1. <<issues[k.about].touched>> \in Seq(BOOLEAN \cup Description)
      <4>1. issues[k.about] \in Issue
        BY <2>2, ElementOfSeq, LenProperties DEF WorldTyped
      <4>2. issues[k.about].touched \in BOOLEAN
        BY <4>1 DEF Issue
      <4> QED
        BY <4>2
    <3>2. /\ k2 \in Active /\ k2.op = k.op /\ k2.input = k.input
          /\ k2.at = "issueAgain" /\ k2.about = k.about
      BY <1>1, <3>1 DEF Active, Place
    <3>3. GoesOn(c, k2)
      BY <1>17, <2>2 DEF ReadIssue
    <3> HIDE DEF k2
    <3>4. R(k2) /\ I(k2)
      BY <1>1, <2>1, <3>2, IssueAfter
    <3> QED
      BY <1>2, <3>2, <3>3, <3>4
  <2>3. CASE k.about \notin DOMAIN issues
    <3>1. k.op # "issue"
      BY <1>1, <2>1, <2>3 DEF IssueSound
    <3>2. ~Written(k)
      BY <2>1, <3>1 DEF Written, Writing
    <3>3. Ends(c, "READ_FAILED", FALSE)
      BY <1>17, <2>3 DEF ReadIssue
    <3> QED
      BY <1>3, <3>2, <3>3
  <2> QED
    BY <2>2, <2>3
<1>18. CASE ReadIssueAgain(c)
  <2>1. k.op \in {"issue", "get"} /\ k.at = "issueAgain"
    BY <1>18 DEF ReadIssueAgain, At
  <2> DEFINE k2 == [k EXCEPT !.at = "final"]
  <2>2. /\ k2 \in Active /\ k2.op = k.op /\ k2.input = k.input
        /\ k2.at = "final" /\ k2.about = k.about
    BY <1>1 DEF Active, Place
  <2>3. k.op = "get" => ~Written(k)
    BY DEF Written, Writing
  <2>4. \/ k.op = "get" /\ Ends(c, "SNAPSHOT_CHANGED", FALSE)
        \/ Ends(c, "WRITE_OUTCOME_UNKNOWN", TRUE)
        \/ Ends(c, "POST_WRITE_MISMATCH", TRUE)
        \/ GoesOn(c, k2)
    BY <1>18 DEF ReadIssueAgain
  <2> HIDE DEF k2
  <2>5. R(k2) /\ I(k2)
    BY <1>1, <2>1, <2>2, IssueAfter
  <2> QED
    BY <1>2, <1>3, <2>2, <2>3, <2>4, <2>5
<1>19. CASE GotIssue(c)
  <2>1. ~Written(k)
    BY <1>19 DEF GotIssue, At, Written, Writing
  <2>2. \/ Ends(c, "SNAPSHOT_CHANGED", FALSE)
        \/ Ends(c, "read", FALSE)
        \/ Ends(c, "read, other head", FALSE)
    BY <1>19 DEF GotIssue
  <2> QED
    BY <1>3, <2>1, <2>2
<1>20. CASE Confirm(c)
  <2>1. k.op \in Writing /\ k.at = "final"
    BY <1>20 DEF Confirm, At
  <2>2. "created" \in Codes /\ "created" \notin ThreadCodes
    BY DEF Codes, ThreadCodes
  <2>3. CASE Ends(c, "created", TRUE)
    BY <1>1, <2>1, <2>2, <2>3, FollowUpEnds
  <2>4. CASE Ends(c, "POST_WRITE_MISMATCH", TRUE)
    BY <1>3, <2>4
  <2> QED
    BY <1>20, <2>3, <2>4 DEF Confirm
<1>21. CASE FollowUpFails(c)
  <2>1. \/ Ends(c, "WRITE_OUTCOME_UNKNOWN", TRUE)
        \/ Ends(c, "POST_WRITE_MISMATCH", TRUE)
        \/ ~Written(k) /\ Ends(c, "SNAPSHOT_CHANGED", FALSE)
        \/ ~Written(k) /\ Ends(c, "READ_FAILED", FALSE)
    BY <1>21 DEF FollowUpFails
  <2> QED
    BY <1>3, <2>1
<1> QED
  BY <1>5, <1>6, <1>7, <1>8, <1>9, <1>10, <1>11, <1>12, <1>13, <1>14, <1>15, <1>16, <1>17,
     <1>18, <1>19, <1>20, <1>21 DEF FollowUpReads

-----------------------------------------------------------------------------
(* What a step leaves of what other calls know.                            *)

\* The call of c is sound of what is there now.
Soundly(c) ==
  \E k2 \in Active \cup Ended :
    /\ IsAsked(k2) /\ call' = [call EXCEPT ![c] = k2]
    /\ Sound(c, k2, replies', issues', description', thread')

LEMMA KeepsSoundly ==
  ASSUME CallsTyped, NEW c \in Caller, Keeps(c)
  PROVE  Soundly(c)
  BY DEF CallsTyped, Keeps, Becomes, IsAsked, Soundly

\* Replies and issues stay what they are and whose they are, and those added
\* are by c; nobody but c is taken for the author of a change.
Beside(c) ==
  /\ \A i \in DOMAIN replies :
       /\ i \in DOMAIN replies'
       /\ replies'[i].source = replies[i].source /\ replies'[i].by = replies[i].by
       /\ replies'[i].checked = replies[i].checked
  /\ \A i \in DOMAIN replies' : i \notin DOMAIN replies => replies'[i].by = c
  /\ \A n \in DOMAIN issues :
       /\ n \in DOMAIN issues'
       /\ issues'[n].source = issues[n].source /\ issues'[n].by = issues[n].by
       /\ issues'[n].searched = issues[n].searched
  /\ \A n \in DOMAIN issues' : n \notin DOMAIN issues => issues'[n].by = c
  /\ \A d \in Caller : d # c =>
       /\ d \in description'.patched <=> d \in description.patched
       /\ d \in thread'.replies <=> d \in thread.replies
       /\ d \in thread'.resolvers <=> d \in thread.resolvers
  /\ description'.edits \in Nat /\ description.edits <= description'.edits
  /\ description'.edits = description.edits => description'.text = description.text

LEMMA WorldStaysBeside ==
  ASSUME WorldTyped, WorldStays, NEW c
  PROVE  Beside(c)
<1>1. description.edits \in Nat
  BY DEF WorldTyped, Description
<1> QED
  BY <1>1 DEF WorldStays, Beside

LEMMA OthersStaySound ==
  ASSUME WorldTyped, CallsTyped, NEW c, Beside(c), NEW d \in Caller, d # c, IsSound(d)
  PROVE  Sound(d, call[d], replies', issues', description', thread')
<1> DEFINE k == call[d]
<1>1. ReplySound(d, k, replies')
  <2>1. ReplySound(d, k, replies)
    BY DEF IsSound, Sound
  <2>2. \A i \in DOMAIN replies' : replies'[i].by = d => i \in DOMAIN replies
    BY DEF Beside
  <2> HIDE DEF k
  <2> QED
    BY <2>1, <2>2 DEF ReplySound, Beside
<1>2. IssueSound(d, k, issues')
  <2>1. IssueSound(d, k, issues)
    BY DEF IsSound, Sound
  <2>2. \A n \in DOMAIN issues' : issues'[n].by = d => n \in DOMAIN issues
    BY DEF Beside
  <2> HIDE DEF k
  <2> QED
    BY <2>1, <2>2 DEF IssueSound, Beside
<1>3. UpdateSound(d, k, description')
  <2>1. UpdateSound(d, k, description) /\ description.edits \in Nat
    BY DEF IsSound, Sound, WorldTyped, Description
  <2>2. k.at = "patch" /\ k.op = "update" => k.about \in Nat
    BY AtIsActive, ActiveFields
  <2>3. /\ d \in description'.patched <=> d \in description.patched
        /\ description'.edits \in Nat /\ description.edits <= description'.edits
        /\ description'.edits = description.edits => description'.text = description.text
    BY DEF Beside
  <2> HIDE DEF k
  <2> QED
    BY <2>1, <2>2, <2>3 DEF UpdateSound
<1>4. ThreadSound(d, k, thread')
  <2>1. ThreadSound(d, k, thread)
    BY DEF IsSound, Sound
  <2>2. /\ d \in thread'.replies <=> d \in thread.replies
        /\ d \in thread'.resolvers <=> d \in thread.resolvers
    BY DEF Beside
  <2> HIDE DEF k
  <2> QED
    BY <2>1, <2>2 DEF ThreadSound
<1> QED
  BY <1>1, <1>2, <1>3, <1>4 DEF IsSound, Sound

\* A step of a call.
LEMMA CallStep ==
  ASSUME WorldTyped, CallsTyped, CallsSound, NEW c \in Caller, Beside(c), Soundly(c)
  PROVE  CallsTyped' /\ CallsSound'
<1>1. PICK k2 \in Active \cup Ended :
        /\ IsAsked(k2) /\ call' = [call EXCEPT ![c] = k2]
        /\ Sound(c, k2, replies', issues', description', thread')
  BY DEF Soundly
<1>2. CallsTyped'
  BY <1>1 DEF CallsTyped
<1>3. ASSUME NEW d \in Caller
      PROVE  Sound(d, call[d], replies, issues, description, thread)'
  <2>1. CASE d = c
    BY <1>1, <2>1 DEF CallsTyped
  <2>2. CASE d # c
    BY <1>1, <2>2, OthersStaySound DEF CallsTyped, CallsSound, IsSound
  <2> QED
    BY <2>1, <2>2
<1> QED
  BY <1>2, <1>3 DEF CallsSound

\* A step of others.
LEMMA OthersStep ==
  ASSUME WorldTyped, CallsTyped, CallsSound, Beside(Others), UNCHANGED call
  PROVE  CallsTyped' /\ CallsSound'
<1>1. CallsTyped'
  BY DEF CallsTyped
<1>2. ASSUME NEW d \in Caller
      PROVE  Sound(d, call[d], replies, issues, description, thread)'
  BY OthersAssumption, OthersStaySound DEF CallsSound, IsSound
<1> QED
  BY <1>1, <1>2 DEF CallsSound

-----------------------------------------------------------------------------
(* Calls begin.                                                            *)

\* Where a tool begins.
First(op, at) ==
  \/ op \in FollowUp /\ at = "read"
  \/ op = "update" /\ at = "before"
  \/ op \in {"thread reply", "resolve", "comment"} /\ at = "state"
  \/ op = "reply and resolve" /\ at = "post"

LEMMA BeginsSoundly ==
  ASSUME NEW c \in Caller, NEW op \in Op, NEW at \in Place, First(op, at), NEW input \in Input,
         Begin(c, op, at, input), IsSound(c),
         op \in FollowUp => input.source \in Source,
         op = "get" => input.number \in Nat,
         op = "update" => input.new \in Text
  PROVE  Soundly(c) /\ WorldStays
<1> DEFINE k2 == Call(op, at, input)
<1>1. k2 \in Active /\ k2.op = op /\ k2.at = at /\ k2.input = input
  BY NewCallType
<1>2. call' = [call EXCEPT ![c] = k2] /\ WorldStays /\ call[c] = Unused
  BY DEF Begin, WorldStays, discussion, issueVars
<1> HIDE DEF k2
<1>3. IsAsked(k2)
  BY <1>1 DEF IsAsked
<1>4. at \in {"read", "before", "state", "post"} /\ (op \in Writing => at = "read")
      /\ (op = "update" => at = "before") /\ (op = "reply and resolve" => at = "post")
  BY DEF First, FollowUp, Writing
<1>5. Unused.op = "none" /\ Unused.at = "unused"
  BY DEF Unused
<1>6. ReplySound(c, k2, replies)
  BY <1>1, <1>2, <1>4, <1>5 DEF IsSound, Sound, ReplySound, Writing
<1>7. IssueSound(c, k2, issues)
  BY <1>1, <1>2, <1>4, <1>5 DEF IsSound, Sound, IssueSound, Writing
<1>8. UpdateSound(c, k2, description)
  BY <1>1, <1>2, <1>4, <1>5 DEF IsSound, Sound, UpdateSound
<1>9. ThreadSound(c, k2, thread)
  BY <1>1, <1>2, <1>4, <1>5 DEF IsSound, Sound, ThreadSound
<1>10. CodeSound(k2)
  BY <1>1, <1>4 DEF CodeSound
<1> QED
  BY <1>1, <1>2, <1>3, <1>6, <1>7, <1>8, <1>9, <1>10 DEF Soundly, Sound, WorldStays

LEMMA FollowUpBegins ==
  ASSUME WorldTyped, NEW c \in Caller, IsSound(c), NEW s \in Source,
         \/ BeginReply(c, s) \/ BeginIssue(c, s)
         \/ \E n \in 1..Number : BeginGet(c, s, n)
  PROVE  Soundly(c) /\ WorldStays
<1>1. pr.head \in Tip /\ Snapshot \in Reading
  BY SnapshotType DEF WorldTyped
<1>2. {"reply", "issue", "get"} \subseteq Op /\ "read" \in Place
      /\ {"reply", "issue", "get"} \subseteq FollowUp
  BY DEF Op, Place, FollowUp, Writing
<1>3. \A op \in {"reply", "issue", "get"} : First(op, "read")
  BY <1>2 DEF First
<1>4. ASSUME NEW op \in {"reply", "issue"},
             Begin(c, op, "read", [source |-> s, head |-> pr.head, snapshot |-> Snapshot])
      PROVE  Soundly(c) /\ WorldStays
  <2> DEFINE input == [source |-> s, head |-> pr.head, snapshot |-> Snapshot]
  <2>1. input \in Input /\ input.source = s
    BY <1>1 DEF Input
  <2> HIDE DEF input
  <2> QED
    BY <1>2, <1>3, <1>4, <2>1, BeginsSoundly DEF input
<1>5. ASSUME NEW n \in 1..Number, BeginGet(c, s, n)
      PROVE  Soundly(c) /\ WorldStays
  <2> DEFINE input == [source |-> s, head |-> pr.head, number |-> n]
  <2>1. input \in Input /\ input.source = s /\ input.number = n /\ n \in Nat
    BY <1>1, WriteBoundsAssumption DEF Input
  <2>2. Begin(c, "get", "read", input)
    BY <1>5 DEF BeginGet
  <2> HIDE DEF input
  <2> QED
    BY <1>2, <1>3, <2>1, <2>2, BeginsSoundly
<1> QED
  BY <1>4, <1>5 DEF BeginReply, BeginIssue

LEMMA UpdateBegins ==
  ASSUME WorldTyped, NEW c \in Caller, IsSound(c),
         \/ \E x \in Text : BeginUpdate(c, x)
         \/ BeginThreadReply(c) \/ BeginResolve(c) \/ BeginComment(c)
         \/ \E resolve \in BOOLEAN : BeginReplyAndResolve(c, resolve)
  PROVE  Soundly(c) /\ WorldStays
<1>1. pr.head \in Tip /\ description.text \in Text
  BY DEF WorldTyped, Description
<1>2. {"update", "thread reply", "resolve", "reply and resolve", "comment"} \subseteq Op
      /\ {"before", "state", "post"} \subseteq Place
  BY DEF Op, Place
<1>3. \A op \in {"update", "thread reply", "resolve", "reply and resolve", "comment"} :
        op \notin FollowUp
  BY DEF FollowUp, Writing
<1>4. ASSUME NEW x \in Text, BeginUpdate(c, x)
      PROVE  Soundly(c) /\ WorldStays
  <2> DEFINE input == [head |-> pr.head, text |-> description.text, new |-> x]
  <2>1. input \in Input /\ input.new = x
    BY <1>1 DEF Input
  <2>2. Begin(c, "update", "before", input)
    BY <1>4 DEF BeginUpdate
  <2> HIDE DEF input
  <2> QED
    BY <1>2, <1>3, <2>1, <2>2, BeginsSoundly DEF First
<1>5. ASSUME NEW r \in BOOLEAN, NEW op \in {"thread reply", "resolve", "reply and resolve"},
             NEW at \in {"state", "post"}, First(op, at), Begin(c, op, at, [resolve |-> r])
      PROVE  Soundly(c) /\ WorldStays
  <2>1. [resolve |-> r] \in Input
    BY DEF Input
  <2> QED
    BY <1>2, <1>3, <1>5, <2>1, BeginsSoundly
<1>6. ASSUME BeginComment(c)
      PROVE  Soundly(c) /\ WorldStays
  <2>1. [head |-> pr.head] \in Input
    BY <1>1 DEF Input
  <2>2. Begin(c, "comment", "state", [head |-> pr.head])
    BY <1>6 DEF BeginComment
  <2> QED
    BY <1>2, <1>3, <2>1, <2>2, BeginsSoundly DEF First
<1> QED
  BY <1>4, <1>5, <1>6 DEF BeginThreadReply, BeginResolve, BeginReplyAndResolve, First

-----------------------------------------------------------------------------
(* What the tools write.                                                   *)

\* One more element.
LEMMA OneMore ==
  ASSUME NEW S, NEW s \in Seq(S), NEW e \in S, NEW t, t = Append(s, e)
  PROVE  /\ t \in Seq(S) /\ Len(s) \in Nat
         /\ DOMAIN s = 1..Len(s) /\ DOMAIN t = 1..(Len(s) + 1) /\ Len(t) = Len(s) + 1
         /\ t[Len(s) + 1] = e
         /\ \A i \in DOMAIN s : i \in DOMAIN t /\ t[i] = s[i] /\ i # Len(s) + 1
         /\ \A i \in DOMAIN t : i \in DOMAIN s \/ i = Len(s) + 1
<1>1. /\ t \in Seq(S) /\ Len(t) = Len(s) + 1 /\ t[Len(s) + 1] = e
      /\ \A i \in 1..Len(s) : t[i] = s[i]
  BY AppendProperties
<1>2. Len(s) \in Nat /\ DOMAIN s = 1..Len(s) /\ DOMAIN t = 1..Len(t)
  BY <1>1, LenProperties
<1> QED
  BY <1>1, <1>2

\* Faults are counted.
LEMMA BoundsTyped ==
  ASSUME WorldTyped, UNCHANGED bounds \/ Fault
  PROVE  changes' \in 0..MaxChanges /\ faults' \in 0..MaxFaults
  BY WriteBoundsAssumption DEF WorldTyped, bounds, Fault

LEMMA PostReplyWrites ==
  ASSUME WorldTyped, CallsTyped, RowsSound, NEW c \in Caller, IsSound(c), PostReply(c)
  PROVE  Beside(c) /\ Soundly(c) /\ WorldTyped' /\ RowsSound'
<1> DEFINE k == call[c]
           new == [source |-> k.input.source, by |-> c, edited |-> FALSE, checked |-> k.found]
           at == Len(replies) + 1
<1>1. k.op = "reply" /\ k.at = "post" /\ replies' = Append(replies, new)
  BY DEF PostReply, At, Posted, NewReply
<1>2. k \in Active /\ k.found \subseteq Nat /\ k.input.source \in Source
  BY <1>1, AtIsActive, ActiveFields DEF CallsTyped, IsAsked, FollowUp, Writing
<1>3. new \in Reply /\ new.source = k.input.source /\ new.by = c /\ new.checked = k.found
  BY <1>2 DEF Reply
<1>4. /\ UNCHANGED <<pr, talk, sources, issues, indexed, description, thread>>
      /\ changes' \in 0..MaxChanges /\ faults' \in 0..MaxFaults
  BY BoundsTyped DEF PostReply, issueVars
<1>5. ReplySound(c, k, replies)
  BY DEF IsSound, Sound
<1> HIDE DEF new
<1>6. /\ replies' \in Seq(Reply) /\ Len(replies) \in Nat
      /\ DOMAIN replies = 1..Len(replies) /\ DOMAIN replies' = 1..at
      /\ replies'[at] = new
      /\ \A i \in DOMAIN replies : i \in DOMAIN replies' /\ replies'[i] = replies[i] /\ i # at
      /\ \A i \in DOMAIN replies' : i \in DOMAIN replies \/ i = at
  <2>1. replies \in Seq(Reply)
    BY DEF WorldTyped
  <2> QED
    BY <1>1, <1>3, <2>1, OneMore
<1>7. at \in Nat /\ at \in DOMAIN replies'
  BY <1>6
<1> HIDE DEF at
<1>8. Beside(c)
  <2>1. description.edits \in Nat
    BY DEF WorldTyped, Description
  <2> QED
    BY <1>3, <1>4, <1>6, <2>1 DEF Beside
<1>9. WorldTyped'
  BY <1>4, <1>6 DEF WorldTyped
<1>10. RowsSound'
  <2>1. ASSUME NEW j \in DOMAIN replies', NEW i \in replies'[j].checked
        PROVE  i \in DOMAIN replies' /\ replies'[i].source # replies'[j].source
    <3>1. CASE j \in DOMAIN replies
      BY <1>6, <2>1, <3>1 DEF RowsSound
    <3>2. CASE j = at
      <4>1. i \in DOMAIN replies /\ replies[i].source # k.input.source
        BY <1>1, <1>3, <1>5, <1>6, <2>1, <3>2 DEF ReplySound
      <4> QED
        BY <1>3, <1>6, <3>2, <4>1
    <3> QED
      BY <1>6, <3>1, <3>2
  <2> QED
    BY <1>4, <2>1 DEF RowsSound
<1>11. ASSUME NEW k2, k2 \in Active \cup Ended, k2.op = "reply", k2.input = k.input,
              call' = [call EXCEPT ![c] = k2],
              \/ k2.at = "verify"
              \/ k2.at = "done" /\ k2.code = "WRITE_OUTCOME_UNKNOWN" /\ k2.mayHaveChanged
       PROVE  Soundly(c)
  <2>1. \A i \in DOMAIN replies : replies[i].by # c
    BY <1>1, <1>5 DEF ReplySound
  <2>2. ReplySound(c, k2, replies')
    BY <1>3, <1>6, <1>7, <1>11, <2>1 DEF ReplySound
  <2>3. "WRITE_OUTCOME_UNKNOWN" \notin ThreadCodes /\ "reply" \in FollowUp
    BY DEF ThreadCodes, FollowUp, Writing
  <2>4. UpdateSound(c, k2, description) /\ ThreadSound(c, k2, thread) /\ CodeSound(k2)
        /\ IssueSound(c, k2, issues)
    BY <1>1, <1>11, <2>3, FollowUpSound DEF IsSound
  <2>5. IsAsked(k2)
    BY <1>2, <1>11 DEF IsAsked
  <2> QED
    BY <1>4, <1>11, <2>2, <2>4, <2>5 DEF Soundly, Sound
<1>12. ASSUME GoesOn(c, [k EXCEPT !.about = at, !.at = "verify"])
       PROVE  Soundly(c)
  <2> DEFINE k2 == [k EXCEPT !.about = at, !.at = "verify"]
  <2>1. k2 \in Active /\ k2.op = "reply" /\ k2.input = k.input /\ k2.at = "verify"
    BY <1>1, <1>2, <1>7 DEF Active, Place
  <2>2. call' = [call EXCEPT ![c] = k2]
    BY <1>12 DEF GoesOn
  <2> HIDE DEF k2
  <2> QED
    BY <1>11, <2>1, <2>2
<1>13. ASSUME Ends(c, "WRITE_OUTCOME_UNKNOWN", TRUE)
       PROVE  Soundly(c)
  <2> DEFINE k2 == Answer(k.op, k.input, "WRITE_OUTCOME_UNKNOWN", TRUE)
  <2>1. "WRITE_OUTCOME_UNKNOWN" \in Codes
    BY DEF Codes
  <2>2. /\ k2 \in Ended /\ k2.op = "reply" /\ k2.input = k.input
        /\ k2.at = "done" /\ k2.code = "WRITE_OUTCOME_UNKNOWN" /\ k2.mayHaveChanged
    BY <1>1, <1>2, <2>1, ActiveFields, AnswerType DEF Answer
  <2>3. call' = [call EXCEPT ![c] = k2]
    BY <1>13 DEF Ends
  <2> HIDE DEF k2
  <2> QED
    BY <1>11, <2>2, <2>3
<1>14. \/ GoesOn(c, [k EXCEPT !.about = at, !.at = "verify"])
       \/ Ends(c, "WRITE_OUTCOME_UNKNOWN", TRUE)
  BY DEF PostReply, at
<1> QED
  BY <1>8, <1>9, <1>10, <1>12, <1>13, <1>14

LEMMA PostIssueWrites ==
  ASSUME WorldTyped, CallsTyped, RowsSound, OthersFirst, NEW c \in Caller, IsSound(c), PostIssue(c)
  PROVE  Beside(c) /\ Soundly(c) /\ WorldTyped' /\ RowsSound' /\ OthersFirst'
<1> DEFINE k == call[c]
           new == [source |-> k.input.source, by |-> c, touched |-> FALSE, searched |-> k.found]
           at == Len(issues) + 1
<1>1. k.op = "issue" /\ k.at = "post" /\ issues' = Append(issues, new)
  BY DEF PostIssue, At
<1>2. k \in Active /\ k.found \subseteq Nat /\ k.input.source \in Source
  BY <1>1, AtIsActive, ActiveFields DEF CallsTyped, IsAsked, FollowUp, Writing
<1>3. new \in Issue /\ new.source = k.input.source /\ new.by = c /\ new.searched = k.found
  BY <1>2 DEF Issue
<1>4. /\ UNCHANGED <<pr, talk, sources, replies, indexed, description, thread>>
      /\ changes' \in 0..MaxChanges /\ faults' \in 0..MaxFaults
  BY BoundsTyped DEF PostIssue, discussion
<1>5. IssueSound(c, k, issues)
  BY DEF IsSound, Sound
<1> HIDE DEF new
<1>6. /\ issues' \in Seq(Issue) /\ Len(issues) \in Nat
      /\ DOMAIN issues = 1..Len(issues) /\ DOMAIN issues' = 1..at
      /\ issues'[at] = new
      /\ \A i \in DOMAIN issues : i \in DOMAIN issues' /\ issues'[i] = issues[i] /\ i # at
      /\ \A i \in DOMAIN issues' : i \in DOMAIN issues \/ i = at
  <2>1. issues \in Seq(Issue)
    BY DEF WorldTyped
  <2> QED
    BY <1>1, <1>3, <2>1, OneMore
<1>7. at \in Nat /\ at \in DOMAIN issues' /\ Len(issues') = at
  <2>1. at \in Nat /\ at \in 1..at
    BY <1>6
  <2> QED
    BY <1>6, <2>1, LenProperties
<1>8. OthersFirst'
  <2>1. PICK m \in 0..Number :
          m <= Len(issues) /\ \A n \in DOMAIN issues : issues[n].by \in Caller <=> n > m
    BY DEF OthersFirst
  <2>2. \A n \in DOMAIN issues' : issues'[n].by \in Caller <=> n > m
    BY <1>3, <1>6, <2>1
  <2>3. m <= Len(issues')
    BY <1>6, <1>7, <2>1
  <2> QED
    BY <2>2, <2>3 DEF OthersFirst
<1> HIDE DEF at
<1>9. Beside(c)
  <2>1. description.edits \in Nat
    BY DEF WorldTyped, Description
  <2> QED
    BY <1>3, <1>4, <1>6, <2>1 DEF Beside
<1>10. WorldTyped'
  <2>1. indexed' \subseteq DOMAIN issues'
    BY <1>4, <1>6 DEF WorldTyped
  <2> QED
    BY <1>4, <1>6, <2>1 DEF WorldTyped
<1>11. RowsSound'
  <2>1. ASSUME NEW j \in DOMAIN issues', NEW i \in issues'[j].searched
        PROVE  i \in DOMAIN issues' /\ issues'[i].by \notin Caller
    <3>1. CASE j \in DOMAIN issues
      BY <1>6, <2>1, <3>1 DEF RowsSound
    <3>2. CASE j = at
      <4>1. i \in DOMAIN issues /\ issues[i].by \notin Caller
        BY <1>1, <1>3, <1>5, <1>6, <2>1, <3>2 DEF IssueSound
      <4> QED
        BY <1>3, <1>6, <3>2, <4>1
    <3> QED
      BY <1>6, <3>1, <3>2
  <2> QED
    BY <1>4, <2>1 DEF RowsSound
<1>12. ASSUME NEW k2, k2 \in Active \cup Ended, k2.op = "issue", k2.input = k.input,
              call' = [call EXCEPT ![c] = k2],
              \/ k2.at = "issue" /\ k2.about = at
              \/ k2.at = "done" /\ k2.code = "WRITE_OUTCOME_UNKNOWN" /\ k2.mayHaveChanged
       PROVE  Soundly(c)
  <2>1. \A i \in DOMAIN issues : issues[i].by # c
    BY <1>1, <1>5 DEF IssueSound
  <2>2. IssueSound(c, k2, issues')
    BY <1>3, <1>6, <1>7, <1>12, <2>1 DEF IssueSound
  <2>3. "WRITE_OUTCOME_UNKNOWN" \notin ThreadCodes /\ "issue" \in FollowUp
    BY DEF ThreadCodes, FollowUp, Writing
  <2>4. UpdateSound(c, k2, description) /\ ThreadSound(c, k2, thread) /\ CodeSound(k2)
        /\ ReplySound(c, k2, replies)
    BY <1>1, <1>12, <2>3, FollowUpSound DEF IsSound
  <2>5. IsAsked(k2)
    BY <1>2, <1>12 DEF IsAsked
  <2> QED
    BY <1>4, <1>12, <2>2, <2>4, <2>5 DEF Soundly, Sound
<1>13. ASSUME GoesOn(c, [k EXCEPT !.about = at, !.at = "issue"])
       PROVE  Soundly(c)
  <2> DEFINE k2 == [k EXCEPT !.about = at, !.at = "issue"]
  <2>1. /\ k2 \in Active /\ k2.op = "issue" /\ k2.input = k.input
        /\ k2.at = "issue" /\ k2.about = at
    BY <1>1, <1>2, <1>7 DEF Active, Place
  <2>2. call' = [call EXCEPT ![c] = k2]
    BY <1>13 DEF GoesOn
  <2> HIDE DEF k2
  <2> QED
    BY <1>12, <2>1, <2>2
<1>14. ASSUME Ends(c, "WRITE_OUTCOME_UNKNOWN", TRUE)
       PROVE  Soundly(c)
  <2> DEFINE k2 == Answer(k.op, k.input, "WRITE_OUTCOME_UNKNOWN", TRUE)
  <2>1. "WRITE_OUTCOME_UNKNOWN" \in Codes
    BY DEF Codes
  <2>2. /\ k2 \in Ended /\ k2.op = "issue" /\ k2.input = k.input
        /\ k2.at = "done" /\ k2.code = "WRITE_OUTCOME_UNKNOWN" /\ k2.mayHaveChanged
    BY <1>1, <1>2, <2>1, ActiveFields, AnswerType DEF Answer
  <2>3. call' = [call EXCEPT ![c] = k2]
    BY <1>14 DEF Ends
  <2> HIDE DEF k2
  <2> QED
    BY <1>12, <2>2, <2>3
<1>15. \/ GoesOn(c, [k EXCEPT !.about = at, !.at = "issue"])
       \/ Ends(c, "WRITE_OUTCOME_UNKNOWN", TRUE)
  BY DEF PostIssue, at
<1> QED
  BY <1>8, <1>9, <1>10, <1>11, <1>13, <1>14, <1>15

-----------------------------------------------------------------------------
(* The other tools.                                                        *)

ThreadTool == {"thread reply", "resolve", "reply and resolve", "comment"}

\* They write no reply to a comment of the discussion and no issue.
LEMMA UpdateSteps ==
  ASSUME CallsTyped, NEW c \in Caller, IsSound(c), call[c].op \in {"update"} \cup ThreadTool,
         UNCHANGED <<replies, issues>>,
         NEW k2 \in Active \cup Ended, k2.op = call[c].op, k2.input = call[c].input,
         call' = [call EXCEPT ![c] = k2],
         k2.at = "done" => k2.code # "created",
         UpdateSound(c, k2, description'), ThreadSound(c, k2, thread')
  PROVE  Soundly(c)
<1>1. call[c].op \notin {"reply", "issue", "get"}
  BY DEF ThreadTool
<1>2. ReplySound(c, k2, replies) /\ IssueSound(c, k2, issues)
  BY <1>1 DEF IsSound, Sound, ReplySound, IssueSound
<1>3. IsAsked(k2)
  BY <1>1 DEF CallsTyped, IsAsked, FollowUp, Writing
<1>4. CodeSound(k2)
  BY DEF CodeSound
<1> QED
  BY <1>2, <1>3, <1>4 DEF Soundly, Sound

\* The answer of a call under way.
LEMMA EndsAs ==
  ASSUME NEW c \in Caller, call[c] \in Active, NEW code \in Codes, NEW m \in BOOLEAN,
         Ends(c, code, m)
  PROVE  \E k2 \in Ended :
           /\ k2.op = call[c].op /\ k2.input = call[c].input
           /\ k2.at = "done" /\ k2.code = code /\ k2.mayHaveChanged = m
           /\ call' = [call EXCEPT ![c] = k2]
<1> DEFINE k2 == Answer(call[c].op, call[c].input, code, m)
<1>1. /\ k2 \in Ended /\ k2.op = call[c].op /\ k2.input = call[c].input
      /\ k2.at = "done" /\ k2.code = code /\ k2.mayHaveChanged = m
  BY ActiveFields, AnswerType DEF Answer
<1>2. call' = [call EXCEPT ![c] = k2]
  BY DEF Ends
<1> HIDE DEF k2
<1> QED
  BY <1>1, <1>2

LEMMA UpdateEnds ==
  ASSUME CallsTyped, NEW c \in Caller, IsSound(c), call[c] \in Active, call[c].op = "update",
         UNCHANGED <<replies, issues, thread>>,
         NEW code \in Codes \ (ThreadCodes \cup {"created"}), NEW m \in BOOLEAN, Ends(c, code, m),
         ~m => c \notin description'.patched,
         code = "updated" => c \in description'.patched
  PROVE  Soundly(c)
<1>1. PICK k2 \in Ended :
        /\ k2.op = call[c].op /\ k2.input = call[c].input
        /\ k2.at = "done" /\ k2.code = code /\ k2.mayHaveChanged = m
        /\ call' = [call EXCEPT ![c] = k2]
  <2>1. code \in Codes
    OBVIOUS
  <2> QED
    BY <2>1, EndsAs
<1>2. UpdateSound(c, k2, description')
  BY <1>1 DEF UpdateSound
<1>3. ThreadSound(c, k2, thread')
  <2>1. c \notin thread.resolvers
    BY DEF IsSound, Sound, ThreadSound
  <2> QED
    BY <1>1, <2>1 DEF ThreadSound, ThreadCodes
<1> QED
  BY <1>1, <1>2, <1>3, UpdateSteps

LEMMA ThreadEnds ==
  ASSUME CallsTyped, NEW c \in Caller, IsSound(c), call[c] \in Active, call[c].op \in ThreadTool,
         UNCHANGED <<replies, issues, description>>,
         NEW code \in Codes \ {"created", "updated"}, NEW m \in BOOLEAN, Ends(c, code, m),
         code \in ThreadCodes => c \in thread'.replies,
         c \in thread'.resolvers =>
           \/ call[c].op = "resolve"
           \/ /\ call[c].op = "reply and resolve"
              /\ c \in thread'.replies /\ code # "replyError"
  PROVE  Soundly(c)
<1>1. PICK k2 \in Ended :
        /\ k2.op = call[c].op /\ k2.input = call[c].input
        /\ k2.at = "done" /\ k2.code = code /\ k2.mayHaveChanged = m
        /\ call' = [call EXCEPT ![c] = k2]
  <2>1. code \in Codes
    OBVIOUS
  <2>2. call[c] \in Active /\ Ends(c, code, m)
    OBVIOUS
  <2> HIDE DEF ThreadTool
  <2> QED
    BY ONLY <2>1, <2>2, m \in BOOLEAN, c \in Caller, EndsAs
<1>2. UpdateSound(c, k2, description')
  <2>1. call[c].op # "update"
    BY DEF ThreadTool
  <2>2. c \notin description.patched
    BY <2>1 DEF IsSound, Sound, UpdateSound
  <2> QED
    BY <1>1, <2>1, <2>2 DEF UpdateSound
<1>3. ThreadSound(c, k2, thread')
  BY <1>1 DEF ThreadSound, ThreadCodes
<1> QED
  BY <1>1, <1>2, <1>3, UpdateSteps

LEMMA ThreadGoesOn ==
  ASSUME CallsTyped, NEW c \in Caller, IsSound(c), call[c] \in Active, call[c].op \in ThreadTool,
         UNCHANGED <<replies, issues, description>>,
         NEW k2 \in Active, k2.op = call[c].op, k2.input = call[c].input, GoesOn(c, k2),
         call[c].op = "reply and resolve" /\ k2.at \in {"state", "resolve"} =>
           c \in thread'.replies,
         c \in thread'.resolvers => c \in thread.resolvers
  PROVE  Soundly(c)
<1>1. k2.at # "done" /\ call[c].at # "done"
  BY ActiveFields
<1>2. UpdateSound(c, k2, description')
  <2>1. call[c].op # "update"
    BY DEF ThreadTool
  <2>2. c \notin description.patched
    BY <2>1 DEF IsSound, Sound, UpdateSound
  <2> QED
    BY <1>1, <2>1, <2>2 DEF UpdateSound
<1>3. c \notin thread'.resolvers
  BY <1>1 DEF IsSound, Sound, ThreadSound
<1>4. ThreadSound(c, k2, thread')
  BY <1>1, <1>3 DEF ThreadSound
<1>5. call' = [call EXCEPT ![c] = k2]
  BY DEF GoesOn
<1> QED
  BY <1>1, <1>2, <1>4, <1>5, UpdateSteps

\* The steps of PullRequestUpdates that leave description and thread alone.
UpdateReads(c) ==
  \/ ReadBefore(c) \/ ReadAfter(c) \/ ReadThread(c) \/ ReadHead(c) \/ PostComment(c)
  \/ UpdateFails(c)

LEMMA UpdateReadsKeep ==
  ASSUME WorldTyped, CallsTyped, NEW c \in Caller, IsSound(c), UpdateReads(c)
  PROVE  Soundly(c) /\ WorldStays
<1> DEFINE k == call[c]
<1>1. /\ k \in Active /\ k.op \in {"update"} \cup ThreadTool
      /\ WorldStays
      /\ UpdateSound(c, k, description) /\ ThreadSound(c, k, thread)
  <2>1. k.op \in {"update"} \cup ThreadTool /\ k.at # "done"
    BY DEF UpdateReads, ReadBefore, ReadAfter, ReadThread, ReadHead, PostComment, UpdateFails, At,
           ThreadTool
  <2>2. WorldStays
    BY DEF UpdateReads, ReadBefore, ReadAfter, ReadThread, ReadHead, PostComment, UpdateFails,
           Reads, discussion, issueVars, WorldStays
  <2>3. k.op # "none"
    BY <2>1 DEF ThreadTool
  <2> QED
    BY <2>1, <2>2, <2>3, AtIsActive DEF IsSound, Sound
<1>2. UNCHANGED <<replies, issues, description, thread>>
  BY <1>1 DEF WorldStays
<1>3. c \notin thread.resolvers
  BY <1>1, ActiveFields DEF ThreadSound
<1>4. ASSUME k.op = "update", NEW code \in {"PRECONDITION_FAILED", "unchanged", "READ_FAILED",
                                            "UPDATE_OUTCOME_UNKNOWN", "APP_IDENTITY_FAILED",
                                            "POST_UPDATE_MISMATCH", "updated"},
             NEW m \in BOOLEAN, Ends(c, code, m),
             k.at = "after" => m, code = "updated" => k.at = "after"
      PROVE  Soundly(c)
  <2>1. code \in Codes \ (ThreadCodes \cup {"created"})
    BY DEF Codes, ThreadCodes
  <2>2. ~m => c \notin description.patched
    BY <1>1, <1>4, ActiveFields DEF UpdateSound
  <2>3. code = "updated" => c \in description.patched
    BY <1>1, <1>4 DEF UpdateSound
  <2> QED
    BY <1>1, <1>2, <1>4, <2>1, <2>2, <2>3, UpdateEnds
<1>5. ASSUME k.op \in ThreadTool, NEW code \in Codes \ {"created", "updated"},
             NEW m \in BOOLEAN, Ends(c, code, m),
             code \in ThreadCodes => k.op = "reply and resolve" /\ k.at \in {"state", "resolve"}
      PROVE  Soundly(c)
  <2>1. code \in ThreadCodes => c \in thread.replies
    BY <1>1, <1>5 DEF ThreadSound
  <2> QED
    BY <1>1, <1>2, <1>3, <1>5, <2>1, ThreadEnds
<1>6. {"replyError", "error", "refused", "posted", "outcome may be unknown", "already resolved",
       "replied, resolved", "replied, resolveError"} \subseteq Codes \ {"created", "updated"}
  BY DEF Codes
<1>7. /\ "replyError" \notin ThreadCodes /\ "error" \notin ThreadCodes
      /\ "refused" \notin ThreadCodes /\ "posted" \notin ThreadCodes
      /\ "outcome may be unknown" \notin ThreadCodes /\ "already resolved" \notin ThreadCodes
  BY DEF ThreadCodes
<1>8. ASSUME ReadBefore(c)
      PROVE  Soundly(c)
  <2>1. k.op = "update" /\ k.at = "before"
    BY <1>8 DEF ReadBefore, At
  <2>2. \/ Ends(c, "PRECONDITION_FAILED", FALSE)
        \/ Ends(c, "unchanged", FALSE)
        \/ /\ description.text = k.input.text
           /\ GoesOn(c, [k EXCEPT !.about = description.edits, !.at = "patch"])
    BY <1>8 DEF ReadBefore, UpdateExpected
  <2>3. ASSUME description.text = k.input.text,
               GoesOn(c, [k EXCEPT !.about = description.edits, !.at = "patch"])
        PROVE  Soundly(c)
    <3> DEFINE k2 == [k EXCEPT !.about = description.edits, !.at = "patch"]
    <3>1. description.edits \in Nat
      BY DEF WorldTyped, Description
    <3>2. /\ k2 \in Active /\ k2.op = k.op /\ k2.input = k.input
          /\ k2.at = "patch" /\ k2.about = description.edits
      BY <1>1, <3>1 DEF Active, Place
    <3>3. call' = [call EXCEPT ![c] = k2]
      BY <2>3 DEF GoesOn
    <3> HIDE DEF k2
    <3>4. UpdateSound(c, k2, description')
      BY <1>1, <1>2, <2>1, <2>3, <3>1, <3>2 DEF UpdateSound
    <3>5. ThreadSound(c, k2, thread')
      BY <1>2, <1>3, <2>1, <3>2 DEF ThreadSound
    <3> QED
      BY <1>1, <1>2, <3>2, <3>3, <3>4, <3>5, UpdateSteps
  <2> QED
    BY <1>4, <2>1, <2>2, <2>3
<1>9. ASSUME ReadAfter(c)
      PROVE  Soundly(c)
  BY <1>4, <1>9 DEF ReadAfter, At
<1>10. ASSUME ReadThread(c)
       PROVE  Soundly(c)
  <2>1. k.op \in {"thread reply", "resolve", "reply and resolve"} /\ k.at = "state"
    BY <1>10 DEF ReadThread, At
  <2>2. k.op \in ThreadTool
    BY <2>1 DEF ThreadTool
  <2>3. \/ k.op = "thread reply" /\ GoesOn(c, [k EXCEPT !.good = ~thread.resolved, !.at = "post"])
        \/ k.op = "resolve" /\ Ends(c, "already resolved", TRUE)
        \/ k.op = "reply and resolve" /\ Ends(c, "replied, resolved", TRUE)
        \/ k.op # "thread reply" /\ GoesOn(c, [k EXCEPT !.at = "resolve"])
    BY <1>10, <2>1 DEF ReadThread
  <2>4. ASSUME k.op = "thread reply",
               GoesOn(c, [k EXCEPT !.good = ~thread.resolved, !.at = "post"])
        PROVE  Soundly(c)
    <3> DEFINE k2 == [k EXCEPT !.good = ~thread.resolved, !.at = "post"]
    <3>1. k2 \in Active /\ k2.op = k.op /\ k2.input = k.input
      BY <1>1 DEF Active, Place
    <3> HIDE DEF k2
    <3> QED
      BY <1>1, <1>2, <2>2, <2>4, <3>1, ThreadGoesOn DEF k2
  <2>5. ASSUME k.op # "thread reply", GoesOn(c, [k EXCEPT !.at = "resolve"])
        PROVE  Soundly(c)
    <3> DEFINE k2 == [k EXCEPT !.at = "resolve"]
    <3>1. k2 \in Active /\ k2.op = k.op /\ k2.input = k.input
      BY <1>1 DEF Active, Place
    <3>2. GoesOn(c, k2)
      BY <2>5
    <3> HIDE DEF k2
    <3>3. k.op = "reply and resolve" => c \in thread.replies
      BY <1>1, <2>1 DEF ThreadSound
    <3> QED
      BY <1>1, <1>2, <2>2, <3>1, <3>2, <3>3, ThreadGoesOn
  <2> QED
    BY <1>5, <1>6, <1>7, <2>1, <2>2, <2>3, <2>4, <2>5
<1>11. ASSUME ReadHead(c)
       PROVE  Soundly(c)
  <2>1. k.op = "comment" /\ k.op \in ThreadTool
    BY <1>11 DEF ReadHead, At, ThreadTool
  <2> DEFINE k2 == [k EXCEPT !.at = "post"]
  <2>2. k2 \in Active /\ k2.op = k.op /\ k2.input = k.input
    BY <1>1 DEF Active, Place
  <2>3. GoesOn(c, k2) \/ Ends(c, "refused", FALSE)
    BY <1>11 DEF ReadHead
  <2> HIDE DEF k2
  <2>4. ASSUME GoesOn(c, k2)
        PROVE  Soundly(c)
    BY <1>1, <1>2, <2>1, <2>2, <2>4, ThreadGoesOn
  <2> QED
    BY <1>5, <1>6, <1>7, <2>1, <2>3, <2>4
<1>12. ASSUME PostComment(c)
       PROVE  Soundly(c)
  <2>1. k.op \in ThreadTool
    BY <1>12 DEF PostComment, At, ThreadTool
  <2>2. Ends(c, "posted", TRUE) \/ Ends(c, "outcome may be unknown", TRUE)
    BY <1>12 DEF PostComment
  <2> QED
    BY <1>5, <1>6, <1>7, <2>1, <2>2
<1>13. ASSUME UpdateFails(c)
       PROVE  Soundly(c)
  <2>1. \/ /\ k.op = "update"
           /\ \/ k.at = "before" /\ Ends(c, "READ_FAILED", FALSE)
              \/ k.at = "patch" /\ Ends(c, "UPDATE_OUTCOME_UNKNOWN", TRUE)
              \/ k.at = "patch" /\ Ends(c, "APP_IDENTITY_FAILED", FALSE)
              \/ k.at = "after" /\ Ends(c, "UPDATE_OUTCOME_UNKNOWN", TRUE)
        \/ /\ k.op \in ThreadTool
           /\ \/ Ends(c, "error", FALSE) \/ Ends(c, "replyError", TRUE)
              \/ Ends(c, "outcome may be unknown", TRUE) \/ Ends(c, "error", TRUE)
              \/ /\ k.op = "reply and resolve" /\ k.at \in {"state", "resolve"}
                 /\ Ends(c, "replied, resolveError", TRUE)
    <3>1. \A unknown \in BOOLEAN : unknown = TRUE \/ unknown = FALSE
      OBVIOUS
    <3> QED
      BY <1>13, <3>1 DEF UpdateFails, At, AfterFailedReply, ResolveFailed, ThreadTool
  <2>2. CASE k.op = "update"
    <3>1. k.op \notin ThreadTool
      BY <2>2 DEF ThreadTool
    <3> QED
      BY <1>4, <2>1, <2>2, <3>1
  <2>3. CASE k.op \in ThreadTool
    <3>1. k.op # "update"
      BY <2>3 DEF ThreadTool
    <3> QED
      BY <1>5, <1>6, <1>7, <2>1, <2>3, <3>1
  <2> QED
    BY <2>1, <2>2, <2>3
<1> QED
  BY <1>1, <1>8, <1>9, <1>10, <1>11, <1>12, <1>13 DEF UpdateReads

\* Nothing but the description changes, and nobody but c has changed it.
LEMMA PatchWrites ==
  ASSUME WorldTyped, CallsTyped, NEW c \in Caller, IsSound(c), Patch(c)
  PROVE  Beside(c) /\ Soundly(c) /\ WorldTyped'
<1> DEFINE k == call[c]
<1>1. k.op = "update" /\ k.at = "patch"
  BY DEF Patch, At
<1>2. k \in Active /\ k.input.new \in Text
  BY <1>1, AtIsActive DEF CallsTyped, IsAsked
<1>3. /\ description \in Description /\ description.edits \in Nat
      /\ description.patched \subseteq Caller
  BY DEF WorldTyped, Description
<1>4. /\ UNCHANGED <<pr, talk, sources, replies, issues, indexed, thread>>
      /\ changes' \in 0..MaxChanges /\ faults' \in 0..MaxFaults
  BY BoundsTyped DEF Patch, discussion, issueVars
<1>5. /\ description' \in Description
      /\ description'.edits = description.edits + 1
      /\ description'.patched = description.patched \cup {c}
  BY <1>2, <1>3 DEF Patch, Description
<1>6. Beside(c)
  BY <1>3, <1>4, <1>5 DEF Beside
<1>7. WorldTyped'
  BY <1>4, <1>5 DEF WorldTyped
<1>8. UpdateSound(c, k, description) /\ ThreadSound(c, k, thread)
  BY DEF IsSound, Sound
<1>9. k.about \in Nat
  BY <1>2, ActiveFields
<1>10. c \notin thread.resolvers
  BY <1>1, <1>8 DEF ThreadSound
<1>11. ASSUME GoesOn(c, [k EXCEPT !.kept = <<description>>, !.at = "after"])
       PROVE  Soundly(c)
  <2> DEFINE k2 == [k EXCEPT !.kept = <<description>>, !.at = "after"]
  <2>1. <<description>> \in Seq(BOOLEAN \cup Description)
    BY <1>3
  <2>2. /\ k2 \in Active /\ k2.op = k.op /\ k2.input = k.input
        /\ k2.at = "after" /\ k2.about = k.about /\ k2.kept = <<description>>
    BY <1>2, <2>1 DEF Active, Place
  <2>3. call' = [call EXCEPT ![c] = k2]
    BY <1>11 DEF GoesOn
  <2> HIDE DEF k2
  <2>4. k2.kept[1].text = k2.input.text \/ k2.kept[1].edits > k2.about
    BY <1>1, <1>3, <1>8, <1>9, <2>2 DEF UpdateSound
  <2>5. UpdateSound(c, k2, description')
    BY <1>1, <1>5, <2>2, <2>4 DEF UpdateSound
  <2>6. ThreadSound(c, k2, thread')
    BY <1>1, <1>4, <1>10, <2>2 DEF ThreadSound
  <2> QED
    BY <1>1, <1>4, <2>2, <2>3, <2>5, <2>6, UpdateSteps
<1>12. ASSUME Ends(c, "UPDATE_OUTCOME_UNKNOWN", TRUE)
       PROVE  Soundly(c)
  <2>1. "UPDATE_OUTCOME_UNKNOWN" \in Codes \ (ThreadCodes \cup {"created"})
    BY DEF Codes, ThreadCodes
  <2> QED
    BY <1>1, <1>2, <1>4, <1>12, <2>1, UpdateEnds
<1> QED
  BY <1>6, <1>7, <1>11, <1>12 DEF Patch

\* The same of the thread.
LEMMA ThreadBeside ==
  ASSUME WorldTyped, NEW c, UNCHANGED <<pr, sources, replies, issues, indexed, description>>,
         UNCHANGED bounds \/ Fault, talk' \in Nat, thread' \in Thread,
         \A d \in Caller : d # c =>
           /\ d \in thread'.replies <=> d \in thread.replies
           /\ d \in thread'.resolvers <=> d \in thread.resolvers
  PROVE  Beside(c) /\ WorldTyped'
<1>1. description.edits \in Nat
  BY DEF WorldTyped, Description
<1>2. Beside(c)
  BY <1>1 DEF Beside
<1>3. WorldTyped'
  BY BoundsTyped DEF WorldTyped
<1> QED
  BY <1>2, <1>3

LEMMA PostThreadReplyWrites ==
  ASSUME WorldTyped, CallsTyped, NEW c \in Caller, IsSound(c), PostThreadReply(c)
  PROVE  Beside(c) /\ Soundly(c) /\ WorldTyped'
<1> DEFINE k == call[c]
<1>1. k.op \in {"thread reply", "reply and resolve"} /\ k.at = "post" /\ k.op \in ThreadTool
  BY DEF PostThreadReply, At, ThreadTool
<1>2. k \in Active /\ ThreadSound(c, k, thread)
  BY <1>1, AtIsActive DEF IsSound, Sound
<1>3. /\ UNCHANGED <<pr, sources, replies, issues, indexed, description>>
      /\ talk' \in Nat
      /\ UNCHANGED bounds \/ Fault
  <2>1. /\ UNCHANGED <<pr, sources, replies, issues, indexed, description>>
        /\ talk' = talk + 1 /\ talk \in Nat
    BY DEF PostThreadReply, issueVars, WorldTyped
  <2>2. UNCHANGED bounds \/ Fault
    BY DEF PostThreadReply
  <2> QED
    BY <2>1, <2>2
<1>4. /\ thread' \in Thread
      /\ thread'.replies = thread.replies \cup {c} /\ thread'.resolvers = thread.resolvers
  BY DEF PostThreadReply, WorldTyped, Thread
<1>5. Beside(c) /\ WorldTyped'
  BY <1>3, <1>4, ThreadBeside
<1>6. c \notin thread'.resolvers
  BY <1>1, <1>2, <1>4 DEF ThreadSound
<1>7. ASSUME NEW code \in {"replied", "replied, thread_already_resolved", "replyError"},
             Ends(c, code, TRUE)
      PROVE  Soundly(c)
  <2>1. code \in Codes \ {"created", "updated"}
    BY DEF Codes
  <2> QED
    BY <1>1, <1>2, <1>3, <1>4, <1>6, <1>7, <2>1, ThreadEnds
<1>8. ASSUME GoesOn(c, [k EXCEPT !.at = "state"])
      PROVE  Soundly(c)
  <2> DEFINE k2 == [k EXCEPT !.at = "state"]
  <2>1. k2 \in Active /\ k2.op = k.op /\ k2.input = k.input
    BY <1>2 DEF Active, Place
  <2>2. GoesOn(c, k2)
    BY <1>8
  <2> HIDE DEF k2
  <2> QED
    BY <1>1, <1>2, <1>3, <1>4, <2>1, <2>2, ThreadGoesOn
<1>9. \/ Ends(c, "replied", TRUE) \/ Ends(c, "replied, thread_already_resolved", TRUE)
      \/ Ends(c, "replyError", TRUE) \/ GoesOn(c, [k EXCEPT !.at = "state"])
  BY DEF PostThreadReply, AfterFailedReply
<1> QED
  BY <1>5, <1>7, <1>8, <1>9

LEMMA ResolveWrites ==
  ASSUME WorldTyped, CallsTyped, NEW c \in Caller, IsSound(c), Resolve(c)
  PROVE  Beside(c) /\ Soundly(c) /\ WorldTyped'
<1> DEFINE k == call[c]
<1>1. k.op \in {"resolve", "reply and resolve"} /\ k.at = "resolve" /\ k.op \in ThreadTool
  BY DEF Resolve, At, ThreadTool
<1>2. k \in Active /\ ThreadSound(c, k, thread)
  BY <1>1, AtIsActive DEF IsSound, Sound
<1>3. /\ UNCHANGED <<pr, talk, sources, replies, issues, indexed, description>>
      /\ UNCHANGED bounds \/ Fault
      /\ talk' \in Nat
  BY DEF Resolve, discussion, issueVars, WorldTyped
<1>4. /\ thread' \in Thread
      /\ thread'.replies = thread.replies /\ thread'.resolvers = thread.resolvers \cup {c}
  BY DEF Resolve, WorldTyped, Thread
<1>5. Beside(c) /\ WorldTyped'
  BY <1>3, <1>4, ThreadBeside
<1>6. k.op = "reply and resolve" => c \in thread'.replies
  BY <1>1, <1>2, <1>4 DEF ThreadSound
<1>7. ASSUME NEW code \in {"resolved", "error", "replied, resolved", "replied, resolveError"},
             code \in {"resolved", "error"} <=> k.op = "resolve",
             Ends(c, code, TRUE)
      PROVE  Soundly(c)
  <2>1. code \in Codes \ {"created", "updated"}
    BY DEF Codes
  <2>2. code \in ThreadCodes => k.op = "reply and resolve"
    BY <1>1, <1>7 DEF ThreadCodes
  <2> QED
    BY <1>1, <1>2, <1>3, <1>6, <1>7, <2>1, <2>2, ThreadEnds
<1>8. \/ k.op = "resolve" /\ (Ends(c, "resolved", TRUE) \/ Ends(c, "error", TRUE))
      \/ /\ k.op # "resolve"
         /\ Ends(c, "replied, resolved", TRUE) \/ Ends(c, "replied, resolveError", TRUE)
  BY DEF Resolve, ResolveFailed
<1> QED
  BY <1>5, <1>7, <1>8

-----------------------------------------------------------------------------
(* What others do.                                                         *)

\* One element changed.
LEMMA OneChanged ==
  ASSUME NEW S, NEW s \in Seq(S), NEW i \in DOMAIN s, NEW e \in S
  PROVE  /\ [s EXCEPT ![i] = e] \in Seq(S)
         /\ DOMAIN [s EXCEPT ![i] = e] = DOMAIN s
         /\ Len([s EXCEPT ![i] = e]) = Len(s)
         /\ \A j \in DOMAIN s : [s EXCEPT ![i] = e][j] = IF j = i THEN e ELSE s[j]
<1>1. DOMAIN s = 1..Len(s)
  BY LenProperties
<1> QED
  BY <1>1, ExceptSeq

LEMMA ElsewhereWrites ==
  ASSUME WorldTyped, RowsSound, OthersFirst, Elsewhere
  PROVE  Beside(Others) /\ UNCHANGED call /\ WorldTyped' /\ RowsSound' /\ OthersFirst'
<1>1. /\ replies \in Seq(Reply) /\ issues \in Seq(Issue) /\ indexed \subseteq DOMAIN issues
      /\ description \in Description /\ description.edits \in Nat
      /\ changes \in 0..MaxChanges /\ faults \in 0..MaxFaults
  BY DEF WorldTyped, Description
<1>2. OthersChange => changes' \in 0..MaxChanges /\ faults' = faults /\ call' = call
  BY <1>1, WriteBoundsAssumption DEF OthersChange
<1>3. ASSUME UNCHANGED <<replies, issues, description, thread, call>>,
             pr' \in [open : BOOLEAN, head : Tip], talk' \in Nat, sources' \subseteq Source,
             indexed' \subseteq DOMAIN issues, changes' \in 0..MaxChanges, faults' = faults
      PROVE  Beside(Others) /\ UNCHANGED call /\ WorldTyped' /\ RowsSound' /\ OthersFirst'
  <2>1. Beside(Others)
    BY <1>3, WorldStaysBeside DEF WorldStays
  <2>2. WorldTyped'
    BY <1>1, <1>3 DEF WorldTyped
  <2>3. RowsSound' /\ OthersFirst'
    BY <1>3 DEF RowsSound, OthersFirst
  <2> QED
    BY <1>3, <2>1, <2>2, <2>3
<1>4. ASSUME Move
      PROVE  Beside(Others) /\ UNCHANGED call /\ WorldTyped' /\ RowsSound' /\ OthersFirst'
  <2>1. pr' \in [open : BOOLEAN, head : Tip]
    BY <1>4 DEF Move, WorldTyped
  <2>2. UNCHANGED <<talk, sources, replies, issues, indexed, description, thread>> /\ OthersChange
    BY <1>4 DEF Move, discussion, issueVars
  <2> QED
    BY <1>1, <1>2, <1>3, <2>1, <2>2 DEF WorldTyped
<1>5. ASSUME NEW i \in DOMAIN replies, replies' = [replies EXCEPT ![i].edited = TRUE],
             UNCHANGED <<pr, talk, sources, issues, indexed, description, thread>>, OthersChange
      PROVE  Beside(Others) /\ UNCHANGED call /\ WorldTyped' /\ RowsSound' /\ OthersFirst'
  <2> DEFINE e == [replies[i] EXCEPT !.edited = TRUE]
  <2>1. replies[i] \in Reply
    BY <1>1, ElementOfSeq, LenProperties
  <2>2. e \in Reply /\ e.source = replies[i].source /\ e.by = replies[i].by
        /\ e.checked = replies[i].checked
    BY <2>1 DEF Reply
  <2>3. replies' = [replies EXCEPT ![i] = e]
    BY <1>5
  <2> HIDE DEF e
  <2>4. /\ replies' \in Seq(Reply) /\ DOMAIN replies' = DOMAIN replies
        /\ \A j \in DOMAIN replies : replies'[j] = IF j = i THEN e ELSE replies[j]
    BY <1>1, <2>2, <2>3, OneChanged
  <2>5. \A j \in DOMAIN replies :
          /\ replies'[j].source = replies[j].source /\ replies'[j].by = replies[j].by
          /\ replies'[j].checked = replies[j].checked
    BY <2>2, <2>4
  <2>6. Beside(Others)
    BY <1>1, <1>5, <2>4, <2>5 DEF Beside
  <2>7. WorldTyped'
    BY <1>1, <1>2, <1>5, <2>4 DEF WorldTyped
  <2>8. RowsSound'
    BY <1>5, <2>4, <2>5 DEF RowsSound
  <2>9. OthersFirst'
    BY <1>5 DEF OthersFirst
  <2> QED
    BY <1>2, <1>5, <2>6, <2>7, <2>8, <2>9
<1>6. ASSUME Discuss
      PROVE  Beside(Others) /\ UNCHANGED call /\ WorldTyped' /\ RowsSound' /\ OthersFirst'
  <2>1. UNCHANGED <<pr, issues, indexed, description, thread>> /\ OthersChange
    BY <1>6 DEF Discuss, issueVars
  <2>2. \/ /\ talk' \in Nat /\ sources' \subseteq Source
           /\ UNCHANGED replies
        \/ /\ \E i \in DOMAIN replies : replies' = [replies EXCEPT ![i].edited = TRUE]
           /\ UNCHANGED <<talk, sources>>
    BY <1>6 DEF Discuss, WorldTyped
  <2> QED
    BY <1>1, <1>2, <1>3, <1>5, <2>1, <2>2 DEF WorldTyped
<1>7. ASSUME ToggleThread
      PROVE  Beside(Others) /\ UNCHANGED call /\ WorldTyped' /\ RowsSound' /\ OthersFirst'
  <2>1. /\ UNCHANGED <<pr, talk, sources, replies, issues, indexed, description>>
        /\ OthersChange
    BY <1>7 DEF ToggleThread, discussion, issueVars
  <2>2. /\ thread' \in Thread /\ thread'.replies = thread.replies
        /\ thread'.resolvers = thread.resolvers
    BY <1>7 DEF ToggleThread, WorldTyped, Thread
  <2>3. Beside(Others)
    BY <1>1, <2>1, <2>2 DEF Beside
  <2>4. WorldTyped'
    BY <1>1, <1>2, <2>1, <2>2 DEF WorldTyped
  <2>5. RowsSound' /\ OthersFirst'
    BY <2>1 DEF RowsSound, OthersFirst
  <2> QED
    BY <1>2, <2>1, <2>3, <2>4, <2>5
<1>8. ASSUME NEW n \in DOMAIN issues, TouchIssue(n)
      PROVE  Beside(Others) /\ UNCHANGED call /\ WorldTyped' /\ RowsSound' /\ OthersFirst'
  <2> DEFINE e == [issues[n] EXCEPT !.touched = TRUE]
  <2>1. issues[n] \in Issue
    BY <1>1, ElementOfSeq, LenProperties
  <2>2. e \in Issue /\ e.source = issues[n].source /\ e.by = issues[n].by
        /\ e.searched = issues[n].searched
    BY <2>1 DEF Issue
  <2>3. /\ issues' = [issues EXCEPT ![n] = e]
        /\ UNCHANGED <<pr, talk, sources, replies, indexed, description, thread>> /\ OthersChange
    BY <1>8 DEF TouchIssue, discussion
  <2> HIDE DEF e
  <2>4. /\ issues' \in Seq(Issue) /\ DOMAIN issues' = DOMAIN issues /\ Len(issues') = Len(issues)
        /\ \A m \in DOMAIN issues : issues'[m] = IF m = n THEN e ELSE issues[m]
    BY <1>1, <2>2, <2>3, OneChanged
  <2>5. \A m \in DOMAIN issues :
          /\ issues'[m].source = issues[m].source /\ issues'[m].by = issues[m].by
          /\ issues'[m].searched = issues[m].searched
    BY <2>2, <2>4
  <2>6. Beside(Others)
    BY <1>1, <2>3, <2>4, <2>5 DEF Beside
  <2>7. WorldTyped'
    <3>1. indexed' \subseteq DOMAIN issues'
      BY <1>1, <2>3, <2>4
    <3> QED
      BY <1>1, <1>2, <2>3, <2>4, <3>1 DEF WorldTyped
  <2>8. RowsSound'
    BY <2>3, <2>4, <2>5 DEF RowsSound
  <2>9. OthersFirst'
    BY <2>4, <2>5 DEF OthersFirst
  <2> QED
    BY <1>2, <2>3, <2>6, <2>7, <2>8, <2>9
<1>9. ASSUME NEW n \in DOMAIN issues, Index(n)
      PROVE  Beside(Others) /\ UNCHANGED call /\ WorldTyped' /\ RowsSound' /\ OthersFirst'
  BY <1>1, <1>3, <1>9 DEF Index, WorldTyped, discussion, bounds
<1>10. ASSUME NEW x \in Text, EditDescription(x)
       PROVE  Beside(Others) /\ UNCHANGED call /\ WorldTyped' /\ RowsSound' /\ OthersFirst'
  <2>1. /\ UNCHANGED <<pr, talk, sources, replies, issues, indexed, thread>>
        /\ OthersChange
    BY <1>10 DEF EditDescription, discussion, issueVars
  <2>2. /\ description' \in Description /\ description'.patched = description.patched
        /\ description'.edits = description.edits + 1
    <3>1. description \in Description /\ description.edits + 1 \in Nat
      BY <1>1
    <3>2. description' = [description EXCEPT !.text = x, !.by = Others,
                                            !.edits = description.edits + 1]
      BY <1>10, <3>1 DEF EditDescription, Description
    <3> QED
      BY <3>1, <3>2 DEF Description
  <2>3. Beside(Others)
    BY <1>1, <2>1, <2>2 DEF Beside
  <2>4. WorldTyped'
    BY <1>1, <1>2, <2>1, <2>2 DEF WorldTyped
  <2>5. RowsSound' /\ OthersFirst'
    BY <2>1 DEF RowsSound, OthersFirst
  <2> QED
    BY <1>2, <2>1, <2>3, <2>4, <2>5
<1> QED
  BY <1>4, <1>6, <1>7, <1>8, <1>9, <1>10 DEF Elsewhere

-----------------------------------------------------------------------------
(* The invariant.                                                          *)

WriteInv == WorldTyped /\ CallsTyped /\ RowsSound /\ CallsSound /\ OthersFirst

LEMMA InitSound == Init => WriteInv
<1> SUFFICES ASSUME Init PROVE WriteInv
  OBVIOUS
<1>1. PICK k \in 0..Number, s \in Source :
        issues = [n \in 1..k |-> [source |-> s, by |-> Others, touched |-> FALSE, searched |-> {}]]
  BY DEF Init
<1>2. issues \in Seq(Issue) /\ Len(issues) = k /\ DOMAIN issues = 1..k /\ k \in Nat
  <2> DEFINE e == [source |-> s, by |-> Others, touched |-> FALSE, searched |-> {}]
  <2>1. e \in Issue /\ k \in Nat
    BY WriteBoundsAssumption DEF Issue
  <2> HIDE DEF e
  <2>2. issues = [n \in 1..k |-> e]
    BY <1>1 DEF e
  <2>3. issues \in Seq(Issue)
    BY <2>1, <2>2, IsASeq
  <2>4. DOMAIN issues = 1..k /\ DOMAIN issues = 1..Len(issues) /\ Len(issues) \in Nat
    BY <2>2, <2>3, LenProperties
  <2> QED
    BY <2>1, <2>3, <2>4
<1>3. \A n \in DOMAIN issues : issues[n].by = Others /\ issues[n].searched = {}
  BY <1>1
<1>4. replies = << >> /\ DOMAIN replies = {} /\ replies \in Seq(Reply)
  BY EmptySeq DEF Init
<1>5. /\ description \in Description /\ description.patched = {}
      /\ thread \in Thread /\ thread.resolvers = {}
      /\ call = [c \in Caller |-> Unused]
  BY DEF Init, Description, Thread
<1>6. WorldTyped
  <2>1. pr \in [open : BOOLEAN, head : Tip]
    BY DEF Init
  <2>2. talk = 0 /\ sources = Source /\ indexed = DOMAIN issues /\ changes = 0 /\ faults = 0
    BY DEF Init
  <2> QED
    BY <1>2, <1>4, <1>5, <2>1, <2>2, WriteBoundsAssumption DEF WorldTyped
<1>7. CallsTyped
  BY <1>5 DEF CallsTyped, IsAsked, Unused, FollowUp, Writing
<1>8. RowsSound
  BY <1>3, <1>4 DEF RowsSound
<1>9. OthersFirst
  <2>1. \A n \in DOMAIN issues : issues[n].by \notin Caller /\ ~(n > k)
    BY <1>2, <1>3, OthersAssumption
  <2>2. k <= Len(issues)
    BY <1>2
  <2> QED
    BY <2>1, <2>2 DEF OthersFirst
<1>10. ASSUME NEW c \in Caller
       PROVE  Sound(c, call[c], replies, issues, description, thread)
  <2>1. call[c].op = "none" /\ call[c].at = "unused"
    BY <1>5 DEF Unused
  <2>2. ReplySound(c, call[c], replies)
    BY <1>4, <2>1 DEF ReplySound
  <2>3. IssueSound(c, call[c], issues)
    BY <1>3, <2>1, OthersAssumption DEF IssueSound
  <2>4. UpdateSound(c, call[c], description)
    BY <1>5, <2>1 DEF UpdateSound
  <2>5. ThreadSound(c, call[c], thread)
    BY <1>5, <2>1 DEF ThreadSound
  <2> QED
    BY <2>1, <2>2, <2>3, <2>4, <2>5 DEF Sound, CodeSound
<1> QED
  BY <1>6, <1>7, <1>8, <1>9, <1>10 DEF WriteInv, CallsSound

\* The rest of the world when only the call, and perhaps a bound, has changed.
LEMMA QuietStep ==
  ASSUME WriteInv, UNCHANGED <<pr, sources, replies, issues, indexed, description, thread>>,
         talk' \in Nat, UNCHANGED bounds \/ Fault
  PROVE  WorldTyped' /\ RowsSound' /\ OthersFirst'
<1>1. WorldTyped'
  BY BoundsTyped DEF WriteInv, WorldTyped
<1>2. RowsSound' /\ OthersFirst'
  BY DEF WriteInv, RowsSound, OthersFirst
<1> QED
  BY <1>1, <1>2

LEMMA NextSound == WriteInv /\ [Next]_vars => WriteInv'
<1> SUFFICES ASSUME WriteInv, [Next]_vars PROVE WriteInv'
  OBVIOUS
<1>1. WorldTyped /\ CallsTyped /\ RowsSound /\ CallsSound /\ OthersFirst /\ talk \in Nat
      /\ \A c \in Caller : IsSound(c)
  BY DEF WriteInv, CallsSound, IsSound, WorldTyped
<1>2. ASSUME NEW c \in Caller, Beside(c), Soundly(c), WorldTyped', RowsSound', OthersFirst'
      PROVE  WriteInv'
  BY <1>1, <1>2, CallStep DEF WriteInv
<1>3. ASSUME NEW c \in Caller, Soundly(c), WorldStays, UNCHANGED <<pr, sources, indexed>>,
             talk' \in Nat, UNCHANGED bounds \/ Fault
      PROVE  WriteInv'
  <2>1. WorldTyped' /\ RowsSound' /\ OthersFirst'
    BY <1>3, QuietStep DEF WorldStays
  <2> QED
    BY <1>1, <1>2, <1>3, <2>1, WorldStaysBeside
<1>4. CASE Elsewhere
  BY <1>1, <1>4, ElsewhereWrites, OthersStep DEF WriteInv
<1>5. ASSUME NEW c \in Caller, FollowUpStep(c)
      PROVE  WriteInv'
  <2>1. ASSUME NEW s \in Source,
               \/ BeginReply(c, s) \/ BeginIssue(c, s)
               \/ \E n \in 1..Number : BeginGet(c, s, n)
        PROVE  WriteInv'
    <3>1. UNCHANGED <<pr, talk, sources, indexed, bounds>>
      BY <2>1 DEF BeginReply, BeginIssue, BeginGet, Begin, discussion, issueVars
    <3> QED
      BY <1>1, <1>3, <2>1, <3>1, FollowUpBegins
  <2>2. ASSUME FollowUpReads(c)
        PROVE  WriteInv'
    <3>1. Keeps(c)
      BY <1>1, <2>2, FollowUpReadsKeep
    <3>2. UNCHANGED <<pr, talk, sources, indexed>> /\ WorldStays
      BY <2>2 DEF FollowUpReads, ReadDiscussion, ReadContext, CheckRefs, LookForReply,
             ReadPrevious, VerifyReply, ReadBackReply, FindIssues, ReadCandidate,
             ReadCandidateAgain, Candidates, ReadAgain, ReadIssue, ReadIssueAgain, GotIssue,
             Confirm, FollowUpFails, Reads, discussion, issueVars, WorldStays
    <3>3. UNCHANGED bounds \/ Fault
      BY <2>2 DEF FollowUpReads, ReadDiscussion, ReadContext, CheckRefs, LookForReply,
             ReadPrevious, VerifyReply, ReadBackReply, FindIssues, ReadCandidate,
             ReadCandidateAgain, Candidates, ReadAgain, ReadIssue, ReadIssueAgain, GotIssue,
             Confirm, FollowUpFails, Reads
    <3> QED
      BY <1>1, <1>3, <3>1, <3>2, <3>3, KeepsSoundly
  <2>3. ASSUME PostReply(c)
        PROVE  WriteInv'
    <3>1. OthersFirst'
      BY <1>1, <2>3 DEF PostReply, issueVars, OthersFirst
    <3> QED
      BY <1>1, <1>2, <2>3, <3>1, PostReplyWrites
  <2>4. ASSUME PostIssue(c)
        PROVE  WriteInv'
    BY <1>1, <1>2, <2>4, PostIssueWrites
  <2> QED
    BY <1>5, <2>1, <2>2, <2>3, <2>4 DEF FollowUpStep, FollowUpReads
<1>6. ASSUME NEW c \in Caller, UpdateStep(c)
      PROVE  WriteInv'
  <2>1. ASSUME \/ \E x \in Text : BeginUpdate(c, x)
               \/ BeginThreadReply(c) \/ BeginResolve(c) \/ BeginComment(c)
               \/ \E resolve \in BOOLEAN : BeginReplyAndResolve(c, resolve)
        PROVE  WriteInv'
    <3>1. UNCHANGED <<pr, talk, sources, indexed, bounds>>
      BY <2>1 DEF BeginUpdate, BeginThreadReply, BeginResolve, BeginComment, BeginReplyAndResolve,
             Begin, discussion, issueVars
    <3> QED
      BY <1>1, <1>3, <2>1, <3>1, UpdateBegins
  <2>2. ASSUME UpdateReads(c)
        PROVE  WriteInv'
    <3>1. UNCHANGED <<pr, sources, indexed>> /\ (talk' = talk \/ talk' = talk + 1)
      BY <2>2 DEF UpdateReads, ReadBefore, ReadAfter, ReadThread, ReadHead, PostComment,
             UpdateFails, Reads, discussion, issueVars
    <3>2. UNCHANGED bounds \/ Fault
      BY <2>2 DEF UpdateReads, ReadBefore, ReadAfter, ReadThread, ReadHead, PostComment,
             UpdateFails, Reads
    <3>3. talk' \in Nat
      BY <1>1, <3>1
    <3> QED
      BY <1>1, <1>3, <2>2, <3>1, <3>2, <3>3, UpdateReadsKeep
  <2>3. ASSUME Patch(c) \/ PostThreadReply(c) \/ Resolve(c)
        PROVE  WriteInv'
    <3>1. UNCHANGED <<replies, issues>>
      BY <2>3 DEF Patch, PostThreadReply, Resolve, discussion, issueVars
    <3>2. RowsSound' /\ OthersFirst'
      BY <1>1, <3>1 DEF RowsSound, OthersFirst
    <3> QED
      BY <1>1, <1>2, <2>3, <3>2, PatchWrites, PostThreadReplyWrites, ResolveWrites
  <2> QED
    BY <1>6, <2>1, <2>2, <2>3 DEF UpdateStep, UpdateReads
<1>7. CASE UNCHANGED vars
  BY <1>7 DEF vars, discussion, issueVars, bounds, WriteInv, WorldTyped, CallsTyped, RowsSound,
         CallsSound, OthersFirst
<1> QED
  BY <1>4, <1>5, <1>6, <1>7 DEF Next

THEOREM WriteInvariant == Spec => []WriteInv
  BY InitSound, NextSound, PTL DEF Spec

-----------------------------------------------------------------------------
(* What follows.                                                           *)

\* An App reply or issue is only posted by a call that had looked, and found
\* no other one: of two that answer the same comment, neither was among those
\* that the author of the other had looked through.
THEOREM NoDuplicateWasSeen == Spec => []NoDuplicateSeen
<1>1. WriteInv => NoDuplicateSeen
  BY DEF WriteInv, RowsSound, NoDuplicateSeen
<1> QED
  BY <1>1, WriteInvariant, PTL

\* An error without mayHaveChanged says the truth: nothing was written.
THEOREM SilentErrorsWroteNothing == Spec => []SilentErrorWroteNothing
<1>1. ASSUME WriteInv, NEW c \in Caller, Over(c), call[c].op \in FollowUp \cup {"update"},
             ~call[c].mayHaveChanged
      PROVE  RepliesBy(c) = {} /\ IssuesBy(c) = {} /\ c \notin description.patched
  <2>1. ReplySound(c, call[c], replies) /\ IssueSound(c, call[c], issues)
        /\ UpdateSound(c, call[c], description)
    BY <1>1 DEF WriteInv, CallsSound, Sound
  <2>2. RepliesBy(c) = {}
    BY <1>1, <2>1 DEF ReplySound, RepliesBy, Over
  <2>3. IssuesBy(c) = {}
    BY <1>1, <2>1 DEF IssueSound, IssuesBy, Over
  <2>4. c \notin description.patched
    BY <1>1, <2>1 DEF UpdateSound, Over
  <2> QED
    BY <2>2, <2>3, <2>4
<1>2. WriteInv => SilentErrorWroteNothing
  BY <1>1 DEF SilentErrorWroteNothing
<1> QED
  BY <1>2, WriteInvariant, PTL

LEMMA AtMostOne ==
  ASSUME NEW S, \A x, y \in S : x = y
  PROVE  Cardinality(S) \in {0, 1} /\ (S = {} => Cardinality(S) = 0)
<1>1. CASE S = {}
  BY <1>1, FS_EmptySet
<1>2. CASE S # {}
  <2>1. PICK x : S = {x}
    BY <1>2
  <2> QED
    BY <1>2, <2>1, FS_Singleton
<1> QED
  BY <1>1, <1>2

\* A call writes one reply or issue at most; if it says that it wrote, what it
\* wrote is there, and answers the comment it was asked to answer.
THEOREM SuccessWasWritten == Spec => []SuccessIsWritten
<1>1. ASSUME WriteInv, NEW c \in Caller
      PROVE  /\ ReplySound(c, call[c], replies) /\ IssueSound(c, call[c], issues)
             /\ UpdateSound(c, call[c], description) /\ ThreadSound(c, call[c], thread)
             /\ CodeSound(call[c])
  BY <1>1 DEF WriteInv, CallsSound, Sound
<1>2. ASSUME WriteInv, NEW c \in Caller
      PROVE  Cardinality(RepliesBy(c)) + Cardinality(IssuesBy(c)) <= 1
  <2>1. \A i, j \in RepliesBy(c) : i = j
    BY <1>1, <1>2 DEF ReplySound, RepliesBy
  <2>2. \A m, n \in IssuesBy(c) : m = n
    BY <1>1, <1>2 DEF IssueSound, IssuesBy
  <2>3. RepliesBy(c) = {} \/ IssuesBy(c) = {}
    <3>1. call[c].op # "reply" => RepliesBy(c) = {}
      BY <1>1, <1>2 DEF ReplySound, RepliesBy
    <3>2. call[c].op # "issue" => IssuesBy(c) = {}
      BY <1>1, <1>2 DEF IssueSound, IssuesBy
    <3> QED
      BY <3>1, <3>2
  <2> HIDE DEF RepliesBy, IssuesBy
  <2>4. Cardinality(RepliesBy(c)) \in {0, 1} /\ Cardinality(IssuesBy(c)) \in {0, 1}
        /\ (RepliesBy(c) = {} => Cardinality(RepliesBy(c)) = 0)
        /\ (IssuesBy(c) = {} => Cardinality(IssuesBy(c)) = 0)
    BY <2>1, <2>2, AtMostOne
  <2> QED
    BY <2>3, <2>4
<1>3. ASSUME WriteInv, NEW c \in Caller, Over(c), call[c].code = "created"
      PROVE  \/ \E i \in RepliesBy(c) : replies[i].source = call[c].input.source
             \/ \E n \in IssuesBy(c) : issues[n].source = call[c].input.source
  <2>1. CASE call[c].op = "reply"
    BY <1>1, <1>3, <2>1 DEF ReplySound, RepliesBy, Over
  <2>2. CASE call[c].op = "issue"
    BY <1>1, <1>3, <2>2 DEF IssueSound, IssuesBy, Over
  <2> QED
    BY <1>1, <1>3, <2>1, <2>2 DEF CodeSound, Over, Writing
<1>4. ASSUME WriteInv, NEW c \in Caller, Over(c), call[c].code = "updated"
      PROVE  c \in description.patched
  BY <1>1, <1>4 DEF UpdateSound, Over
<1>5. ASSUME WriteInv, NEW c \in Caller, Over(c),
             call[c].code \in {"replied", "replied, resolved", "replied, resolveError",
                               "replied, thread_already_resolved"}
      PROVE  c \in thread.replies
  BY <1>1, <1>5 DEF ThreadSound, Over
<1>6. WriteInv => SuccessIsWritten
  BY <1>2, <1>3, <1>4, <1>5 DEF SuccessIsWritten
<1> QED
  BY <1>6, WriteInvariant, PTL

\* An update replaces a text its caller had not seen only if the description
\* was edited between the reading before and the PATCH.
THEOREM OverwritesNeedARace == Spec => []OverwriteNeedsRace
<1>1. WriteInv => OverwriteNeedsRace
  BY DEF WriteInv, CallsSound, Sound, UpdateSound, OverwriteNeedsRace, At
<1> QED
  BY <1>1, WriteInvariant, PTL

\* reply_and_resolve_review_thread resolves no thread it has not replied in.
THEOREM ResolvedWereAnswered == Spec => []ResolvedWasAnswered
<1>1. WriteInv => ResolvedWasAnswered
  BY DEF WriteInv, CallsSound, Sound, ThreadSound, ResolvedWasAnswered, Over
<1> QED
  BY <1>1, WriteInvariant, PTL

-----------------------------------------------------------------------------
(* Type correctness: every call writes once at most, so that there are no  *)
(* more replies, and no more issues of the App, than calls.                *)

LEMMA NoMoreThanCalls ==
  ASSUME NEW a \in Nat, NEW b \in Nat, a <= b, NEW s,
         \A i \in (a + 1)..b : s[i].by \in Caller,
         \A i, j \in (a + 1)..b : s[i].by = s[j].by => i = j
  PROVE  b - a <= Cardinality(Caller)
<1> DEFINE f == [i \in (a + 1)..b |-> s[i].by]
<1>1. f \in Injection((a + 1)..b, Caller)
  BY DEF Injection, IsInjective
<1>2. Cardinality((a + 1)..b) <= Cardinality(Caller) /\ Cardinality(Caller) \in Nat
  <2> HIDE DEF f
  <2> QED
    BY <1>1, FS_Injection, FS_CardinalityType, CallersAssumption
<1>3. Cardinality((a + 1)..b) = IF a + 1 > b THEN 0 ELSE b - (a + 1) + 1
  BY FS_Interval
<1> QED
  BY <1>2, <1>3

LEMMA Counted ==
  ASSUME WriteInv
  PROVE  /\ DOMAIN replies \subseteq 1..Cardinality(Caller)
         /\ Len(replies) <= Cardinality(Caller)
         /\ DOMAIN replies \subseteq Numbers /\ DOMAIN issues \subseteq Numbers
<1>1. /\ replies \in Seq(Reply) /\ issues \in Seq(Issue)
      /\ Len(replies) \in Nat /\ DOMAIN replies = 1..Len(replies)
      /\ Len(issues) \in Nat /\ DOMAIN issues = 1..Len(issues)
  BY LenProperties DEF WriteInv, WorldTyped
<1>2. \A c \in Caller : ReplySound(c, call[c], replies) /\ IssueSound(c, call[c], issues)
  BY DEF WriteInv, CallsSound, Sound
<1>3. Cardinality(Caller) \in Nat
  BY FS_CardinalityType, CallersAssumption
<1>4. Len(replies) <= Cardinality(Caller)
  <2>1. \A i \in 1..Len(replies) : replies[i].by \in Caller
    <3>1. \A e \in Reply : e.by \in Caller
      BY DEF Reply
    <3> QED
      BY <1>1, <3>1, ElementOfSeq
  <2>2. \A i, j \in 1..Len(replies) : replies[i].by = replies[j].by => i = j
    BY <1>1, <1>2, <2>1 DEF ReplySound
  <2>3. Len(replies) - 0 <= Cardinality(Caller)
    <3> DEFINE a == 0
    <3>1. a \in Nat /\ a <= Len(replies) /\ (a + 1)..Len(replies) = 1..Len(replies)
      BY <1>1
    <3>2. a = 0
      OBVIOUS
    <3> HIDE DEF a
    <3>3. Len(replies) - a <= Cardinality(Caller)
      BY <1>1, <2>1, <2>2, <3>1, NoMoreThanCalls
    <3> QED
      BY <3>2, <3>3
  <2> QED
    BY <1>1, <1>3, <2>3
<1>5. Len(issues) <= Number + Cardinality(Caller)
  <2>1. PICK k \in 0..Number :
          k <= Len(issues) /\ \A n \in DOMAIN issues : issues[n].by \in Caller <=> n > k
    BY DEF WriteInv, OthersFirst
  <2>2. k \in Nat /\ k <= Number /\ Number \in Nat
    BY WriteBoundsAssumption
  <2>3. \A i \in (k + 1)..Len(issues) : issues[i].by \in Caller /\ i \in DOMAIN issues
    BY <1>1, <2>1, <2>2
  <2>4. \A i, j \in (k + 1)..Len(issues) : issues[i].by = issues[j].by => i = j
    BY <1>2, <2>3 DEF IssueSound
  <2>5. Len(issues) - k <= Cardinality(Caller)
    BY <1>1, <2>1, <2>2, <2>3, <2>4, NoMoreThanCalls
  <2> QED
    BY <1>1, <1>3, <2>2, <2>5
<1> QED
  BY <1>1, <1>3, <1>4, <1>5, WriteBoundsAssumption DEF Numbers

\* Before the search.
Early == {"read", "context", "find"}

\* What a call has read of the numbers is in bounds.
Bounded(k) ==
  /\ k.found \subseteq Numbers
  /\ k.left \subseteq k.found
  /\ k.existing \subseteq k.found
  /\ k.op # "issue" \/ k.at \in Early => k.left = {} /\ k.existing = {}

CallsBounded == \A c \in Caller : call[c].at \in Place => Bounded(call[c])

\* A step of c leaves its call bounded.
StaysBounded(c) ==
  \E k2 : (k2.at \in Place => Bounded(k2)) /\ call' = [call EXCEPT ![c] = k2]

LEMMA EndsBounded ==
  ASSUME NEW c, NEW code, NEW m, Ends(c, code, m)
  PROVE  StaysBounded(c)
<1> DEFINE k2 == Answer(call[c].op, call[c].input, code, m)
<1>1. k2.at = "done" /\ "done" \notin Place
  BY DEF Answer, Place
<1>2. call' = [call EXCEPT ![c] = k2]
  BY DEF Ends
<1> HIDE DEF k2
<1> QED
  BY <1>1, <1>2 DEF StaysBounded

LEMMA GoesOnBounded ==
  ASSUME NEW c, NEW k2, Bounded(k2), GoesOn(c, k2)
  PROVE  StaysBounded(c)
  BY DEF GoesOn, StaysBounded

LEMMA BeginBounded ==
  ASSUME NEW c, NEW op, NEW at, NEW input, Begin(c, op, at, input)
  PROVE  StaysBounded(c)
<1> DEFINE k2 == Call(op, at, input)
<1>1. Bounded(k2)
  BY DEF Call, Bounded
<1>2. call' = [call EXCEPT ![c] = k2]
  BY DEF Begin
<1> HIDE DEF k2
<1> QED
  BY <1>1, <1>2 DEF StaysBounded

LEMMA CallsStayBounded ==
  ASSUME WriteInv, CallsBounded, NEW c \in Caller, FollowUpStep(c) \/ UpdateStep(c)
  PROVE  StaysBounded(c)
<1> DEFINE k == call[c]
<1>1. /\ k \in Active => Bounded(k)
      /\ k.at # "done" /\ k.op # "none" => k \in Active
      /\ DOMAIN replies \subseteq Numbers /\ DOMAIN issues \subseteq Numbers
      /\ indexed \subseteq DOMAIN issues
      /\ IssueSound(c, k, issues)
  BY Counted, ActiveFields, AtIsActive
     DEF CallsBounded, WriteInv, WorldTyped, CallsSound, Sound
<1>2. ASSUME k \in Active, NEW at, at \in Early => k.at \in Early
      PROVE  /\ Bounded([k EXCEPT !.at = at])
             /\ \A r : Bounded([k EXCEPT !.read = r, !.at = at])
             /\ \A x : Bounded([k EXCEPT !.context = x, !.at = at])
             /\ \A x, n : Bounded([k EXCEPT !.context = x, !.about = n, !.at = at])
             /\ \A n, g : Bounded([k EXCEPT !.about = n, !.good = g, !.at = at])
             /\ \A g : Bounded([k EXCEPT !.good = g, !.at = at])
             /\ \A n : Bounded([k EXCEPT !.about = n, !.at = at])
             /\ \A n, y : Bounded([k EXCEPT !.about = n, !.kept = y, !.at = at])
             /\ \A y : Bounded([k EXCEPT !.kept = y, !.at = at])
  BY <1>1, <1>2 DEF Active, Bounded
<1>3. CASE LookForReply(c)
  <2>1. k \in Active /\ k.op = "reply"
    BY <1>1, <1>3 DEF LookForReply, At
  <2> DEFINE found == [k EXCEPT !.found = DOMAIN replies, !.at = "refs"]
  <2>2. Bounded(found)
    BY <1>1, <2>1 DEF Active, Bounded
  <2>3. "previous" \notin Early
    BY DEF Early
  <2> HIDE DEF found
  <2>4. \/ \E code, m : Ends(c, code, m)
        \/ \E n, g : GoesOn(c, [k EXCEPT !.about = n, !.good = g, !.at = "previous"])
        \/ GoesOn(c, found)
    BY <1>3 DEF LookForReply, found
  <2> HIDE DEF k
  <2> QED
    BY <1>2, <2>1, <2>2, <2>3, <2>4, EndsBounded, GoesOnBounded
<1>4. CASE FindIssues(c)
  <2>1. k \in Active /\ k.at = "find"
    BY <1>1, <1>4 DEF FindIssues, At
  <2> DEFINE hits == {n \in indexed : issues[n].source = k.input.source}
  <2>2. ASSUME NEW listed \in SUBSET hits
        PROVE  Bounded([k EXCEPT !.found = hits, !.left = listed, !.at = "candidates"])
    <3>1. hits \subseteq Numbers
      BY <1>1
    <3>2. k.existing = {}
      BY <1>1, <2>1 DEF Bounded, Early
    <3>3. k.op = "issue"
      BY <1>4 DEF FindIssues, At
    <3> HIDE DEF hits
    <3> QED
      BY <2>1, <3>1, <3>2, <3>3 DEF Active, Bounded, Early
  <2>3. \/ \E code, m : Ends(c, code, m)
        \/ \E listed \in SUBSET hits :
             GoesOn(c, [k EXCEPT !.found = hits, !.left = listed, !.at = "candidates"])
    BY <1>4 DEF FindIssues
  <2> HIDE DEF k, hits
  <2> QED
    BY <2>2, <2>3, EndsBounded, GoesOnBounded
<1>5. CASE ReadCandidateAgain(c)
  <2>1. k \in Active /\ k.op = "issue" /\ k.at = "candidate" /\ k.about \in k.left
    BY <1>1, <1>5 DEF ReadCandidateAgain, At, IssueSound
  <2> DEFINE n == k.about
             more == IF issues[n].by \in Caller THEN k.existing \cup {n} ELSE k.existing
             k2 == [k EXCEPT !.left = k.left \ {n}, !.at = "candidates", !.about = 0,
                             !.kept = << >>, !.existing = more]
  <2>2. GoesOn(c, k2) \/ Ends(c, "SNAPSHOT_CHANGED", FALSE)
    BY <2>1, <1>5 DEF ReadCandidateAgain, Active
  <2>3. more \subseteq k.existing \cup {n}
    OBVIOUS
  <2> HIDE DEF more
  <2>4. Bounded(k2)
    BY <1>1, <2>1, <2>3 DEF Active, Bounded, Early
  <2> HIDE DEF k2
  <2> QED
    BY <2>2, <2>4, EndsBounded, GoesOnBounded
<1>6. ASSUME \/ \E code, m : Ends(c, code, m)
             \/ \E op, at, input : Begin(c, op, at, input)
      PROVE  StaysBounded(c)
  BY <1>6, EndsBounded, BeginBounded
<1>7. CASE ReadDiscussion(c)
  <2>1. k \in Active /\ k.at \in Early
    BY <1>1, <1>7 DEF ReadDiscussion, At, FollowUp, Writing, Early
  <2>2. \/ \E code, m : Ends(c, code, m)
        \/ \E r : GoesOn(c, [k EXCEPT !.read = r, !.at = "context"])
    BY <1>7 DEF ReadDiscussion
  <2> HIDE DEF k
  <2> QED
    BY <1>2, <2>1, <2>2, EndsBounded, GoesOnBounded
<1>8. CASE ReadContext(c)
  <2>1. k \in Active /\ k.at \in Early
    BY <1>1, <1>8 DEF ReadContext, At, FollowUp, Writing, Early
  <2>2. \/ \E code, m : Ends(c, code, m)
        \/ \E x, at : GoesOn(c, [k EXCEPT !.context = x, !.at = at])
        \/ \E x, n : GoesOn(c, [k EXCEPT !.context = x, !.about = n, !.at = "issue"])
    BY <1>8 DEF ReadContext
  <2> HIDE DEF k
  <2> QED
    BY <1>2, <2>1, <2>2, EndsBounded, GoesOnBounded
<1>9. CASE CheckRefs(c)
  <2>1. k \in Active /\ "post" \notin Early
    BY <1>1, <1>9 DEF CheckRefs, At, Writing, Early
  <2>2. \/ \E code, m : Ends(c, code, m)
        \/ GoesOn(c, [k EXCEPT !.at = "post"])
    BY <1>9 DEF CheckRefs
  <2> HIDE DEF k
  <2> QED
    BY <1>2, <2>1, <2>2, EndsBounded, GoesOnBounded
<1>10. CASE PostReply(c)
  <2>1. k \in Active /\ "verify" \notin Early
    BY <1>1, <1>10 DEF PostReply, At, Writing, Early
  <2>2. \/ \E code, m : Ends(c, code, m)
        \/ \E n : GoesOn(c, [k EXCEPT !.about = n, !.at = "verify"])
    BY <1>10 DEF PostReply
  <2> HIDE DEF k
  <2> QED
    BY <1>2, <2>1, <2>2, EndsBounded, GoesOnBounded
<1>11. CASE VerifyReply(c)
  <2>1. k \in Active /\ "readback" \notin Early
    BY <1>1, <1>11 DEF VerifyReply, At, Writing, Early
  <2>2. \/ \E code, m : Ends(c, code, m)
        \/ \E g : GoesOn(c, [k EXCEPT !.good = g, !.at = "readback"])
    BY <1>11 DEF VerifyReply
  <2> HIDE DEF k
  <2> QED
    BY <1>2, <2>1, <2>2, EndsBounded, GoesOnBounded
<1>12. CASE ReadBackReply(c)
  <2>1. k \in Active /\ "final" \notin Early
    BY <1>1, <1>12 DEF ReadBackReply, At, Writing, Early
  <2>2. \/ \E code, m : Ends(c, code, m)
        \/ GoesOn(c, [k EXCEPT !.at = "final"])
    BY <1>12 DEF ReadBackReply
  <2> HIDE DEF k
  <2> QED
    BY <1>2, <2>1, <2>2, EndsBounded, GoesOnBounded
<1>13. CASE ReadCandidate(c)
  <2>1. k \in Active /\ "candidate" \notin Early
    BY <1>1, <1>13 DEF ReadCandidate, At, Writing, Early
  <2>2. \/ \E code, m : Ends(c, code, m)
        \/ \E n, y : GoesOn(c, [k EXCEPT !.about = n, !.kept = y, !.at = "candidate"])
    BY <1>13 DEF ReadCandidate
  <2> HIDE DEF k
  <2> QED
    BY <1>2, <2>1, <2>2, EndsBounded, GoesOnBounded
<1>14. CASE Candidates(c)
  <2>1. k \in Active /\ "again" \notin Early
    BY <1>1, <1>14 DEF Candidates, At, Writing, Early
  <2>2. \/ \E code, m : Ends(c, code, m)
        \/ GoesOn(c, [k EXCEPT !.at = "again"])
    BY <1>14 DEF Candidates
  <2> HIDE DEF k
  <2> QED
    BY <1>2, <2>1, <2>2, EndsBounded, GoesOnBounded
<1>15. CASE ReadAgain(c)
  <2>1. k \in Active /\ "refs" \notin Early
    BY <1>1, <1>15 DEF ReadAgain, At, Writing, Early
  <2>2. \/ \E code, m : Ends(c, code, m)
        \/ GoesOn(c, [k EXCEPT !.at = "refs"])
    BY <1>15 DEF ReadAgain
  <2> HIDE DEF k
  <2> QED
    BY <1>2, <2>1, <2>2, EndsBounded, GoesOnBounded
<1>16. CASE PostIssue(c)
  <2>1. k \in Active /\ "issue" \notin Early
    BY <1>1, <1>16 DEF PostIssue, At, Writing, Early
  <2>2. \/ \E code, m : Ends(c, code, m)
        \/ \E n : GoesOn(c, [k EXCEPT !.about = n, !.at = "issue"])
    BY <1>16 DEF PostIssue
  <2> HIDE DEF k
  <2> QED
    BY <1>2, <2>1, <2>2, EndsBounded, GoesOnBounded
<1>17. CASE ReadIssue(c)
  <2>1. k \in Active /\ "issueAgain" \notin Early
    BY <1>1, <1>17 DEF ReadIssue, At, Writing, Early
  <2>2. \/ \E code, m : Ends(c, code, m)
        \/ \E y : GoesOn(c, [k EXCEPT !.kept = y, !.at = "issueAgain"])
    BY <1>17 DEF ReadIssue
  <2> HIDE DEF k
  <2> QED
    BY <1>2, <2>1, <2>2, EndsBounded, GoesOnBounded
<1>18. CASE ReadIssueAgain(c)
  <2>1. k \in Active /\ "final" \notin Early
    BY <1>1, <1>18 DEF ReadIssueAgain, At, Writing, Early
  <2>2. \/ \E code, m : Ends(c, code, m)
        \/ GoesOn(c, [k EXCEPT !.at = "final"])
    BY <1>18 DEF ReadIssueAgain
  <2> HIDE DEF k
  <2> QED
    BY <1>2, <2>1, <2>2, EndsBounded, GoesOnBounded
<1>19. CASE ReadBefore(c)
  <2>1. k \in Active /\ "patch" \notin Early
    BY <1>1, <1>19 DEF ReadBefore, At, Writing, Early
  <2>2. \/ \E code, m : Ends(c, code, m)
        \/ \E n : GoesOn(c, [k EXCEPT !.about = n, !.at = "patch"])
    BY <1>19 DEF ReadBefore
  <2> HIDE DEF k
  <2> QED
    BY <1>2, <2>1, <2>2, EndsBounded, GoesOnBounded
<1>20. CASE Patch(c)
  <2>1. k \in Active /\ "after" \notin Early
    BY <1>1, <1>20 DEF Patch, At, Writing, Early
  <2>2. \/ \E code, m : Ends(c, code, m)
        \/ \E y : GoesOn(c, [k EXCEPT !.kept = y, !.at = "after"])
    BY <1>20 DEF Patch
  <2> HIDE DEF k
  <2> QED
    BY <1>2, <2>1, <2>2, EndsBounded, GoesOnBounded
<1>21. CASE ReadThread(c)
  <2>1. k \in Active /\ "post" \notin Early /\ "resolve" \notin Early
    BY <1>1, <1>21 DEF ReadThread, At, Writing, Early
  <2>2. \/ \E code, m : Ends(c, code, m)
        \/ \E g : GoesOn(c, [k EXCEPT !.good = g, !.at = "post"])
        \/ GoesOn(c, [k EXCEPT !.at = "resolve"])
    BY <1>21 DEF ReadThread
  <2> HIDE DEF k
  <2> QED
    BY <1>2, <2>1, <2>2, EndsBounded, GoesOnBounded
<1>22. CASE PostThreadReply(c)
  <2>1. k \in Active /\ "state" \notin Early
    BY <1>1, <1>22 DEF PostThreadReply, At, Writing, Early
  <2>2. \/ \E code, m : Ends(c, code, m)
        \/ GoesOn(c, [k EXCEPT !.at = "state"])
    BY <1>22 DEF PostThreadReply, AfterFailedReply
  <2> HIDE DEF k
  <2> QED
    BY <1>2, <2>1, <2>2, EndsBounded, GoesOnBounded
<1>23. CASE ReadHead(c)
  <2>1. k \in Active /\ "post" \notin Early
    BY <1>1, <1>23 DEF ReadHead, At, Writing, Early
  <2>2. \/ \E code, m : Ends(c, code, m)
        \/ GoesOn(c, [k EXCEPT !.at = "post"])
    BY <1>23 DEF ReadHead
  <2> HIDE DEF k
  <2> QED
    BY <1>2, <2>1, <2>2, EndsBounded, GoesOnBounded
<1>24. \/ LookForReply(c) \/ FindIssues(c) \/ ReadCandidateAgain(c)
       \/ ReadDiscussion(c) \/ ReadContext(c) \/ CheckRefs(c) \/ PostReply(c) \/ VerifyReply(c) \/ ReadBackReply(c)
       \/ ReadCandidate(c) \/ Candidates(c) \/ ReadAgain(c) \/ PostIssue(c) \/ ReadIssue(c) \/ ReadIssueAgain(c)
       \/ ReadBefore(c) \/ Patch(c) \/ ReadThread(c) \/ PostThreadReply(c) \/ ReadHead(c)
       \/ \E code, m : Ends(c, code, m)
       \/ \E op, at, input : Begin(c, op, at, input)
  BY DEF FollowUpStep, UpdateStep, ReadPrevious, GotIssue, Confirm, FollowUpFails, ReadAfter,
         Resolve, ResolveFailed, PostComment, UpdateFails, AfterFailedReply,
         BeginReply, BeginIssue, BeginGet, BeginUpdate, BeginThreadReply, BeginResolve,
         BeginComment, BeginReplyAndResolve
<1> QED
  BY <1>3, <1>4, <1>5, <1>6, <1>7, <1>8, <1>9, <1>10, <1>11, <1>12, <1>13, <1>14, <1>15, <1>16, <1>17, <1>18, <1>19, <1>20, <1>21, <1>22, <1>23, <1>24

LEMMA InitBounded == Init => CallsBounded
  BY DEF Init, CallsBounded, Unused, Place

LEMMA NextBounded == WriteInv /\ CallsBounded /\ [Next]_vars => CallsBounded'
<1> SUFFICES ASSUME WriteInv, CallsBounded, [Next]_vars PROVE CallsBounded'
  OBVIOUS
<1>1. ASSUME NEW c \in Caller, FollowUpStep(c) \/ UpdateStep(c)
      PROVE  CallsBounded'
  <2>1. PICK k2 : (k2.at \in Place => Bounded(k2)) /\ call' = [call EXCEPT ![c] = k2]
    BY <1>1, CallsStayBounded DEF StaysBounded
  <2>2. \A d \in Caller : call'[d] = IF d = c THEN k2 ELSE call[d]
    BY <2>1 DEF WriteInv, CallsTyped
  <2> QED
    BY <2>1, <2>2 DEF CallsBounded
<1>2. CASE Elsewhere \/ UNCHANGED vars
  <2>1. call' = call
    BY <1>2 DEF Elsewhere, Move, Discuss, ToggleThread, TouchIssue, Index, EditDescription,
           OthersChange, vars
  <2> QED
    BY <2>1 DEF CallsBounded
<1> QED
  BY <1>1, <1>2 DEF Next

LEMMA TypesAreRight == WriteInv /\ CallsBounded => TypeOK
<1> SUFFICES ASSUME WriteInv, CallsBounded PROVE TypeOK
  OBVIOUS
<1>1. WorldTyped /\ CallsTyped /\ RowsSound
  BY DEF WriteInv
<1>2. /\ DOMAIN replies \subseteq 1..Cardinality(Caller)
      /\ Len(replies) <= Cardinality(Caller)
      /\ DOMAIN replies \subseteq Numbers /\ DOMAIN issues \subseteq Numbers
  BY Counted
<1>3. ASSUME NEW i \in DOMAIN replies
      PROVE  replies[i] \in
               [source : Source, by : Caller, edited : BOOLEAN,
                checked : SUBSET (1..Cardinality(Caller))]
  <2>1. replies[i] \in Reply
    BY <1>1, ElementOfSeq, LenProperties DEF WorldTyped
  <2>2. replies[i].checked \subseteq 1..Cardinality(Caller)
    BY <1>1, <1>2 DEF RowsSound
  <2> QED
    BY <2>1, <2>2 DEF Reply
<1>4. ASSUME NEW n \in DOMAIN issues
      PROVE  issues[n] \in
               [source : Source, by : Caller \cup {Others}, touched : BOOLEAN,
                searched : SUBSET Numbers]
  <2>1. issues[n] \in Issue
    BY <1>1, ElementOfSeq, LenProperties DEF WorldTyped
  <2>2. issues[n].searched \subseteq Numbers
    BY <1>1, <1>2 DEF RowsSound
  <2> QED
    BY <2>1, <2>2 DEF Issue
<1>5. ASSUME NEW c \in Caller
      PROVE  \/ call[c] = Unused
             \/ call[c].op \in Op /\ call[c].at = "done" /\ call[c].mayHaveChanged \in BOOLEAN
             \/ /\ call[c].op \in Op /\ call[c].at \in Place
                /\ call[c].read \in Reading /\ call[c].context \in Context
                /\ call[c].found \subseteq Numbers /\ call[c].left \subseteq call[c].found
                /\ call[c].existing \subseteq call[c].found
  <2>1. CASE call[c] \in Active
    <3>1. /\ call[c].op \in Op /\ call[c].at \in Place
          /\ call[c].read \in Reading /\ call[c].context \in Context
      BY <2>1 DEF Active
    <3> QED
      BY <3>1 DEF CallsBounded, Bounded
  <2>2. CASE call[c] \in Ended
    BY <2>2 DEF Ended
  <2> QED
    BY <1>1, <2>1, <2>2 DEF CallsTyped
<1>6. /\ description.text \in Text /\ description.by \in Caller \cup {Others}
      /\ thread \in [resolved : BOOLEAN, replies : SUBSET Caller, resolvers : SUBSET Caller]
  BY <1>1 DEF WorldTyped, Description, Thread
<1> QED
  BY <1>1, <1>2, <1>3, <1>4, <1>5, <1>6 DEF TypeOK, WorldTyped

\* Every variable has its type, and there is at most one reply for every call.
THEOREM WritesTypeCorrect == Spec => []TypeOK
<1>1. WriteInv /\ CallsBounded /\ [Next]_vars => (WriteInv /\ CallsBounded)'
  BY NextSound, NextBounded
<1>2. Init => WriteInv /\ CallsBounded
  BY InitSound, InitBounded
<1> QED
  BY <1>1, <1>2, TypesAreRight, PTL DEF Spec
=============================================================================
