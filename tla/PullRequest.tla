------------------------------ MODULE PullRequest ------------------------------
(***************************************************************************)
(* What the writing tools share: the pull request on GitHub that they and  *)
(* other people change, and their calls.  The tools keep no state of their *)
(* own between calls; nothing but the checks of a call protects one from   *)
(* another.                                                                *)
(*                                                                         *)
(* A reading of the whole discussion is one step here; module              *)
(* CommentReader shows what the reader does to make it look like one.      *)
(***************************************************************************)
EXTENDS Naturals, Sequences, FiniteSets

CONSTANTS
  Caller,      \* calls; a call tried again is another one
  Others,      \* everybody but the App
  Tip,         \* heads of the pull request, with the base they belong to
  Source,      \* comments that follow-ups answer
  Text,        \* texts of the description
  Number,      \* bound: issues, which are numbered
  MaxChanges,  \* bound: changes by others
  MaxFaults    \* bound: queries that fail

ASSUME CallersAssumption == IsFiniteSet(Caller)
ASSUME OthersAssumption == Others \notin Caller
ASSUME WriteBoundsAssumption == MaxChanges \in Nat /\ MaxFaults \in Nat /\ Number \in Nat

VARIABLES
  pr,          \* its state and refs
  talk,        \* how often the rest of the discussion changed
  sources,     \* those of Source that are there
  replies,     \* the App's follow-up replies
  issues,      \* the issues that name a source
  indexed,     \* those that the search finds
  description, \* the pull request's text and who wrote it
  thread,      \* a review thread: resolved or not, and who replied
  call,        \* the calls
  changes,     \* changes by others so far
  faults       \* failures so far

discussion == <<talk, sources, replies>>
issueVars == <<issues, indexed>>
bounds == <<changes, faults>>
vars == <<pr, discussion, issueVars, description, thread, call, bounds>>

\* What the reader names by its snapshotId.
Snapshot ==
  [head |-> pr.head, talk |-> talk, sources |-> sources,
   replies |-> [i \in DOMAIN replies |-> replies[i].edited]]
NoSnapshot == [head |-> Others, talk |-> 0, sources |-> {}, replies |-> << >>]
NoContext == [open |-> FALSE, head |-> Others]

\* A call: what it was asked, and what it has read.
Call(op, at, input) ==
  [op |-> op, at |-> at, input |-> input,
   read |-> NoSnapshot, context |-> NoContext,
   found |-> {}, left |-> {}, existing |-> {}, about |-> 0, kept |-> << >>, good |-> TRUE]

\* A call that has ended: its answer, and whether it may have changed anything.
Answer(op, input, code, mayHaveChanged) ==
  [op |-> op, at |-> "done", input |-> input, code |-> code, mayHaveChanged |-> mayHaveChanged]

Unused == [op |-> "none", at |-> "unused"]

Init ==
  /\ \E h \in Tip : pr = [open |-> TRUE, head |-> h]
  /\ talk = 0 /\ sources = Source /\ replies = << >>
  /\ \E k \in 0..Number, s \in Source :
       issues = [n \in 1..k |-> [source |-> s, by |-> Others, touched |-> FALSE, searched |-> {}]]
  /\ indexed = DOMAIN issues
  /\ \E x \in Text : description = [text |-> x, by |-> Others, edits |-> 0, patched |-> {}]
  /\ thread = [resolved |-> FALSE, replies |-> {}, resolvers |-> {}]
  /\ call = [c \in Caller |-> Unused]
  /\ changes = 0 /\ faults = 0

-----------------------------------------------------------------------------
(* Other people, and GitHub's search index.                                *)

OthersChange ==
  /\ changes < MaxChanges
  /\ changes' = changes + 1
  /\ UNCHANGED <<call, faults>>

\* A push, a change of the base branch, the pull request closed or reopened.
Move ==
  /\ \/ \E h \in Tip \ {pr.head} : pr' = [pr EXCEPT !.head = h]
     \/ pr' = [pr EXCEPT !.open = ~@]
  /\ UNCHANGED <<discussion, issueVars, description, thread>>
  /\ OthersChange

\* A comment written, edited or deleted; the deleted one may be a source.
Discuss ==
  /\ \/ talk' = talk + 1 /\ UNCHANGED <<sources, replies>>
     \/ \E s \in sources : sources' = sources \ {s} /\ UNCHANGED <<talk, replies>>
     \/ /\ \E i \in DOMAIN replies : replies' = [replies EXCEPT ![i].edited = TRUE]
        /\ UNCHANGED <<talk, sources>>
  /\ UNCHANGED <<pr, issueVars, description, thread>>
  /\ OthersChange

\* An issue is closed, edited or relabelled.
TouchIssue(n) ==
  /\ issues' = [issues EXCEPT ![n].touched = TRUE]
  /\ UNCHANGED <<pr, discussion, indexed, description, thread>>
  /\ OthersChange

EditDescription(x) ==
  /\ description' = [description EXCEPT !.text = x, !.by = Others, !.edits = @ + 1]
  /\ UNCHANGED <<pr, discussion, issueVars, thread>>
  /\ OthersChange

ToggleThread ==
  /\ thread' = [thread EXCEPT !.resolved = ~@]
  /\ UNCHANGED <<pr, discussion, issueVars, description>>
  /\ OthersChange

\* The search index catches up with one issue.
Index(n) ==
  /\ n \in DOMAIN issues \ indexed
  /\ indexed' = indexed \cup {n}
  /\ UNCHANGED <<pr, discussion, issues, description, thread, call, bounds>>

Elsewhere ==
  \/ Move \/ Discuss \/ ToggleThread
  \/ \E n \in DOMAIN issues : TouchIssue(n) \/ Index(n)
  \/ \E x \in Text : EditDescription(x)

-----------------------------------------------------------------------------
(* Calls.                                                                  *)

Begin(c, op, at, input) ==
  /\ call[c] = Unused
  /\ call' = [call EXCEPT ![c] = Call(op, at, input)]
  /\ UNCHANGED <<pr, discussion, issueVars, description, thread, bounds>>

At(c, op, at) == call[c].op \in op /\ call[c].at = at

\* The call goes on, having read or found out something.
GoesOn(c, now) == call' = [call EXCEPT ![c] = now]

Ends(c, code, mayHaveChanged) ==
  call' = [call EXCEPT ![c] = Answer(@.op, @.input, code, mayHaveChanged)]

\* A step that reads.
Reads == UNCHANGED <<pr, discussion, issueVars, description, thread, bounds>>

\* A query fails, or its response is lost.
Fault == faults < MaxFaults /\ faults' = faults + 1 /\ UNCHANGED changes
=============================================================================
