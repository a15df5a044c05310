---------------------------- MODULE WriteProperties ----------------------------
(***************************************************************************)
(* What is claimed of the writing tools.                                   *)
(***************************************************************************)
EXTENDS Writes

Context == [open : BOOLEAN, head : Tip \cup {Others}]
Reading == [head : Tip \cup {Others}, talk : Nat, sources : SUBSET Source, replies : Seq(BOOLEAN)]
Op == FollowUp \cup {"update", "thread reply", "resolve", "reply and resolve", "comment"}
Place == {"read", "context", "full", "previous", "refs", "post", "verify", "readback", "final",
          "find", "candidates", "candidate", "again", "issue", "issueAgain",
          "before", "patch", "after", "state", "resolve"}
Numbers == 1..(Number + Cardinality(Caller))

\* Every variable has its type.
TypeOK ==
  /\ pr \in [open : BOOLEAN, head : Tip] /\ talk \in Nat /\ sources \subseteq Source
  /\ Len(replies) <= Cardinality(Caller)
  /\ \A i \in DOMAIN replies : replies[i] \in
       [source : Source, by : Caller, edited : BOOLEAN, checked : SUBSET (1..Cardinality(Caller))]
  /\ \A n \in DOMAIN issues : issues[n] \in
       [source : Source, by : Caller \cup {Others}, touched : BOOLEAN, searched : SUBSET Numbers]
  /\ DOMAIN issues \subseteq Numbers /\ indexed \subseteq DOMAIN issues
  /\ description.text \in Text /\ description.by \in Caller \cup {Others}
  /\ thread \in [resolved : BOOLEAN, replies : SUBSET Caller, resolvers : SUBSET Caller]
  /\ \A c \in Caller :
       \/ call[c] = Unused
       \/ call[c].op \in Op /\ call[c].at = "done" /\ call[c].mayHaveChanged \in BOOLEAN
       \/ /\ call[c].op \in Op /\ call[c].at \in Place
          /\ call[c].read \in Reading /\ call[c].context \in Context
          /\ call[c].found \subseteq Numbers /\ call[c].left \subseteq call[c].found
          /\ call[c].existing \subseteq call[c].found
  /\ changes \in 0..MaxChanges /\ faults \in 0..MaxFaults

\* What a call has written.
RepliesBy(c) == {i \in DOMAIN replies : replies[i].by = c}
IssuesBy(c) == {n \in DOMAIN issues : issues[n].by = c}
Over(c) == call[c].at = "done"

\* reply_to_pr_comment stops if there is an App reply to the same comment,
\* and create_follow_up_issue if the search finds an issue of the App: two for
\* one source are only there if the later call had looked before the earlier
\* one was posted, or before the search knew of it.
NoDuplicateSeen ==
  /\ \A i, j \in DOMAIN replies :
       i < j /\ replies[i].source = replies[j].source => i \notin replies[j].checked
  /\ \A m, n \in DOMAIN issues :
       /\ m < n /\ issues[m].source = issues[n].source
       /\ issues[m].by \in Caller /\ issues[n].by \in Caller
       => m \notin issues[n].searched

\* mayHaveChanged: an error without it says that nothing was written, whatever
\* was lost or went wrong, at whatever point.
SilentErrorWroteNothing ==
  \A c \in Caller :
    Over(c) /\ call[c].op \in FollowUp \cup {"update"} /\ ~call[c].mayHaveChanged =>
      RepliesBy(c) = {} /\ IssuesBy(c) = {} /\ c \notin description.patched

\* A call that says it wrote did write, once, in answer to its source; a call
\* that does not know wrote once at most.
SuccessIsWritten ==
  \A c \in Caller :
    /\ Cardinality(RepliesBy(c)) + Cardinality(IssuesBy(c)) <= 1
    /\ Over(c) =>
         /\ call[c].code = "created" =>
              \/ \E i \in RepliesBy(c) : replies[i].source = call[c].input.source
              \/ \E n \in IssuesBy(c) : issues[n].source = call[c].input.source
         /\ call[c].code = "updated" => c \in description.patched
         /\ call[c].code \in {"replied", "replied, resolved", "replied, resolveError",
                              "replied, thread_already_resolved"} => c \in thread.replies

\* expectedBodySha256: a text that the caller of an update had not seen is
\* replaced only if it was written between the reading before and the PATCH.
OverwriteNeedsRace ==
  \A c \in Caller :
    At(c, {"update"}, "after") =>
      \/ call[c].kept[1].text = call[c].input.text
      \/ call[c].kept[1].edits > call[c].about

\* "replied == false -> skip Resolve": reply_and_resolve_review_thread resolves
\* no thread in which its reply is not, also when it only seems to have failed.
ResolvedWasAnswered ==
  \A c \in Caller :
    call[c].op = "reply and resolve" =>
      /\ c \in thread.resolvers => c \in thread.replies
      /\ Over(c) /\ call[c].code = "replyError" => c \notin thread.resolvers
=============================================================================
