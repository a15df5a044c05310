------------------------------- MODULE FollowUps -------------------------------
(***************************************************************************)
(* reply_to_pr_comment, create_follow_up_issue and get_follow_up_issue:    *)
(* followUpService of internal/tools/follow_up.go over                     *)
(* internal/github/follow_up.go.  A step is one query, or one reading.     *)
(***************************************************************************)
EXTENDS PullRequest

\* The first arguments are what the caller saw when it decided to call.
BeginReply(c, s) ==
  Begin(c, "reply", "read", [source |-> s, head |-> pr.head, snapshot |-> Snapshot])

BeginIssue(c, s) ==
  Begin(c, "issue", "read", [source |-> s, head |-> pr.head, snapshot |-> Snapshot])

BeginGet(c, s, n) ==
  Begin(c, "get", "read", [source |-> s, head |-> pr.head, number |-> n])

Writing == {"reply", "issue"}
FollowUp == Writing \cup {"get"}

\* What a write requires of the readings: the arguments still hold.
Expected(now, context) ==
  now.read = now.input.snapshot /\ context.open /\ now.input.head = context.head

\* prepare: metadata of the discussion.
ReadDiscussion(c) ==
  /\ At(c, FollowUp, "read")
  /\ GoesOn(c, [call[c] EXCEPT !.read = Snapshot, !.at = "context"])
  /\ Reads

\* prepare: the pull request's state and refs, and the checks.
ReadContext(c) ==
  /\ At(c, FollowUp, "context")
  /\ IF /\ call[c].input.source \in call[c].read.sources
        /\ call[c].read.head = pr.head
        /\ call[c].op \in Writing => Expected(call[c], pr)
     THEN \/ /\ call[c].op = "reply"
             /\ GoesOn(c, [call[c] EXCEPT !.context = pr, !.at = "full"])
          \/ /\ call[c].op = "issue"
             /\ GoesOn(c, [call[c] EXCEPT !.context = pr, !.at = "find"])
          \/ /\ call[c].op = "get"
             /\ GoesOn(c, [call[c] EXCEPT !.context = pr, !.about = call[c].input.number,
                                          !.at = "issue"])
     ELSE Ends(c, "PRECONDITION_FAILED", FALSE)
  /\ Reads

\* checkRefs before a write.
CheckRefs(c) ==
  /\ At(c, Writing, "refs")
  /\ IF pr = call[c].context
     THEN GoesOn(c, [call[c] EXCEPT !.at = "post"])
     ELSE Ends(c, "PRECONDITION_FAILED", FALSE)
  /\ Reads

-----------------------------------------------------------------------------
(* reply                                                                   *)

\* Variant: a reply that was edited does not count.
Answering_VUnedited(s) ==
  {i \in DOMAIN replies : replies[i].source = s /\ ~replies[i].edited}

\* The App's replies to a source; an edit keeps the footer that says so.
Answering(s) == {i \in DOMAIN replies : replies[i].source = s}

\* The second reading, with texts: is there a reply already?
LookForReply(c) ==
  /\ At(c, {"reply"}, "full")
  /\ LET there == Answering(call[c].input.source)
     IN IF Snapshot # call[c].read
        THEN Ends(c, "PRECONDITION_FAILED", FALSE)
        ELSE IF there # {}
        THEN LET i == CHOOSE i \in there : \A j \in there : i <= j
             IN GoesOn(c, [call[c] EXCEPT !.about = i, !.good = replies[i].edited,
                                          !.at = "previous"])
        ELSE GoesOn(c, [call[c] EXCEPT !.found = DOMAIN replies, !.at = "refs"])
  /\ Reads

\* The reply found is read by itself.
ReadPrevious(c) ==
  /\ At(c, {"reply"}, "previous")
  /\ Ends(c, IF replies[call[c].about].edited = call[c].good
             THEN "ALREADY_REPLIED" ELSE "SNAPSHOT_CHANGED", FALSE)
  /\ Reads

NewReply(c) == [source |-> call[c].input.source, by |-> c, edited |-> FALSE,
                checked |-> call[c].found]

\* Variant: the POST is tried again without asking.
Posted_VRetried(c) == replies \o <<NewReply(c), NewReply(c)>>

Posted(c) == Append(replies, NewReply(c))

PostReply(c) ==
  /\ At(c, {"reply"}, "post")
  /\ replies' = Posted(c)
  /\ \/ /\ GoesOn(c, [call[c] EXCEPT !.about = Len(replies) + 1, !.at = "verify"])
        /\ UNCHANGED bounds
     \/ /\ Ends(c, "WRITE_OUTCOME_UNKNOWN", TRUE)
        /\ Fault
  /\ UNCHANGED <<pr, talk, sources, issueVars, description, thread>>

\* The reading after the write.
VerifyReply(c) ==
  /\ At(c, {"reply"}, "verify")
  /\ GoesOn(c, [call[c] EXCEPT !.good = /\ ~replies[call[c].about].edited
                                        /\ pr.head = call[c].context.head,
                               !.at = "readback"])
  /\ Reads

\* The reply by itself, and checkRefs.
ReadBackReply(c) ==
  /\ At(c, {"reply"}, "readback")
  /\ IF call[c].good /\ ~replies[call[c].about].edited
     THEN GoesOn(c, [call[c] EXCEPT !.at = "final"])
     ELSE Ends(c, "POST_WRITE_MISMATCH", TRUE)
  /\ Reads

\* The last checkRefs of a write.
Confirm(c) ==
  /\ At(c, Writing, "final")
  /\ IF pr = call[c].context
     THEN Ends(c, "created", TRUE)
     ELSE Ends(c, "POST_WRITE_MISMATCH", TRUE)
  /\ Reads

-----------------------------------------------------------------------------
(* createIssue and getIssue                                                *)

\* Variant: the issues listed are not compared with the count the search gives.
IsComplete_VUnchecked(listed, hits) == TRUE

\* FindFollowUpIssues: a search that does not list all that it counts is no answer.
IsComplete(listed, hits) == listed = hits

\* FindIssues: the search sees what is indexed.
FindIssues(c) ==
  /\ At(c, {"issue"}, "find")
  /\ LET hits == {n \in indexed : issues[n].source = call[c].input.source}
     IN \E listed \in SUBSET hits :
          IF IsComplete(listed, hits)
          THEN GoesOn(c, [call[c] EXCEPT !.found = hits, !.left = listed, !.at = "candidates"])
          ELSE Ends(c, "READ_FAILED", FALSE)
  /\ Reads

\* readIssue of the next candidate: metadata, and whose it is.
ReadCandidate(c) ==
  /\ At(c, {"issue"}, "candidates")
  /\ \E n \in call[c].left :
       GoesOn(c, [call[c] EXCEPT !.about = n, !.kept = <<issues[n].touched>>, !.at = "candidate"])
  /\ Reads

\* readIssue: the metadata once more.
ReadCandidateAgain(c) ==
  /\ At(c, {"issue"}, "candidate")
  /\ LET n == call[c].about
     IN IF <<issues[n].touched>> # call[c].kept
        THEN Ends(c, "SNAPSHOT_CHANGED", FALSE)
        ELSE GoesOn(c, [call[c] EXCEPT
               !.left = @ \ {n}, !.at = "candidates", !.about = 0, !.kept = << >>,
               !.existing = IF issues[n].by \in Caller THEN @ \cup {n} ELSE @])
  /\ Reads

\* Variant: what the search found does not matter.
MayCreate_VAlways(now) == TRUE

\* No issue of the App, and one candidate of others at most.
MayCreate(now) == now.existing = {} /\ Cardinality(now.found) <= 1

\* All candidates are read.
Candidates(c) ==
  /\ At(c, {"issue"}, "candidates") /\ call[c].left = {}
  /\ IF MayCreate(call[c])
     THEN GoesOn(c, [call[c] EXCEPT !.at = "again"])
     ELSE Ends(c, "FOLLOW_UP_EXISTS", FALSE)
  /\ Reads

\* The labels, and the metadata of the discussion once more.
ReadAgain(c) ==
  /\ At(c, {"issue"}, "again")
  /\ IF Snapshot = call[c].read
     THEN GoesOn(c, [call[c] EXCEPT !.at = "refs"])
     ELSE Ends(c, "PRECONDITION_FAILED", FALSE)
  /\ Reads

PostIssue(c) ==
  /\ At(c, {"issue"}, "post")
  /\ issues' = Append(issues, [source |-> call[c].input.source, by |-> c, touched |-> FALSE,
                               searched |-> call[c].found])
  /\ \/ /\ GoesOn(c, [call[c] EXCEPT !.about = Len(issues) + 1, !.at = "issue"])
        /\ UNCHANGED bounds
     \/ /\ Ends(c, "WRITE_OUTCOME_UNKNOWN", TRUE)
        /\ Fault
  /\ UNCHANGED <<pr, discussion, indexed, description, thread>>

\* readIssue of the issue just created, or of the one asked for.
ReadIssue(c) ==
  /\ At(c, {"issue", "get"}, "issue")
  /\ IF call[c].about \in DOMAIN issues
     THEN GoesOn(c, [call[c] EXCEPT !.kept = <<issues[call[c].about].touched>>, !.at = "issueAgain"])
     ELSE Ends(c, "READ_FAILED", FALSE)
  /\ Reads

ReadIssueAgain(c) ==
  /\ At(c, {"issue", "get"}, "issueAgain")
  /\ LET changed == <<issues[call[c].about].touched>> # call[c].kept
     IN \/ /\ call[c].op = "get" /\ changed
           /\ Ends(c, "SNAPSHOT_CHANGED", FALSE)
        \/ /\ call[c].op = "issue" /\ changed
           /\ Ends(c, "WRITE_OUTCOME_UNKNOWN", TRUE)
        \/ /\ call[c].op = "issue" /\ ~changed /\ call[c].kept = <<TRUE>>
           /\ Ends(c, "POST_WRITE_MISMATCH", TRUE)
        \/ /\ ~changed /\ (call[c].op = "get" \/ call[c].kept = <<FALSE>>)
           /\ GoesOn(c, [call[c] EXCEPT !.at = "final"])
  /\ Reads

\* getIssue: checkRefs and the answer, which says whether the head is the expected one.
GotIssue(c) ==
  /\ At(c, {"get"}, "final")
  /\ IF pr # call[c].context
     THEN Ends(c, "SNAPSHOT_CHANGED", FALSE)
     ELSE Ends(c, IF pr.head = call[c].input.head THEN "read" ELSE "read, other head", FALSE)
  /\ Reads

-----------------------------------------------------------------------------

\* Variant: a reading that fails after the write is an error like any other.
Written_VNever(now) == FALSE

\* The call has written.
Written(now) == now.op \in Writing /\ now.at \in {"verify", "readback", "issue", "issueAgain", "final"}

\* Another query fails, or the write does not arrive.
FollowUpFails(c) ==
  /\ call[c].op \in FollowUp /\ call[c].at # "done"
  /\ \/ call[c].at = "post" /\ Ends(c, "WRITE_OUTCOME_UNKNOWN", TRUE)
     \/ Written(call[c]) /\ call[c].at # "final" /\ Ends(c, "WRITE_OUTCOME_UNKNOWN", TRUE)
     \/ Written(call[c]) /\ call[c].at = "final" /\ Ends(c, "POST_WRITE_MISMATCH", TRUE)
     \/ /\ ~Written(call[c]) /\ call[c].at # "post"
        /\ Ends(c, IF call[c].at = "final" THEN "SNAPSHOT_CHANGED" ELSE "READ_FAILED", FALSE)
  /\ Fault
  /\ UNCHANGED <<pr, discussion, issueVars, description, thread>>

FollowUpStep(c) ==
  \/ \E s \in Source : BeginReply(c, s) \/ BeginIssue(c, s)
  \/ \E s \in Source, n \in 1..Number : BeginGet(c, s, n)
  \/ ReadDiscussion(c) \/ ReadContext(c) \/ CheckRefs(c)
  \/ LookForReply(c) \/ ReadPrevious(c) \/ PostReply(c) \/ VerifyReply(c) \/ ReadBackReply(c)
  \/ FindIssues(c) \/ ReadCandidate(c) \/ ReadCandidateAgain(c) \/ Candidates(c)
  \/ ReadAgain(c) \/ PostIssue(c) \/ ReadIssue(c) \/ ReadIssueAgain(c) \/ GotIssue(c)
  \/ Confirm(c) \/ FollowUpFails(c)
=============================================================================
