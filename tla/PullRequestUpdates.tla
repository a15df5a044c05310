-------------------------- MODULE PullRequestUpdates ---------------------------
(***************************************************************************)
(* The other writes to a pull request: its description                     *)
(* (internal/github/description.go), replies to a review thread and its    *)
(* resolution (internal/tools/threads.go), and the cycle and escalation    *)
(* comments (internal/github/cycle_comment.go).                            *)
(***************************************************************************)
EXTENDS PullRequest

\* The caller replaces the text it last saw.
BeginUpdate(c, x) ==
  Begin(c, "update", "before", [head |-> pr.head, text |-> description.text, new |-> x])

BeginThreadReply(c) == Begin(c, "thread reply", "state", [resolve |-> FALSE])
BeginResolve(c) == Begin(c, "resolve", "state", [resolve |-> TRUE])
BeginReplyAndResolve(c, resolve) == Begin(c, "reply and resolve", "post", [resolve |-> resolve])
BeginComment(c) == Begin(c, "comment", "state", [head |-> pr.head])

-----------------------------------------------------------------------------
(* UpdatePRDescription                                                     *)

\* Variant: the text expected by the caller is not compared.
UpdateExpected_VHeadOnly(input) == pr.open /\ pr.head = input.head

\* The pull request is open and as the caller saw it.
UpdateExpected(input) == pr.open /\ pr.head = input.head /\ description.text = input.text

ReadBefore(c) ==
  /\ At(c, {"update"}, "before")
  /\ LET input == call[c].input
     IN \/ ~UpdateExpected(input) /\ Ends(c, "PRECONDITION_FAILED", FALSE)
        \/ /\ UpdateExpected(input) /\ description.text = input.new
           /\ Ends(c, "unchanged", FALSE)
        \/ /\ UpdateExpected(input) /\ description.text # input.new
           /\ GoesOn(c, [call[c] EXCEPT !.about = description.edits, !.at = "patch"])
  /\ Reads

\* The PATCH, which nothing ties to the reading before; what it replaces is kept (ghost).
Patch(c) ==
  /\ At(c, {"update"}, "patch")
  /\ description' = [text |-> call[c].input.new, by |-> c, edits |-> description.edits + 1,
                     patched |-> description.patched \cup {c}]
  /\ \/ /\ GoesOn(c, [call[c] EXCEPT !.kept = <<description>>, !.at = "after"])
        /\ UNCHANGED bounds
     \/ /\ Ends(c, "UPDATE_OUTCOME_UNKNOWN", TRUE)
        /\ Fault
  /\ UNCHANGED <<pr, discussion, issueVars, thread>>

\* The text is the new one, and the App's.
ReadBackFits(input) ==
  /\ pr.open /\ pr.head = input.head
  /\ description.text = input.new /\ description.by \in Caller

ReadAfter(c) ==
  /\ At(c, {"update"}, "after")
  /\ IF ReadBackFits(call[c].input)
     THEN Ends(c, "updated", TRUE)
     ELSE Ends(c, "POST_UPDATE_MISMATCH", TRUE)
  /\ Reads

-----------------------------------------------------------------------------
(* Review threads                                                          *)

\* IsThreadResolved, before a reply or a resolution.
ReadThread(c) ==
  /\ At(c, {"thread reply", "resolve", "reply and resolve"}, "state")
  /\ \/ /\ call[c].op = "thread reply"
        /\ GoesOn(c, [call[c] EXCEPT !.good = ~thread.resolved, !.at = "post"])
     \/ /\ call[c].op # "thread reply" /\ thread.resolved
        /\ Ends(c, IF call[c].op = "resolve" THEN "already resolved" ELSE "replied, resolved", TRUE)
     \/ /\ call[c].op # "thread reply" /\ ~thread.resolved
        /\ GoesOn(c, [call[c] EXCEPT !.at = "resolve"])
  /\ Reads

\* Variant: a reply that fails does not keep the thread from being resolved.
AfterFailedReply_VGoesOn(c) ==
  IF call[c].input.resolve
  THEN GoesOn(c, [call[c] EXCEPT !.at = "state"])
  ELSE Ends(c, "replyError", TRUE)

\* reply_and_resolve_review_thread ends there.
AfterFailedReply(c) == Ends(c, "replyError", TRUE)

\* ReplyToThread; what it answers if the response is lost, too.
PostThreadReply(c) ==
  /\ At(c, {"thread reply", "reply and resolve"}, "post")
  /\ thread' = [thread EXCEPT !.replies = @ \cup {c}]
  /\ talk' = talk + 1
  /\ \/ /\ call[c].op = "thread reply"
        /\ Ends(c, IF call[c].good THEN "replied" ELSE "replied, thread_already_resolved", TRUE)
        /\ UNCHANGED bounds
     \/ /\ call[c].op = "reply and resolve" /\ ~call[c].input.resolve
        /\ Ends(c, "replied", TRUE)
        /\ UNCHANGED bounds
     \/ /\ call[c].op = "reply and resolve" /\ call[c].input.resolve
        /\ GoesOn(c, [call[c] EXCEPT !.at = "state"])
        /\ UNCHANGED bounds
     \/ AfterFailedReply(c) /\ Fault
  /\ UNCHANGED <<pr, sources, replies, issueVars, description>>

\* A resolution of reply_and_resolve_review_thread fails next to its reply.
ResolveFailed(c) ==
  Ends(c, IF call[c].op = "resolve" THEN "error" ELSE "replied, resolveError", TRUE)

\* ResolveThread.
Resolve(c) ==
  /\ At(c, {"resolve", "reply and resolve"}, "resolve")
  /\ thread' = [thread EXCEPT !.resolved = TRUE, !.resolvers = @ \cup {c}]
  /\ \/ /\ Ends(c, IF call[c].op = "resolve" THEN "resolved" ELSE "replied, resolved", TRUE)
        /\ UNCHANGED bounds
     \/ ResolveFailed(c) /\ Fault
  /\ UNCHANGED <<pr, discussion, issueVars, description>>

-----------------------------------------------------------------------------
(* PostReviewCycleComment and PostEscalationComment                        *)

ReadHead(c) ==
  /\ At(c, {"comment"}, "state")
  /\ IF pr.open /\ pr.head = call[c].input.head
     THEN GoesOn(c, [call[c] EXCEPT !.at = "post"])
     ELSE Ends(c, "refused", FALSE)
  /\ Reads

PostComment(c) ==
  /\ At(c, {"comment"}, "post")
  /\ talk' = talk + 1
  /\ \/ Ends(c, "posted", TRUE) /\ UNCHANGED bounds
     \/ Ends(c, "outcome may be unknown", TRUE) /\ Fault
  /\ UNCHANGED <<pr, sources, replies, issueVars, description, thread>>

-----------------------------------------------------------------------------

\* A query fails, or a write does not arrive.
UpdateFails(c) ==
  /\ \/ At(c, {"update"}, "before") /\ Ends(c, "READ_FAILED", FALSE)
     \/ At(c, {"update"}, "patch")
        /\ \E unknown \in BOOLEAN :  \* the Bot is looked up before
             Ends(c, IF unknown THEN "UPDATE_OUTCOME_UNKNOWN" ELSE "APP_IDENTITY_FAILED", unknown)
     \/ At(c, {"update"}, "after") /\ Ends(c, "UPDATE_OUTCOME_UNKNOWN", TRUE)
     \/ At(c, {"thread reply", "resolve", "comment"}, "state") /\ Ends(c, "error", FALSE)
     \/ At(c, {"thread reply", "reply and resolve"}, "post") /\ AfterFailedReply(c)
     \/ At(c, {"reply and resolve"}, "state") /\ ResolveFailed(c)
     \/ At(c, {"resolve", "reply and resolve"}, "resolve") /\ ResolveFailed(c)
     \/ At(c, {"comment"}, "post") /\ Ends(c, "outcome may be unknown", TRUE)
  /\ Fault
  /\ UNCHANGED <<pr, discussion, issueVars, description, thread>>

UpdateStep(c) ==
  \/ \E x \in Text : BeginUpdate(c, x)
  \/ BeginThreadReply(c) \/ BeginResolve(c) \/ BeginComment(c)
  \/ \E resolve \in BOOLEAN : BeginReplyAndResolve(c, resolve)
  \/ ReadBefore(c) \/ Patch(c) \/ ReadAfter(c)
  \/ ReadThread(c) \/ PostThreadReply(c) \/ Resolve(c)
  \/ ReadHead(c) \/ PostComment(c) \/ UpdateFails(c)
=============================================================================
