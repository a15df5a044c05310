---------------------------- MODULE ReaderProperties ---------------------------
(***************************************************************************)
(* What is claimed of CommentReader.                                       *)
(***************************************************************************)
EXTENDS CommentReader

Author == Login \cup {NoLogin}
Content == {Unwritten, Deleted}
           \cup [state : {"written"}, author : Author, editedAt : Nat, text : Nat]
Refs == [head : Commit \cup {NoCommit}, policy : Commit \cup {NoCommit}]
Reading == [id : Comment, author : Author, editedAt : Nat, text : Nat]
Fetch == [refs : Refs, comments : SUBSET Reading]
Code == {"NONE", "READ_FAILED", "SNAPSHOT_CHANGED", "POLICY_REF_UNAVAILABLE",
         "PROJECT_ALLOWLIST_INVALID", "AUTHOR_CHECK_FAILED", "UNTRUSTED_COMMENT"}
Answer == [code : Code]
          \cup [code : {"OK"}, refs : Refs, comments : SUBSET Reading]

\* Every variable has its type, and a read makes MaxAttempts attempts at most.
TypeOK ==
  /\ discussion \in [Comment -> Content]
  /\ refs \in Refs
  /\ declared \in [Commit -> (SUBSET Login) \cup {Invalid}]
  /\ now \in Nat /\ changes \in Nat
  /\ pc \in {"idle", "meta", "check", "full", "compare"}
  /\ attempt \in 0..MaxAttempts /\ bodies \in BOOLEAN /\ page \in 1..Pages
  /\ fetch \in Fetch /\ meta \in Fetch
  /\ answer \in Answer
  /\ before \in SUBSET Comment /\ check \in [Comment -> Content] /\ checkedAt \in Nat

\* "it returns bodies only if the comments that carried them are exactly the
\* comments that were checked": everybody whose comment is returned is allowed
\* by the server, or by the base branch's commit that the answer names.
ReturnedIsTrusted ==
  answer.code = "OK" =>
    /\ declared[answer.refs.policy] # Invalid
    /\ \A x \in answer.comments : x.author \in Allowed(answer.refs.policy)

\* "The reader never asks the source for any body until every comment's author
\* has been checked": while texts are fetched, every author that the metadata
\* of the same attempt showed is allowed, by the commit it showed.
TextAfterCheck ==
  pc \in {"full", "compare"} =>
    /\ declared[meta.refs.policy] # Invalid
    /\ Authors(meta) \subseteq Allowed(meta.refs.policy)

\* "the same set, the same authors and the same edit timestamps": although the
\* pages are read one after the other, all comments of an answer existed
\* together, when the authors were checked, and said what is returned; only an
\* edit in the second of an earlier one may go unnoticed.
ReturnedTogether ==
  answer.code = "OK" =>
    \A x \in answer.comments :
      /\ x.id \in Present(check)
      /\ check[x.id].author = x.author
      /\ check[x.id].editedAt = x.editedAt
      /\ x.text \in {NoText, check[x.id].text} \/ x.editedAt >= checkedAt

\* "Fetch must return every page": a comment that was there from the start of
\* the attempt to the check is in the answer.
NothingIsMissing ==
  answer.code = "OK" =>
    before \cap Present(check) \subseteq {x.id : x \in answer.comments}

\* MaxAttempts "is how many times a stale snapshot is re-read before giving
\* up": every read returns, even of a discussion that never comes to rest.
ReadReturns == pc # "idle" ~> pc = "idle"
=============================================================================
