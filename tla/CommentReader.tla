----------------------------- MODULE CommentReader -----------------------------
(***************************************************************************)
(* The reading of a pull request's discussion: Read and ReadMetadata of    *)
(* internal/reader/reader.go, CommentSnapshot of                           *)
(* internal/github/comments.go, which fetches the discussion page by page, *)
(* and the project allowlist.  The discussion goes on meanwhile.           *)
(*                                                                         *)
(* A step is one query.  Pages are numbered in the order they are fetched: *)
(* review threads, further comments of a thread, reviews, issue comments.  *)
(* Cursors keep a comment on its page; <<p, i>> is the i-th of page p.     *)
(* A text is the number of times it was edited.  The reader keeps nothing   *)
(* between reads, so one read is modelled, and what happens meanwhile.     *)
(***************************************************************************)
EXTENDS Naturals, FiniteSets

CONSTANTS
  Login,         \* authors of comments
  NoLogin,       \* GitHub reports no author: a deleted account
  ServerLogins,  \* TRUSTED_COMMENT_AUTHORS
  Commit,        \* commits a branch may point at
  First,         \* the one they point at in the beginning
  NoCommit,      \* the base branch cannot be resolved
  Invalid,       \* an allowlist file that cannot be read as one
  Pages,         \* pages of the discussion
  Continuation,  \* those of them that continue a thread, and show no refs
  PerPage,       \* bound: comments of a page
  MaxAttempts,   \* reader.MaxAttempts
  MaxChanges,    \* bound: changes to the pull request
  MaxTicks       \* bound: seconds that pass

\* An empty list of the server is refused before anything is read.
ASSUME AuthorsAssumption ==
  NoLogin \notin Login /\ ServerLogins \subseteq Login /\ ServerLogins # {}
ASSUME CommitsAssumption == First \in Commit /\ NoCommit \notin Commit
ASSUME PagesAssumption ==
  /\ Pages \in Nat \ {0}
  /\ Continuation \subseteq 1..Pages
  /\ 1 \notin Continuation
ASSUME AttemptsAssumption == MaxAttempts \in Nat \ {0}
ASSUME ReaderBoundsAssumption ==
  PerPage \in Nat /\ MaxChanges \in Nat /\ MaxTicks \in Nat

Comment == (1..Pages) \X (1..PerPage)

VARIABLES
  discussion, \* Comment -> what it says now, Unwritten or Deleted
  refs,       \* the head of the pull request, and of its base branch
  declared,   \* the allowlist file of a commit: logins, or Invalid
  now,        \* the time, in seconds
  changes,    \* changes so far
  pc,         \* where the reader is
  attempt,    \* which attempt this is
  bodies,     \* whether texts are wanted
  page,       \* the next page
  fetch,      \* the fetch under way: refs and comments
  meta,       \* the metadata fetched first
  answer,     \* what the read returned
  before,     \* the comments there were when this attempt began (ghost)
  check,      \* the discussion when its authors were checked (ghost)
  checkedAt   \* and when that was (ghost)

github == <<discussion, refs, declared>>
bounds == <<now, changes>>
attemptVars == <<attempt, bodies, page, fetch, meta>>
ghosts == <<before, check, checkedAt>>
vars == <<github, bounds, pc, attemptVars, answer, ghosts>>

Never == 0        \* of a comment that was not edited
NoText == 999999  \* the text was not asked for
Unwritten == [state |-> "unwritten"]
Deleted == [state |-> "deleted"]
Written(author, editedAt, text) ==
  [state |-> "written", author |-> author, editedAt |-> editedAt, text |-> text]

Present(d) == {c \in Comment : d[c].state = "written"}

NoRefs == [head |-> NoCommit, policy |-> NoCommit]
Fresh == [refs |-> NoRefs, comments |-> {}]
NoAnswer == [code |-> "NONE"]
NoCheck == [c \in Comment |-> Unwritten]

Init ==
  /\ discussion \in [Comment -> {Unwritten} \cup {Written(a, Never, 0) : a \in ServerLogins}]
  /\ refs = [head |-> First, policy |-> First]
  /\ declared \in [Commit -> (SUBSET (Login \ ServerLogins)) \cup {Invalid}]
  /\ now = 1 /\ changes = 0
  /\ pc = "idle"
  /\ attempt = 0 /\ bodies = FALSE /\ page = 1 /\ fetch = Fresh /\ meta = Fresh
  /\ answer = NoAnswer
  /\ before = {} /\ check = NoCheck /\ checkedAt = Never

-----------------------------------------------------------------------------
(* The pull request.                                                       *)

\* Changes before and after the read make another initial state, or none.
Meanwhile ==
  /\ pc # "idle"
  /\ UNCHANGED <<declared, pc, attemptVars, answer, ghosts>>

Changes == changes < MaxChanges /\ changes' = changes + 1 /\ UNCHANGED now /\ Meanwhile

Becomes(c, x) == discussion' = [discussion EXCEPT ![c] = x] /\ UNCHANGED refs

Write(c) ==
  /\ discussion[c] = Unwritten
  /\ \E a \in Login : Becomes(c, Written(a, Never, 0))
  /\ Changes

Edit(c) ==
  /\ c \in Present(discussion)
  /\ Becomes(c, Written(discussion[c].author, now, discussion[c].text + 1))
  /\ Changes

\* A comment is deleted; its id is not used again.
Remove(c) ==
  /\ c \in Present(discussion)
  /\ Becomes(c, Deleted)
  /\ Changes

\* The account of a comment's author is deleted.
Orphan(c) ==
  /\ c \in Present(discussion)
  /\ Becomes(c, Written(NoLogin, discussion[c].editedAt, discussion[c].text))
  /\ Changes

\* A push to either branch, which may go back; or the base branch is deleted.
Push ==
  /\ \/ \E h \in Commit \ {refs.head} : refs' = [head |-> h, policy |-> refs.policy]
     \/ \E p \in (Commit \cup {NoCommit}) \ {refs.policy} : refs' = [head |-> refs.head, policy |-> p]
  /\ UNCHANGED discussion
  /\ Changes

Tick ==
  /\ now <= MaxTicks
  /\ now' = now + 1
  /\ UNCHANGED <<discussion, refs, changes>>
  /\ Meanwhile

-----------------------------------------------------------------------------
(* One read.                                                               *)

Start(phase) == pc' = phase /\ page' = 1 /\ fetch' = Fresh

Begin ==
  /\ pc = "idle" /\ answer = NoAnswer
  /\ bodies' \in BOOLEAN
  /\ Start("meta")
  /\ attempt' = 1
  /\ before' = Present(discussion)
  /\ UNCHANGED <<github, bounds, meta, answer, check, checkedAt>>

Return(a) ==
  /\ Start("idle")
  /\ answer' = a
  /\ attempt' = 0 /\ bodies' = FALSE /\ meta' = Fresh

\* Nothing of the discussion is returned.
Refuse(code) ==
  /\ Return([code |-> code])
  /\ before' = {} /\ check' = NoCheck /\ checkedAt' = Never

\* A query fails: GitHub, the network, an answer that cannot be used.
Fails ==
  /\ pc \in {"meta", "check", "full"}
  /\ Refuse("READ_FAILED")
  /\ UNCHANGED <<github, bounds>>

LastAttempt == attempt >= MaxAttempts

\* The pass is repeated from the start, unless it was the last.
Stale ==
  IF LastAttempt
  THEN Refuse("SNAPSHOT_CHANGED")
  ELSE /\ Start("meta")
       /\ attempt' = attempt + 1
       /\ meta' = Fresh
       /\ before' = Present(discussion) /\ check' = NoCheck /\ checkedAt' = Never
       /\ UNCHANGED <<bodies, answer>>

\* What a page says of a comment: its text, if that is asked for.
Seen(c, text) == [id |-> c, author |-> discussion[c].author,
                  editedAt |-> discussion[c].editedAt,
                  text |-> IF text THEN discussion[c].text ELSE NoText]

\* The comments of a page.
Shown(p, text) == {Seen(c, text) : c \in {d \in Present(discussion) : d[1] = p}}

\* Variant: only the first page of a fetch decides which refs it is about.
Moved_VFirstOnly == FALSE

\* setRefs: this page belongs to other commits than the pages before.
Moved == page \notin Continuation /\ fetch.refs # NoRefs /\ fetch.refs # refs

\* Variant: the cursor of the page just read is used again.
NextPage_VSame == page

NextPage == page + 1

\* The texts are asked for in the second fetch only.
WantsText == bodies /\ pc = "full"

\* One query of CommentSnapshot.
ReadPage ==
  /\ pc \in {"meta", "full"}
  /\ IF page \notin Continuation /\ refs.policy = NoCommit
     THEN Refuse("POLICY_REF_UNAVAILABLE")
     ELSE IF Moved
     THEN Stale
     ELSE /\ fetch' = [refs |-> IF page \in Continuation THEN fetch.refs ELSE refs,
                       comments |-> fetch.comments \cup Shown(page, WantsText)]
          /\ IF page < Pages THEN page' = NextPage /\ UNCHANGED pc
             ELSE page' = 1 /\ pc' = IF pc = "meta" THEN "check" ELSE "compare"
          /\ UNCHANGED <<attempt, bodies, meta, answer, ghosts>>
  /\ UNCHANGED <<github, bounds>>

Authors(f) == {x.author : x \in f.comments}

\* Variant: an unknown author counts as allowed.
Untrusted_VKnownOnly(f, allowed) == Authors(f) \ (allowed \cup {NoLogin})

Untrusted(f, allowed) == Authors(f) \ allowed

Allowed(commit) == ServerLogins \cup declared[commit]

\* ProjectAllowlist and checkAuthors: no text has been asked for so far.
CheckAuthors ==
  /\ pc = "check"
  /\ \/ /\ declared[fetch.refs.policy] = Invalid
        /\ Refuse("PROJECT_ALLOWLIST_INVALID")
     \/ /\ declared[fetch.refs.policy] # Invalid
        /\ Untrusted(fetch, Allowed(fetch.refs.policy)) # {}
        /\ Refuse(IF NoLogin \in Authors(fetch) THEN "AUTHOR_CHECK_FAILED"
                  ELSE "UNTRUSTED_COMMENT")
     \/ /\ declared[fetch.refs.policy] # Invalid
        /\ Untrusted(fetch, Allowed(fetch.refs.policy)) = {}
        /\ meta' = fetch
        /\ Start("full")
        /\ check' = discussion
        /\ checkedAt' = now
        /\ UNCHANGED <<attempt, bodies, answer, before>>
  /\ UNCHANGED <<github, bounds>>

\* Variant: the fingerprint is that of the commits and the comments' ids.
Fingerprint_VIds(f) == [refs |-> f.refs, comments |-> {x.id : x \in f.comments}]

\* Variant: the fingerprint leaves the edits out.
Fingerprint_VNoEdits(f) ==
  [refs |-> f.refs, comments |-> {[id |-> x.id, author |-> x.author] : x \in f.comments}]

Fingerprint(f) ==
  [refs |-> f.refs,
   comments |-> {[id |-> x.id, author |-> x.author, editedAt |-> x.editedAt] : x \in f.comments}]

\* Variant: comments that are gone in the second fetch do not matter.
Same_VAdditionsOnly(f, g) ==
  Fingerprint(f).refs = Fingerprint(g).refs /\ Fingerprint(g).comments \subseteq Fingerprint(f).comments

Same(f, g) == Fingerprint(f) = Fingerprint(g)

\* The second fetch is complete.
Compare ==
  /\ pc = "compare"
  /\ IF Same(meta, fetch)
     THEN /\ Return([code |-> "OK", refs |-> fetch.refs, comments |-> fetch.comments])
          /\ UNCHANGED ghosts
     ELSE Stale
  /\ UNCHANGED <<github, bounds>>

ReaderStep == ReadPage \/ CheckAuthors \/ Compare

Next ==
  \/ \E c \in Comment : Write(c) \/ Edit(c) \/ Remove(c) \/ Orphan(c)
  \/ Push
  \/ Tick
  \/ Begin
  \/ Fails
  \/ ReaderStep

Spec == Init /\ [][Next]_vars

\* A read that has begun goes on: a query answers or fails.
FairSpec == Spec /\ WF_vars(ReaderStep)
=============================================================================
