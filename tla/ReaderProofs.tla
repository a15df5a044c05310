------------------------------ MODULE ReaderProofs -----------------------------
(***************************************************************************)
(* Theorems about CommentReader, for any authors, commits and pages, any   *)
(* number of attempts and any number of changes while a read goes on.      *)
(***************************************************************************)
EXTENDS ReaderProperties, TLAPS

-----------------------------------------------------------------------------
(* Types.                                                                  *)

Change == Push \/ Tick \/ \E c \in Comment : Write(c) \/ Edit(c) \/ Remove(c) \/ Orphan(c)

LEMMA WrittenType ==
  ASSUME NEW a \in Author, NEW e \in Nat, NEW t \in Nat
  PROVE  Written(a, e, t) \in Content
  BY DEF Written, Content

LEMMA PresentType ==
  ASSUME NEW d \in [Comment -> Content], NEW c \in Present(d)
  PROVE  /\ c \in Comment
         /\ d[c] = Written(d[c].author, d[c].editedAt, d[c].text)
         /\ d[c].author \in Author /\ d[c].editedAt \in Nat /\ d[c].text \in Nat
<1>1. c \in Comment /\ d[c] \in Content /\ d[c].state = "written"
  BY DEF Present
<1>2. d[c] \in [state : {"written"}, author : Author, editedAt : Nat, text : Nat]
  BY <1>1 DEF Content, Unwritten, Deleted
<1> QED BY <1>1, <1>2 DEF Written

LEMMA FreshType ==
  /\ Fresh \in Fetch /\ Fresh.refs \in Refs /\ Fresh.comments = {}
  /\ NoCheck \in [Comment -> Content]
  /\ NoAnswer \in Answer
<1>1. NoRefs \in Refs
  BY DEF NoRefs, Refs
<1>2. Fresh \in Fetch /\ Fresh.refs \in Refs /\ Fresh.comments = {}
  BY <1>1 DEF Fresh, Fetch
<1>3. NoCheck \in [Comment -> Content]
  BY DEF NoCheck, Content
<1>4. NoAnswer \in Answer
  BY DEF NoAnswer, Answer, Code
<1> QED BY <1>2, <1>3, <1>4

LEMMA InitType == Init => TypeOK
<1> SUFFICES ASSUME Init PROVE TypeOK
  OBVIOUS
<1>1. discussion \in [Comment -> Content]
  <2>1. \A a \in ServerLogins : Written(a, Never, 0) \in Content
    BY WrittenType, AuthorsAssumption DEF Author, Never
  <2>2. Unwritten \in Content
    BY DEF Content
  <2> QED BY <2>1, <2>2 DEF Init
<1>2. refs \in Refs
  BY CommitsAssumption DEF Init, Refs
<1>3. declared \in [Commit -> (SUBSET Login) \cup {Invalid}]
  BY DEF Init
<1>4. fetch \in Fetch /\ meta \in Fetch /\ answer \in Answer
      /\ check \in [Comment -> Content]
  BY FreshType DEF Init
<1>5. /\ now \in Nat /\ changes \in Nat /\ pc = "idle" /\ attempt \in 0..MaxAttempts
      /\ page \in 1..Pages /\ before = {} /\ checkedAt \in Nat
  BY PagesAssumption, AttemptsAssumption DEF Init, Never
<1>6. bodies \in BOOLEAN
  BY DEF Init
<1> QED BY <1>1, <1>2, <1>3, <1>4, <1>5, <1>6 DEF TypeOK

LEMMA ChangeType ==
  ASSUME TypeOK, Change
  PROVE  TypeOK'
<1>1. CASE Push
  BY <1>1 DEF Push, Changes, Meanwhile, attemptVars, ghosts, TypeOK, Refs
<1>2. CASE Tick
  BY <1>2 DEF Tick, Meanwhile, attemptVars, ghosts, TypeOK
<1>3. ASSUME NEW c \in Comment, Write(c) \/ Edit(c) \/ Remove(c) \/ Orphan(c)
      PROVE  discussion' \in [Comment -> Content] /\ UNCHANGED refs
  <2>1. CASE Write(c)
    BY <2>1 DEF Write, Becomes, TypeOK, Content, Written, Author, Never
  <2>2. CASE Edit(c)
    <3>1. Written(discussion[c].author, now, discussion[c].text + 1) \in Content
      BY <2>2, PresentType, WrittenType DEF Edit, TypeOK
    <3> QED BY <2>2, <3>1 DEF Edit, Becomes, TypeOK
  <2>3. CASE Remove(c)
    BY <2>3 DEF Remove, Becomes, TypeOK, Content
  <2>4. CASE Orphan(c)
    <3>1. Written(NoLogin, discussion[c].editedAt, discussion[c].text) \in Content
      BY <2>4, PresentType, WrittenType DEF Orphan, TypeOK, Author
    <3> QED BY <2>4, <3>1 DEF Orphan, Becomes, TypeOK
  <2> QED BY <1>3, <2>1, <2>2, <2>3, <2>4
<1>4. ASSUME NEW c \in Comment, Write(c) \/ Edit(c) \/ Remove(c) \/ Orphan(c)
      PROVE  TypeOK'
  BY <1>3, <1>4
     DEF Write, Edit, Remove, Orphan, Changes, Meanwhile, attemptVars, ghosts, TypeOK
<1> QED BY <1>1, <1>2, <1>4 DEF Change

\* The read is over.
LEMMA ReturnType ==
  ASSUME TypeOK, NEW a \in Answer, Return(a), UNCHANGED <<github, bounds>>,
         before' \in SUBSET Comment, check' \in [Comment -> Content], checkedAt' \in Nat
  PROVE  TypeOK'
<1>1. fetch' \in Fetch /\ meta' \in Fetch /\ answer' \in Answer
  BY FreshType DEF Return, Start
<1>2. pc' = "idle" /\ attempt' \in 0..MaxAttempts /\ page' \in 1..Pages
  BY PagesAssumption, AttemptsAssumption DEF Return, Start
<1>3. bodies' \in BOOLEAN
  BY DEF Return
<1> QED BY <1>1, <1>2, <1>3 DEF TypeOK, github, bounds

LEMMA RefuseType ==
  ASSUME TypeOK, NEW code \in Code, Refuse(code), UNCHANGED <<github, bounds>>
  PROVE  TypeOK'
<1>1. [code |-> code] \in Answer
  BY DEF Answer
<1> QED BY <1>1, ReturnType, FreshType DEF Refuse, Never

LEMMA StaleType ==
  ASSUME TypeOK, Stale, UNCHANGED <<github, bounds>>
  PROVE  TypeOK'
<1>1. CASE LastAttempt
  BY <1>1, RefuseType DEF Stale, Code
<1>2. CASE ~LastAttempt
  BY <1>2, FreshType, PagesAssumption, AttemptsAssumption
     DEF Stale, Start, LastAttempt, TypeOK, github, bounds, Never, Present
<1> QED BY <1>1, <1>2

\* A page that is read becomes part of the fetch.
PageIsRead ==
  /\ pc \in {"meta", "full"}
  /\ fetch' = [refs |-> IF page \in Continuation THEN fetch.refs ELSE refs,
               comments |-> fetch.comments \cup Shown(page, WantsText)]
  /\ \/ page < Pages /\ page' = page + 1 /\ UNCHANGED pc
     \/ page = Pages /\ page' = 1 /\ pc' = IF pc = "meta" THEN "check" ELSE "compare"
  /\ UNCHANGED <<attempt, bodies, meta, answer, ghosts, github, bounds>>

LEMMA PageCases ==
  ASSUME TypeOK, ReadPage
  PROVE  /\ UNCHANGED <<github, bounds>>
         /\ \/ Refuse("POLICY_REF_UNAVAILABLE")
            \/ Stale
            \/ PageIsRead
  BY PagesAssumption DEF ReadPage, PageIsRead, NextPage, TypeOK

LEMMA ShownType ==
  ASSUME TypeOK, NEW text \in BOOLEAN, NEW p
  PROVE  /\ Shown(p, text) \subseteq Reading
         /\ \A x \in Shown(p, text) :
              /\ x.id \in Present(discussion) /\ x.id[1] = p
              /\ x.author = discussion[x.id].author
              /\ x.editedAt = discussion[x.id].editedAt
              /\ x.text \in {NoText, discussion[x.id].text}
  BY DEF Shown, Seen, Reading, Present, TypeOK, Content, NoText, Unwritten, Deleted

LEMMA PageType ==
  ASSUME TypeOK, PageIsRead
  PROVE  TypeOK'
<1>1. WantsText \in BOOLEAN
  BY DEF WantsText, TypeOK
<1>2. fetch' \in Fetch
  BY <1>1, ShownType DEF PageIsRead, TypeOK, Fetch
<1> QED BY <1>2, PagesAssumption DEF PageIsRead, TypeOK, ghosts, github, bounds

LEMMA CheckType ==
  ASSUME TypeOK, CheckAuthors
  PROVE  TypeOK'
<1>1. CASE \E code \in Code : Refuse(code)
  BY <1>1, RefuseType DEF CheckAuthors
<1>2. CASE /\ meta' = fetch /\ Start("full") /\ check' = discussion /\ checkedAt' = now
           /\ UNCHANGED <<attempt, bodies, answer, before>>
  BY <1>2, FreshType, PagesAssumption DEF CheckAuthors, Start, TypeOK, github, bounds
<1> QED BY <1>1, <1>2 DEF CheckAuthors, Code

LEMMA CompareType ==
  ASSUME TypeOK, Compare
  PROVE  TypeOK'
<1>1. CASE Stale
  BY <1>1, StaleType DEF Compare
<1>2. CASE /\ Return([code |-> "OK", refs |-> fetch.refs, comments |-> fetch.comments])
           /\ UNCHANGED ghosts
  <2>1. [code |-> "OK", refs |-> fetch.refs, comments |-> fetch.comments] \in Answer
    BY DEF TypeOK, Fetch, Answer
  <2>2. before' \in SUBSET Comment /\ check' \in [Comment -> Content] /\ checkedAt' \in Nat
    BY <1>2 DEF ghosts, TypeOK
  <2> QED BY <1>2, <2>1, <2>2, ReturnType DEF Compare
<1> QED BY <1>1, <1>2 DEF Compare

LEMMA NextType == TypeOK /\ [Next]_vars => TypeOK'
<1> SUFFICES ASSUME TypeOK, [Next]_vars PROVE TypeOK'
  OBVIOUS
<1>1. CASE Change
  BY <1>1, ChangeType
<1>2. CASE Begin
  BY <1>2, PagesAssumption, AttemptsAssumption, FreshType
     DEF Begin, Start, TypeOK, Present, github, bounds
<1>3. CASE Fails
  BY <1>3, RefuseType DEF Fails, Code
<1>4. CASE ReadPage
  BY <1>4, PageCases, RefuseType, StaleType, PageType DEF Code
<1>5. CASE CheckAuthors
  BY <1>5, CheckType
<1>6. CASE Compare
  BY <1>6, CompareType
<1>7. CASE UNCHANGED vars
  BY <1>7 DEF vars, github, bounds, attemptVars, ghosts, TypeOK
<1> QED BY <1>1, <1>2, <1>3, <1>4, <1>5, <1>6, <1>7 DEF Next, Change, ReaderStep

\* A read makes MaxAttempts attempts at most, and every variable has its type.
THEOREM ReaderTypeCorrect == Spec => []TypeOK
  BY InitType, NextType, PTL DEF Spec

-----------------------------------------------------------------------------
(* The authors of what is returned.                                        *)

TrustInv == TypeOK /\ TextAfterCheck /\ ReturnedIsTrusted

\* Two fetches with one fingerprint show the same commits and the same
\* comments, with the same authors and edits.
LEMMA SameComments ==
  ASSUME NEW f \in Fetch, NEW g \in Fetch, Same(f, g)
  PROVE  /\ f.refs = g.refs
         /\ \A x \in g.comments : \E y \in f.comments :
              x.id = y.id /\ x.author = y.author /\ x.editedAt = y.editedAt
         /\ \A x \in f.comments : \E y \in g.comments : x.id = y.id
<1> DEFINE Mark(x) == [id |-> x.id, author |-> x.author, editedAt |-> x.editedAt]
           Marks(h) == {Mark(x) : x \in h.comments}
<1>1. Fingerprint(f).refs = f.refs /\ Fingerprint(g).refs = g.refs
  BY DEF Fingerprint
<1>2. Fingerprint(f).comments = Marks(f) /\ Fingerprint(g).comments = Marks(g)
  BY DEF Fingerprint
<1>3. f.refs = g.refs /\ Marks(f) = Marks(g)
  BY <1>1, <1>2 DEF Same
<1>4. ASSUME NEW x, NEW y, Mark(x) = Mark(y)
      PROVE  x.id = y.id /\ x.author = y.author /\ x.editedAt = y.editedAt
  <2>1. Mark(x).id = x.id /\ Mark(x).author = x.author /\ Mark(x).editedAt = x.editedAt
        /\ Mark(y).id = y.id /\ Mark(y).author = y.author /\ Mark(y).editedAt = y.editedAt
    OBVIOUS
  <2> HIDE DEF Mark
  <2> QED BY <1>4, <2>1
<1> HIDE DEF Mark
<1>5. /\ \A x \in g.comments : \E y \in f.comments : Mark(x) = Mark(y)
      /\ \A x \in f.comments : \E y \in g.comments : Mark(x) = Mark(y)
  BY <1>3
<1> QED BY <1>3, <1>4, <1>5

\* What a read answers decides whether there is an answer to trust.
LEMMA OkAnswer ==
  ASSUME NEW code \in Code
  PROVE  [code |-> code].code # "OK"
  BY DEF Code

\* A pass that is over, or starts again, has no texts and gives no answer.
LEMMA StaleTrust ==
  ASSUME TrustInv, Stale \/ (\E code \in Code : Refuse(code)), UNCHANGED <<github, bounds>>
  PROVE  TextAfterCheck' /\ ReturnedIsTrusted'
  BY OkAnswer
     DEF Stale, Refuse, Return, Start, Code, TrustInv, TextAfterCheck,
         ReturnedIsTrusted, github, Allowed

LEMMA TrustNext == TrustInv /\ [Next]_vars => TrustInv'
<1> SUFFICES ASSUME TrustInv, [Next]_vars PROVE TrustInv'
  OBVIOUS
<1>1. TypeOK /\ TypeOK'
  BY NextType DEF TrustInv
<1>2. CASE Change
  BY <1>1, <1>2
     DEF Change, Push, Tick, Write, Edit, Remove, Orphan, Changes, Meanwhile,
         attemptVars, TrustInv, TextAfterCheck, ReturnedIsTrusted, Allowed, Authors
<1>3. CASE Begin
  BY <1>1, <1>3
     DEF Begin, Start, TrustInv, TextAfterCheck, ReturnedIsTrusted, github, Allowed
<1>4. CASE Fails
  BY <1>1, <1>4, StaleTrust DEF Fails, Code, TrustInv
<1>5. CASE ReadPage
  <2>1. CASE PageIsRead
    BY <1>1, <2>1
       DEF PageIsRead, TrustInv, TextAfterCheck, ReturnedIsTrusted, github, Allowed, Authors
  <2> QED BY <1>1, <1>5, <2>1, PageCases, StaleTrust DEF Code, TrustInv
<1>6. CASE CheckAuthors
  <2>1. CASE /\ declared[fetch.refs.policy] # Invalid
             /\ Untrusted(fetch, Allowed(fetch.refs.policy)) = {}
             /\ meta' = fetch /\ Start("full")
             /\ UNCHANGED <<attempt, bodies, answer, before>>
    BY <1>1, <1>6, <2>1
       DEF CheckAuthors, Start, Untrusted, TrustInv, TextAfterCheck,
           ReturnedIsTrusted, github, Allowed, Authors
  <2>2. CASE \E code \in Code : Refuse(code)
    BY <1>1, <1>6, <2>2, StaleTrust DEF CheckAuthors, TrustInv
  <2> QED BY <1>6, <2>1, <2>2 DEF CheckAuthors, Code
<1>7. CASE Compare
  <2>1. CASE /\ Same(meta, fetch)
             /\ Return([code |-> "OK", refs |-> fetch.refs, comments |-> fetch.comments])
    <3> meta \in Fetch /\ fetch \in Fetch /\ Same(meta, fetch)
      BY <1>1, <2>1 DEF TypeOK
    <3>1. /\ meta.refs = fetch.refs
          /\ \A x \in fetch.comments :
               \E y \in meta.comments : y.author = x.author
      BY SameComments
    <3>4. Authors(fetch) \subseteq Authors(meta)
      BY <3>1 DEF Authors
    <3>5. \A x \in fetch.comments : x.author \in Authors(meta)
      BY <3>4 DEF Authors
    <3>2. answer'.refs = fetch.refs /\ answer'.comments = fetch.comments
          /\ pc' = "idle" /\ UNCHANGED declared
      BY <1>7, <2>1 DEF Compare, Return, Start, github
    <3>3. /\ declared[meta.refs.policy] # Invalid
          /\ Authors(meta) \subseteq Allowed(meta.refs.policy)
      BY <1>7 DEF Compare, TrustInv, TextAfterCheck
    <3> QED BY <1>1, <3>1, <3>2, <3>3, <3>5
            DEF TrustInv, TextAfterCheck, ReturnedIsTrusted, Allowed
  <2> QED BY <1>1, <1>7, <2>1, StaleTrust DEF Compare, TrustInv
<1>8. CASE UNCHANGED vars
  BY <1>1, <1>8
     DEF vars, github, attemptVars, TrustInv, TextAfterCheck, ReturnedIsTrusted,
         Allowed, Authors
<1> QED BY <1>2, <1>3, <1>4, <1>5, <1>6, <1>7, <1>8 DEF Next, Change, ReaderStep

LEMMA TrustAlways == Spec => []TrustInv
<1>1. Init => TrustInv
  BY InitType DEF Init, TrustInv, TextAfterCheck, ReturnedIsTrusted, NoAnswer
<1> QED BY <1>1, TrustNext, PTL DEF Spec

\* No text is asked for until the authors of all comments are checked, whatever
\* changes meanwhile.
THEOREM TextsComeAfterTheCheck == Spec => []TextAfterCheck
  BY TrustAlways, PTL DEF TrustInv

\* Everybody whose comment is returned is allowed by the commit it names.
THEOREM AnswersAreTrusted == Spec => []ReturnedIsTrusted
  BY TrustAlways, PTL DEF TrustInv

-----------------------------------------------------------------------------
(* What a read returns existed together and is complete, for any discussion*)
(* that goes on while it is read page by page, twice.                      *)
(*                                                                         *)
(* The argument: a comment can only be edited, orphaned or deleted, and    *)
(* never back (Goes).  So what the first fetch showed precedes the         *)
(* discussion as it was when the authors were checked (Precedes), and what *)
(* the second fetch shows follows it (Follows).  Where the two fetches     *)
(* agree, the moment between them is caught.                               *)

-----------------------------------------------------------------------------
(* What may become of a comment.                                           *)

\* y becomes z, if only edits from time t on are made.
Goes(y, z, t) ==
  /\ y.state = "deleted" => z.state = "deleted"
  /\ y.state = "written" => z.state # "unwritten"
  /\ y.state = "written" /\ z.state = "written" =>
       /\ z.author \in {y.author, NoLogin}
       /\ y.editedAt <= z.editedAt
       /\ y.editedAt = z.editedAt => y.text = z.text \/ z.editedAt >= t

\* x was shown before the comment became z.
Precedes(x, z) ==
  /\ z.state # "unwritten"
  /\ z.state = "written" => z.author \in {x.author, NoLogin} /\ x.editedAt <= z.editedAt

\* x was shown after the comment had been y, at time t.
Follows(y, x, t) ==
  /\ y.state # "deleted"
  /\ y.state = "written" =>
       /\ x.author \in {y.author, NoLogin}
       /\ y.editedAt <= x.editedAt
       /\ y.editedAt = x.editedAt => x.text \in {NoText, y.text} \/ x.editedAt >= t

LEMMA ContentCases ==
  ASSUME NEW y \in Content
  PROVE  \/ y.state = "unwritten" \/ y.state = "deleted"
         \/ y.state = "written" /\ y.author \in Author /\ y.editedAt \in Nat /\ y.text \in Nat
<1>1. CASE y \in [state : {"written"}, author : Author, editedAt : Nat, text : Nat]
  BY <1>1
<1>2. CASE y \in {Unwritten, Deleted}
  BY <1>2 DEF Unwritten, Deleted
<1> QED BY <1>1, <1>2 DEF Content

LEMMA GoesOn ==
  ASSUME NEW x \in Content, NEW y \in Content, NEW z \in Content,
         NEW t \in Nat, NEW u \in Nat, t <= u, Goes(x, y, t), Goes(y, z, u)
  PROVE  Goes(x, z, t)
  BY ContentCases DEF Goes

LEMMA PrecedesOn ==
  ASSUME NEW x \in Reading, NEW y \in Content, NEW z \in Content, NEW t \in Nat,
         Precedes(x, y), Goes(y, z, t)
  PROVE  Precedes(x, z)
  BY ContentCases DEF Precedes, Goes, Reading

-----------------------------------------------------------------------------
(* The inductive invariant.                                                *)

ClockIsAhead ==
  /\ \A c \in Present(discussion) : discussion[c].editedAt <= now
  /\ checkedAt <= now

\* The first fetch shows what the discussion was.
FirstFetch ==
  /\ pc \in {"meta", "check"} => \A x \in fetch.comments : Precedes(x, discussion[x.id])
  /\ pc \in {"full", "compare"} => \A x \in meta.comments : Precedes(x, check[x.id])

\* The second fetch shows what has become of the discussion that was checked.
SecondFetch ==
  pc \in {"full", "compare"} =>
    /\ \A c \in Comment : Goes(check[c], discussion[c], checkedAt)
    /\ \A x \in fetch.comments : Follows(check[x.id], x, checkedAt)

Shows(f, c) == \E x \in f.comments : x.id = c

\* The pages read so far show every comment of theirs that has been there since
\* the attempt began.
PagesAreComplete ==
  /\ pc # "idle" => \A c \in before : discussion[c].state # "unwritten"
  /\ pc = "meta" => \A c \in before \cap Present(discussion) : c[1] < page => Shows(fetch, c)
  /\ pc = "check" => \A c \in before \cap Present(discussion) : Shows(fetch, c)
  /\ pc \in {"full", "compare"} => \A c \in before \cap Present(check) : Shows(meta, c)

HistoryInv ==
  /\ ClockIsAhead /\ FirstFetch /\ SecondFetch /\ PagesAreComplete
  /\ ReturnedTogether /\ NothingIsMissing

-----------------------------------------------------------------------------
(* Changes to the discussion.                                              *)

LEMMA ChangeGoes ==
  ASSUME TypeOK, TypeOK', ClockIsAhead, Change
  PROVE  /\ \A c \in Comment : Goes(discussion[c], discussion'[c], now)
         /\ \A c \in Comment : discussion[c].state = "unwritten" \/ discussion'[c].state # "unwritten"
         /\ \A c \in Present(discussion') : discussion'[c].editedAt <= now'
         /\ now <= now'
<1>1. CASE UNCHANGED discussion /\ now' \in {now, now + 1}
  BY <1>1, ContentCases DEF Goes, TypeOK, ClockIsAhead, Present
<1>2. ASSUME NEW c \in Comment, NEW z \in Content, Becomes(c, z), now' = now,
             Goes(discussion[c], z, now),
             discussion[c].state = "unwritten" \/ z.state # "unwritten",
             z.state = "written" => z.editedAt <= now
      PROVE  /\ \A d \in Comment : Goes(discussion[d], discussion'[d], now)
             /\ \A d \in Comment : discussion[d].state = "unwritten" \/ discussion'[d].state # "unwritten"
             /\ \A d \in Present(discussion') : discussion'[d].editedAt <= now'
             /\ now <= now'
  <2>1. discussion'[c] = z /\ \A d \in Comment : d # c => discussion'[d] = discussion[d]
    BY <1>2 DEF Becomes, TypeOK
  <2>2. \A d \in Comment : d # c => Goes(discussion[d], discussion'[d], now)
    BY <2>1, ContentCases DEF Goes, TypeOK
  <2> QED BY <1>2, <2>1, <2>2 DEF TypeOK, ClockIsAhead, Present
<1>3. ASSUME NEW c \in Comment, Write(c)
      PROVE  \E z \in Content :
               /\ Becomes(c, z) /\ now' = now /\ Goes(discussion[c], z, now)
               /\ discussion[c].state = "unwritten" \/ z.state # "unwritten"
               /\ z.state = "written" => z.editedAt <= now
  <2>1. PICK a \in Login : Becomes(c, Written(a, Never, 0))
    BY <1>3 DEF Write
  <2>2. Written(a, Never, 0) \in Content /\ discussion[c].state = "unwritten"
    BY <1>3, WrittenType DEF Write, Unwritten, Author, Never
  <2> QED BY <1>3, <2>1, <2>2 DEF Write, Changes, Goes, Written, Never, TypeOK
<1>4. ASSUME NEW c \in Comment, Edit(c) \/ Orphan(c)
      PROVE  \E z \in Content :
               /\ Becomes(c, z) /\ now' = now /\ Goes(discussion[c], z, now)
               /\ discussion[c].state = "unwritten" \/ z.state # "unwritten"
               /\ z.state = "written" => z.editedAt <= now
  <2> DEFINE y == discussion[c]
  <2>1. /\ c \in Present(discussion) /\ y.state = "written" /\ y.editedAt <= now /\ now \in Nat
        /\ y.author \in Author /\ y.editedAt \in Nat /\ y.text \in Nat /\ now' = now
    BY <1>4, PresentType DEF Edit, Orphan, Changes, TypeOK, ClockIsAhead, Present
  <2>2. CASE Edit(c)
    <3>1. Written(y.author, now, y.text + 1) \in Content
      BY <2>1, WrittenType
    <3> QED BY <2>1, <2>2, <3>1 DEF Edit, Goes, Written
  <2>3. CASE Orphan(c)
    <3>1. Written(NoLogin, y.editedAt, y.text) \in Content
      BY <2>1, WrittenType DEF Author
    <3> QED BY <2>1, <2>3, <3>1 DEF Orphan, Goes, Written
  <2> QED BY <1>4, <2>2, <2>3
<1>5. ASSUME NEW c \in Comment, Remove(c)
      PROVE  \E z \in Content :
               /\ Becomes(c, z) /\ now' = now /\ Goes(discussion[c], z, now)
               /\ discussion[c].state = "unwritten" \/ z.state # "unwritten"
               /\ z.state = "written" => z.editedAt <= now
  BY <1>5 DEF Remove, Changes, Goes, Deleted, Content
<1>6. CASE Push \/ Tick
  BY <1>1, <1>6 DEF Push, Tick, Changes
<1>7. CASE \E c \in Comment : Write(c) \/ Edit(c) \/ Remove(c) \/ Orphan(c)
  BY <1>2, <1>3, <1>4, <1>5, <1>7
<1> QED BY <1>6, <1>7 DEF Change

LEMMA ChangeKeeps ==
  ASSUME Change
  PROVE  pc # "idle" /\ UNCHANGED <<pc, page, fetch, meta, answer, before, check, checkedAt>>
  BY DEF Change, Push, Tick, Write, Edit, Remove, Orphan, Changes, Meanwhile,
         attemptVars, ghosts

LEMMA ChangeHistory ==
  ASSUME TypeOK, TypeOK', HistoryInv, Change
  PROVE  HistoryInv'
<1>1. /\ \A c \in Comment : Goes(discussion[c], discussion'[c], now)
      /\ \A c \in Comment : discussion[c].state = "unwritten" \/ discussion'[c].state # "unwritten"
      /\ \A c \in Present(discussion') : discussion'[c].editedAt <= now'
      /\ now <= now' /\ now \in Nat /\ now' \in Nat
  BY ChangeGoes DEF HistoryInv, TypeOK
<1>2. pc # "idle" /\ UNCHANGED <<pc, page, fetch, meta, answer, before, check, checkedAt>>
  BY ChangeKeeps
<1>3. ClockIsAhead'
  BY <1>1, <1>2 DEF HistoryInv, ClockIsAhead, TypeOK
<1>4. FirstFetch'
  <2>1. \A x \in fetch.comments : x \in Reading /\ x.id \in Comment
    BY DEF TypeOK, Fetch, Reading
  <2>2. ASSUME NEW x \in fetch.comments, Precedes(x, discussion[x.id])
        PROVE  Precedes(x, discussion'[x.id])
    BY <1>1, <2>1, <2>2, PrecedesOn DEF TypeOK
  <2> QED BY <1>2, <2>2 DEF HistoryInv, FirstFetch
<1>5. SecondFetch'
  <2>1. ASSUME NEW c \in Comment, Goes(check[c], discussion[c], checkedAt)
        PROVE  Goes(check[c], discussion'[c], checkedAt)
    BY <1>1, <2>1, GoesOn DEF TypeOK, HistoryInv, ClockIsAhead
  <2> QED BY <1>2, <2>1 DEF HistoryInv, SecondFetch
<1>6. PagesAreComplete'
  <2>1. ASSUME NEW c \in before, c \in Present(discussion')
        PROVE  c \in Present(discussion)
    BY <1>1, <1>2, <2>1, ContentCases
       DEF HistoryInv, PagesAreComplete, Present, Goes, TypeOK
  <2>2. \A c \in before : discussion'[c].state # "unwritten"
    BY <1>1, <1>2 DEF HistoryInv, PagesAreComplete, TypeOK
  <2> QED BY <1>2, <2>1, <2>2 DEF HistoryInv, PagesAreComplete, Shows
<1>7. ReturnedTogether' /\ NothingIsMissing'
  BY <1>2 DEF HistoryInv, ReturnedTogether, NothingIsMissing, Present
<1> QED BY <1>3, <1>4, <1>5, <1>6, <1>7 DEF HistoryInv

-----------------------------------------------------------------------------
(* The steps of the read.                                                  *)

\* A pass begins, the first or another.
Restarts ==
  /\ pc' = "meta" /\ page' = 1 /\ fetch' = Fresh
  /\ before' = Present(discussion)
  /\ UNCHANGED <<github, bounds, answer>>
  /\ answer.code # "OK"
  /\ checkedAt' \in {0, checkedAt}

LEMMA RestartHistory ==
  ASSUME TypeOK, TypeOK', HistoryInv, Restarts
  PROVE  HistoryInv'
<1>1. ClockIsAhead'
  BY DEF Restarts, github, bounds, HistoryInv, ClockIsAhead, TypeOK, Present
<1>2. FirstFetch' /\ SecondFetch'
  BY FreshType DEF Restarts, FirstFetch, SecondFetch
<1>3. PagesAreComplete'
  <2>1. \A c \in Present(discussion) : ~(c[1] < 1) /\ discussion[c].state # "unwritten"
    BY DEF Present, Comment
  <2> QED BY <2>1 DEF Restarts, PagesAreComplete, github
<1>4. ReturnedTogether' /\ NothingIsMissing'
  BY DEF Restarts, ReturnedTogether, NothingIsMissing
<1> QED BY <1>1, <1>2, <1>3, <1>4 DEF HistoryInv

LEMMA RefuseHistory ==
  ASSUME TypeOK, HistoryInv, NEW code \in Code, Refuse(code), UNCHANGED <<github, bounds>>
  PROVE  HistoryInv'
<1>1. pc' = "idle" /\ answer' = [code |-> code] /\ checkedAt' = 0 /\ UNCHANGED <<discussion, now>>
  BY DEF Refuse, Return, Start, github, bounds, Never
<1>2. answer'.code # "OK"
  BY <1>1, OkAnswer
<1> QED BY <1>1, <1>2
        DEF HistoryInv, ClockIsAhead, FirstFetch, SecondFetch, PagesAreComplete,
            ReturnedTogether, NothingIsMissing, Present, TypeOK

\* While a read goes on there is no answer.
Unanswered == pc # "idle" => answer.code # "OK"

LEMMA StaleHistory ==
  ASSUME TypeOK, TypeOK', HistoryInv, Unanswered, pc # "idle", Stale,
         UNCHANGED <<github, bounds>>
  PROVE  HistoryInv'
<1>1. CASE LastAttempt
  BY <1>1, RefuseHistory DEF Stale, Code
<1>2. CASE ~LastAttempt
  BY <1>2, RestartHistory DEF Stale, Start, Restarts, Unanswered, Never
<1> QED BY <1>1, <1>2

\* All of a page is shown.
LEMMA ShownAll ==
  ASSUME NEW p, NEW text, NEW c \in Present(discussion), c[1] = p
  PROVE  \E x \in Shown(p, text) : x.id = c
<1>1. Seen(c, text) \in Shown(p, text)
  BY DEF Shown
<1>2. Seen(c, text).id = c
  BY DEF Seen
<1> QED BY <1>1, <1>2

LEMMA PageHistory ==
  ASSUME TypeOK, HistoryInv, PageIsRead
  PROVE  HistoryInv'
<1> DEFINE new == Shown(page, WantsText)
<1>1. /\ fetch'.comments = fetch.comments \cup new
      /\ UNCHANGED <<discussion, now, meta, answer, before, check, checkedAt>>
      /\ pc \in {"meta", "full"}
      /\ \/ page < Pages /\ page' = page + 1 /\ pc' = pc
         \/ page = Pages /\ page' = 1 /\ pc' = IF pc = "meta" THEN "check" ELSE "compare"
  BY DEF PageIsRead, ghosts, github, bounds
<1>2. \A x \in new :
        /\ x.id \in Present(discussion) /\ x.id \in Comment
        /\ discussion[x.id].state = "written"
        /\ x.author = discussion[x.id].author
        /\ x.editedAt = discussion[x.id].editedAt /\ x.editedAt \in Nat
        /\ x.text \in {NoText, discussion[x.id].text}
  <2>1. WantsText \in BOOLEAN
    BY DEF WantsText, TypeOK
  <2> QED BY <2>1, ShownType, PresentType DEF Present, TypeOK
<1>3. ClockIsAhead'
  BY <1>1 DEF HistoryInv, ClockIsAhead, Present
<1>4. FirstFetch'
  BY <1>1, <1>2 DEF HistoryInv, FirstFetch, Precedes
<1>5. SecondFetch'
  <2>1. CASE pc = "full"
    <3>1. ASSUME NEW x \in new PROVE Follows(check[x.id], x, checkedAt)
      <4>1. Goes(check[x.id], discussion[x.id], checkedAt) /\ check[x.id] \in Content
        BY <1>2, <2>1 DEF HistoryInv, SecondFetch, TypeOK
      <4> QED BY <1>2, <4>1, ContentCases DEF Goes, Follows
    <3> QED BY <1>1, <2>1, <3>1 DEF HistoryInv, SecondFetch
  <2>2. CASE pc = "meta"
    BY <1>1, <2>2 DEF SecondFetch
  <2> QED BY <1>1, <2>1, <2>2
<1>6. PagesAreComplete'
  <2>1. \A c \in Present(discussion) : c[1] \in 1..Pages
    BY DEF Present, Comment
  <2>2. \A c \in Present(discussion) : c[1] = page => Shows(fetch', c)
    BY <1>1, ShownAll DEF Shows
  <2>3. \A c : Shows(fetch, c) => Shows(fetch', c)
    BY <1>1 DEF Shows
  <2>4. CASE pc = "meta"
    <3>1. \A c \in before \cap Present(discussion) : c[1] <= page => Shows(fetch', c)
      BY <2>1, <2>2, <2>3, <2>4, PagesAssumption DEF HistoryInv, PagesAreComplete, TypeOK
    <3>2. CASE page < Pages
      <4>1. \A c \in Present(discussion) : c[1] < page + 1 => c[1] <= page
        BY <2>1, PagesAssumption DEF TypeOK
      <4> QED BY <1>1, <2>4, <3>1, <3>2, <4>1 DEF HistoryInv, PagesAreComplete, Present, TypeOK
    <3>3. CASE page = Pages
      <4>1. \A c \in Present(discussion) : c[1] <= page
        BY <2>1, <3>3, PagesAssumption
      <4> QED BY <1>1, <2>4, <3>1, <3>3, <4>1, PagesAssumption
              DEF HistoryInv, PagesAreComplete, Present
    <3> QED BY <1>1, <3>2, <3>3
  <2>5. CASE pc = "full"
    BY <1>1, <2>5 DEF HistoryInv, PagesAreComplete, Present, Shows
  <2> QED BY <1>1, <2>4, <2>5
<1>7. ReturnedTogether' /\ NothingIsMissing'
  BY <1>1 DEF HistoryInv, ReturnedTogether, NothingIsMissing, Present
<1> QED BY <1>3, <1>4, <1>5, <1>6, <1>7 DEF HistoryInv

\* The authors are right: the texts are fetched now.
LEMMA CheckHistory ==
  ASSUME TypeOK, HistoryInv, Unanswered, pc = "check", UNCHANGED <<github, bounds>>,
         meta' = fetch, Start("full"), check' = discussion, checkedAt' = now,
         answer' = answer, before' = before
  PROVE  HistoryInv'
<1>1. pc' = "full" /\ fetch'.comments = {} /\ UNCHANGED <<discussion, now>>
  BY FreshType DEF Start, github, bounds
<1>2. ClockIsAhead'
  BY <1>1 DEF HistoryInv, ClockIsAhead, Present, TypeOK
<1>3. FirstFetch'
  BY <1>1 DEF HistoryInv, FirstFetch
<1>4. SecondFetch'
  BY <1>1, ContentCases DEF SecondFetch, Goes, TypeOK
<1>5. PagesAreComplete'
  BY <1>1 DEF HistoryInv, PagesAreComplete, Present, Shows
<1>6. ReturnedTogether' /\ NothingIsMissing'
  BY DEF Unanswered, ReturnedTogether, NothingIsMissing
<1> QED BY <1>2, <1>3, <1>4, <1>5, <1>6 DEF HistoryInv

\* Both fetches agree: what they show was there when the authors were checked.
LEMMA AnswerHistory ==
  ASSUME TypeOK, HistoryInv, pc = "compare", Same(meta, fetch), UNCHANGED <<github, bounds>>,
         Return([code |-> "OK", refs |-> fetch.refs, comments |-> fetch.comments]),
         UNCHANGED ghosts
  PROVE  HistoryInv'
<1>1. /\ pc' = "idle" /\ UNCHANGED <<discussion, now, before, check, checkedAt>>
      /\ answer'.comments = fetch.comments
  BY DEF Return, Start, github, bounds, ghosts
<1>2. /\ meta \in Fetch /\ fetch \in Fetch
      /\ \A x \in fetch.comments \cup meta.comments :
           x \in Reading /\ x.id \in Comment /\ x.editedAt \in Nat
  BY DEF TypeOK, Fetch, Reading
<1>3. ReturnedTogether'
  <2>1. ASSUME NEW x \in fetch.comments
        PROVE  /\ x.id \in Present(check)
               /\ check[x.id].author = x.author
               /\ check[x.id].editedAt = x.editedAt
               /\ x.text \in {NoText, check[x.id].text} \/ x.editedAt >= checkedAt
    <3>1. PICK m \in meta.comments : x.id = m.id /\ x.author = m.author /\ x.editedAt = m.editedAt
      BY <1>2, SameComments
    <3>2. Precedes(m, check[x.id]) /\ Follows(check[x.id], x, checkedAt)
      BY <3>1 DEF HistoryInv, FirstFetch, SecondFetch
    <3>3. check[x.id] \in Content /\ x.id \in Comment
      BY <1>2 DEF TypeOK
    <3>4. check[x.id].state = "written" /\ check[x.id].editedAt \in Nat
      BY <3>2, <3>3, ContentCases DEF Precedes, Follows
    <3>5. check[x.id].author = x.author
      BY <3>1, <3>2, <3>4 DEF Precedes, Follows
    <3>6. check[x.id].editedAt = x.editedAt
      BY <1>2, <3>1, <3>2, <3>4 DEF Precedes, Follows
    <3> QED BY <3>2, <3>3, <3>4, <3>5, <3>6 DEF Follows, Present
  <2> QED BY <1>1, <2>1 DEF ReturnedTogether, Present
<1>4. NothingIsMissing'
  <2>1. \A c \in before \cap Present(check) : \E x \in fetch.comments : x.id = c
    <3>1. \A m \in meta.comments : \E x \in fetch.comments : m.id = x.id
      BY <1>2, SameComments
    <3>2. \A c \in before \cap Present(check) : \E m \in meta.comments : m.id = c
      BY DEF HistoryInv, PagesAreComplete, Shows
    <3> QED BY <3>1, <3>2
  <2> QED BY <1>1, <2>1 DEF NothingIsMissing, Present
<1> QED BY <1>1, <1>3, <1>4
        DEF HistoryInv, ClockIsAhead, FirstFetch, SecondFetch, PagesAreComplete, Present

LEMMA UnansweredNext ==
  ASSUME TypeOK, Unanswered, [Next]_vars
  PROVE  Unanswered'
<1>1. CASE Change
  BY <1>1, ChangeKeeps DEF Unanswered
<1>2. CASE Begin
  BY <1>2 DEF Begin, Unanswered, NoAnswer
<1>3. CASE pc # "idle" /\ (Stale \/ \E code \in Code : Refuse(code))
  <2>1. CASE \E code \in Code : Refuse(code)
    BY <2>1 DEF Refuse, Return, Start, Unanswered
  <2>2. CASE pc # "idle" /\ Stale /\ ~LastAttempt
    <3>1. answer' = answer
      BY <2>2 DEF Stale
    <3> QED BY <2>2, <3>1 DEF Unanswered
  <2> QED BY <1>3, <2>1, <2>2 DEF Stale, Code
<1>4. CASE Fails
  BY <1>3, <1>4 DEF Fails, Code
<1>5. CASE ReadPage
  BY <1>3, <1>5, PageCases DEF ReadPage, PageIsRead, Unanswered, Code
<1>6. CASE CheckAuthors
  <2>1. CASE Start("full") /\ UNCHANGED <<attempt, bodies, answer, before>>
    BY <1>6, <2>1 DEF CheckAuthors, Start, Unanswered
  <2> QED BY <1>3, <1>6, <2>1 DEF CheckAuthors, Code
<1>7. CASE Compare
  BY <1>3, <1>7 DEF Compare, Return, Start, Unanswered
<1>8. CASE UNCHANGED vars
  <2>1. UNCHANGED <<pc, answer>>
    BY <1>8 DEF vars
  <2> QED BY <2>1 DEF Unanswered
<1> QED BY <1>1, <1>2, <1>4, <1>5, <1>6, <1>7, <1>8 DEF Next, Change, ReaderStep

FullInv == TypeOK /\ Unanswered /\ HistoryInv

LEMMA InitHistory == Init => FullInv
<1> SUFFICES ASSUME Init PROVE FullInv
  OBVIOUS
<1>1. \A c \in Present(discussion) : discussion[c].editedAt <= now
  BY DEF Init, Present, Written, Unwritten, Never
<1> QED BY <1>1, InitType
        DEF Init, FullInv, Unanswered, HistoryInv, ClockIsAhead, FirstFetch,
            SecondFetch, PagesAreComplete, ReturnedTogether, NothingIsMissing,
            NoAnswer, Never

LEMMA HistoryNext == FullInv /\ [Next]_vars => FullInv'
<1> SUFFICES ASSUME FullInv, [Next]_vars PROVE FullInv'
  OBVIOUS
<1>1. TypeOK /\ TypeOK' /\ Unanswered /\ Unanswered' /\ HistoryInv
  BY NextType, UnansweredNext DEF FullInv
<1>2. CASE Change
  BY <1>1, <1>2, ChangeHistory DEF FullInv
<1>3. CASE Begin
  <2>1. Restarts
    BY <1>3 DEF Begin, Start, Restarts, NoAnswer
  <2> QED BY <1>1, <2>1, RestartHistory DEF FullInv
<1>4. CASE Fails
  BY <1>1, <1>4, RefuseHistory DEF Fails, Code, FullInv
<1>5. CASE ReadPage
  <2>1. pc # "idle"
    BY <1>5 DEF ReadPage
  <2> QED BY <1>1, <1>5, <2>1, PageCases, RefuseHistory, StaleHistory, PageHistory
          DEF Code, FullInv
<1>6. CASE CheckAuthors
  <2>1. CASE \E code \in Code : Refuse(code)
    BY <1>1, <1>6, <2>1, RefuseHistory DEF CheckAuthors, FullInv
  <2>2. CASE /\ meta' = fetch /\ Start("full") /\ check' = discussion /\ checkedAt' = now
             /\ UNCHANGED <<attempt, bodies, answer, before>>
    BY <1>1, <1>6, <2>2, CheckHistory DEF CheckAuthors, FullInv
  <2> QED BY <1>6, <2>1, <2>2 DEF CheckAuthors, Code
<1>7. CASE Compare
  <2>1. CASE Stale
    BY <1>1, <1>7, <2>1, StaleHistory DEF Compare, FullInv
  <2>2. CASE /\ Same(meta, fetch)
             /\ Return([code |-> "OK", refs |-> fetch.refs, comments |-> fetch.comments])
             /\ UNCHANGED ghosts
    BY <1>1, <1>7, <2>2, AnswerHistory DEF Compare, FullInv
  <2> QED BY <1>7, <2>1, <2>2 DEF Compare
<1>8. CASE UNCHANGED vars
  BY <1>1, <1>8
     DEF vars, github, bounds, attemptVars, ghosts, FullInv, HistoryInv,
         ClockIsAhead, FirstFetch, SecondFetch, PagesAreComplete,
         ReturnedTogether, NothingIsMissing, Present, Shows
<1> QED BY <1>2, <1>3, <1>4, <1>5, <1>6, <1>7, <1>8 DEF Next, Change, ReaderStep

LEMMA HistoryAlways == Spec => []FullInv
  BY InitHistory, HistoryNext, PTL DEF Spec

\* All that a read returns existed together, when the authors were checked.
THEOREM AnswersExistedTogether == Spec => []ReturnedTogether
  BY HistoryAlways, PTL DEF FullInv, HistoryInv

\* A read returns every comment that was there from the start of its last
\* attempt to the check of the authors.
THEOREM AnswersAreComplete == Spec => []NothingIsMissing
  BY HistoryAlways, PTL DEF FullInv, HistoryInv
=============================================================================
