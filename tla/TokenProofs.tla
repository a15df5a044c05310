------------------------------- MODULE TokenProofs -----------------------------
(***************************************************************************)
(* Theorems about TokenSources, for any callers, tokens, margins and       *)
(* lifetimes.                                                              *)
(*                                                                         *)
(* The inductive invariant ties five things together: who has the mutex    *)
(* (MutexIsHeld), that a good token stops a renewal (RenewalIsNeeded),     *)
(* what the answers under way are (AnswersAreNew), what the two caches     *)
(* hold (CachedIsKnown, ReusedIsDated) and what a caller holds             *)
(* (HeldIsAccepted).  One step for each action shows that it is kept.      *)
(***************************************************************************)
EXTENDS TokenProperties, TLAPS

\* Only the caller with the mutex is waiting for GitHub.
MutexIsHeld ==
  \A c \in Caller :
    mode = "github-app" /\ pc[c] \in {"asking", "answered"} => mu = c

\* While the mutex is held the cached token is one that had to be renewed.
RenewalIsNeeded == mu # Nobody => ~Usable

\* An answer names a token that was issued, with its expiry or none; GitHub's
\* token has not been seen before.
AnswersAreNew ==
  \A c \in Caller : pc[c] = "answered" =>
    /\ reply[c].token \in Token
    /\ expiry[reply[c].token] # 0
    /\ reply[c].expiry \in {0, expiry[reply[c].token]}
    /\ mode = "github-app" => reply[c].token \notin accepted

\* The cached token is an accepted one that nobody saw refused.
CachedIsKnown ==
  cached.token # NoToken =>
    /\ cached.token \in accepted \ dropped
    /\ cached.expiry = expiry[cached.token]

HistoryIsOrdered ==
  /\ dropped \subseteq accepted /\ accepted \subseteq Issued
  /\ mode = "gateway" => accepted = {}

HeldIsAccepted ==
  \A c \in Caller :
    mode = "github-app" /\ pc[c] \in {"holds", "rejected"} => held[c] \in accepted

\* A token that is reused has its expiry.
ReusedIsDated ==
  /\ broker \in Issued \cup {NoToken}
  /\ \A c \in Caller : reuse[c].token # NoToken =>
       reuse[c].expiry # 0 /\ reuse[c].expiry = expiry[reuse[c].token]

TokenInv ==
  /\ TypeOK
  /\ MutexIsHeld /\ RenewalIsNeeded /\ AnswersAreNew
  /\ CachedIsKnown /\ HistoryIsOrdered /\ HeldIsAccepted
  /\ ReusedIsDated /\ GoodTokenIsKept

-----------------------------------------------------------------------------
LEMMA InitInv == Init => TokenInv
  BY TokenAssumption
     DEF Init, TokenInv, TypeOK, Dating, Empty, MutexIsHeld, RenewalIsNeeded,
         AnswersAreNew, CachedIsKnown, HistoryIsOrdered, Issued, HeldIsAccepted,
         ReusedIsDated, GoodTokenIsKept

\* A new token changes the expiry of no token that was issued before.
LEMMA NewTokenIsNew ==
  ASSUME TypeOK, NEW t \in Token, NewToken(t)
  PROVE  /\ expiry' \in [Token -> Nat]
         /\ expiry[t] = 0 /\ expiry'[t] # 0
         /\ \A u \in Token : u # t => expiry'[u] = expiry[u]
  BY TokenAssumption DEF NewToken, Issued, TypeOK

\* Time passes, tokens are revoked, the gateway renews.
LEMMA WorldInv ==
  ASSUME TokenInv, World
  PROVE  TokenInv'
<1>1. CASE Tick
  BY <1>1, TokenAssumption
     DEF Tick, appVars, gatewayVars, TokenInv, TypeOK, Dating, Usable,
         MutexIsHeld, RenewalIsNeeded, AnswersAreNew, CachedIsKnown,
         HistoryIsOrdered, Issued, HeldIsAccepted, ReusedIsDated, GoodTokenIsKept
<1>2. CASE Revoke
  BY <1>2
     DEF Revoke, appVars, gatewayVars, TokenInv, TypeOK, Dating, Usable,
         MutexIsHeld, RenewalIsNeeded, AnswersAreNew, CachedIsKnown,
         HistoryIsOrdered, Issued, HeldIsAccepted, ReusedIsDated, GoodTokenIsKept
<1>3. CASE Rotate
  <2>1. CASE broker' = NoToken /\ UNCHANGED expiry
    BY <1>3, <2>1
       DEF Rotate, appVars, TokenInv, TypeOK, Dating, Usable,
           MutexIsHeld, RenewalIsNeeded, AnswersAreNew, CachedIsKnown,
           HistoryIsOrdered, Issued, HeldIsAccepted, ReusedIsDated, GoodTokenIsKept
  <2>2. ASSUME NEW t \in Token, NewToken(t), broker' = t
        PROVE  TokenInv'
    <3>1. /\ expiry' \in [Token -> Nat] /\ expiry[t] = 0 /\ expiry'[t] # 0
          /\ \A u \in Token : u # t => expiry'[u] = expiry[u]
      BY <2>2, NewTokenIsNew DEF TokenInv
    <3>2. TypeOK' /\ MutexIsHeld' /\ RenewalIsNeeded' /\ HeldIsAccepted'
      BY <1>3, <2>2, <3>1
         DEF Rotate, appVars, TokenInv, TypeOK, Dating, Usable, MutexIsHeld,
             RenewalIsNeeded, HeldIsAccepted
    <3>3. AnswersAreNew'
      BY <1>3, <3>1 DEF Rotate, appVars, TokenInv, TypeOK, Dating, AnswersAreNew
    <3>4. HistoryIsOrdered' /\ CachedIsKnown' /\ GoodTokenIsKept'
      BY <1>3, <3>1
         DEF Rotate, appVars, TokenInv, TypeOK, Dating, HistoryIsOrdered, Issued,
             CachedIsKnown, GoodTokenIsKept
    <3>5. ReusedIsDated'
      BY <1>3, <2>2, <3>1
         DEF Rotate, TokenInv, TypeOK, Dating, ReusedIsDated, Issued
    <3> QED BY <3>2, <3>3, <3>4, <3>5 DEF TokenInv
  <2> QED BY <1>3, <2>1, <2>2 DEF Rotate
<1> QED BY <1>1, <1>2, <1>3 DEF World

LEMMA ValidateInv ==
  ASSUME TokenInv, ValidateInstallation
  PROVE  TokenInv'
  BY DEF ValidateInstallation, gatewayVars, worldVars, TokenInv, TypeOK, Dating,
         Usable, MutexIsHeld, RenewalIsNeeded, AnswersAreNew, CachedIsKnown,
         HistoryIsOrdered, Issued, HeldIsAccepted, ReusedIsDated, GoodTokenIsKept

\* GitHub issues a token: it is the answer to the caller with the mutex.
LEMMA IssueInv ==
  ASSUME TokenInv, NEW c \in Caller, AppIssues(c)
  PROVE  TokenInv'
<1>1. PICK t \in Token : NewToken(t) /\ Says(c, t)
  BY DEF AppIssues, GitHubIssues
<1>2. /\ expiry' \in [Token -> Nat] /\ expiry[t] = 0 /\ expiry'[t] # 0
      /\ \A u \in Token : u # t => expiry'[u] = expiry[u]
  BY <1>1, NewTokenIsNew DEF TokenInv
<1>3. PICK e \in {0, expiry'[t]} :
        reply' = [reply EXCEPT ![c] = [token |-> t, expiry |-> e]]
  BY <1>1 DEF Says
<1>4. TypeOK' /\ MutexIsHeld' /\ RenewalIsNeeded' /\ HeldIsAccepted'
  BY <1>1, <1>2, <1>3
     DEF AppIssues, GitHubIssues, At, Says, Goes, appVars, gatewayVars, TokenInv,
         TypeOK, Dating, Usable, MutexIsHeld, RenewalIsNeeded, HeldIsAccepted
<1>5. AnswersAreNew'
  BY <1>1, <1>2, <1>3
     DEF AppIssues, GitHubIssues, Says, Goes, appVars, TokenInv, TypeOK, Dating,
         AnswersAreNew, HistoryIsOrdered, Issued
<1>6. HistoryIsOrdered' /\ CachedIsKnown' /\ GoodTokenIsKept' /\ ReusedIsDated'
  BY <1>1, <1>2
     DEF AppIssues, GitHubIssues, appVars, gatewayVars, TokenInv, TypeOK, Dating,
         HistoryIsOrdered, Issued, CachedIsKnown, GoodTokenIsKept, ReusedIsDated
<1> QED BY <1>4, <1>5, <1>6 DEF TokenInv

\* One step for each action of a caller in github-app mode.
LEMMA AppInv ==
  ASSUME TokenInv, NEW c \in Caller, AppStep(c)
  PROVE  TokenInv'
<1>1. CASE TokenCached(c)
  BY <1>1, TokenAssumption
     DEF AppStep, TokenCached, Gets, Goes, At, appVars, gatewayVars, worldVars, TokenInv, TypeOK, Dating,
         Empty, Usable, MutexIsHeld, RenewalIsNeeded, AnswersAreNew, CachedIsKnown,
         HistoryIsOrdered, Issued, HeldIsAccepted, ReusedIsDated, GoodTokenIsKept
<1>2. CASE TokenAsks(c)
  BY <1>2, TokenAssumption
     DEF AppStep, TokenAsks, Gets, Goes, At, appVars, gatewayVars, worldVars, TokenInv, TypeOK, Dating,
         Empty, Usable, MutexIsHeld, RenewalIsNeeded, AnswersAreNew, CachedIsKnown,
         HistoryIsOrdered, Issued, HeldIsAccepted, ReusedIsDated, GoodTokenIsKept
<1>3. CASE TokenFails(c)
  BY <1>3, TokenAssumption
     DEF AppStep, TokenFails, Gets, Goes, At, appVars, gatewayVars, worldVars, TokenInv, TypeOK, Dating,
         Empty, Usable, MutexIsHeld, RenewalIsNeeded, AnswersAreNew, CachedIsKnown,
         HistoryIsOrdered, Issued, HeldIsAccepted, ReusedIsDated, GoodTokenIsKept
<1>4. CASE TokenAccepted(c)
  BY <1>4, TokenAssumption
     DEF AppStep, TokenAccepted, Gets, Goes, At, appVars, gatewayVars, worldVars, TokenInv, TypeOK, Dating,
         Empty, Usable, MutexIsHeld, RenewalIsNeeded, AnswersAreNew, CachedIsKnown,
         HistoryIsOrdered, Issued, HeldIsAccepted, ReusedIsDated, GoodTokenIsKept
<1>5. CASE TokenUnfit(c)
  BY <1>5, TokenAssumption
     DEF AppStep, TokenUnfit, TokenFails, Gets, Goes, At, appVars, gatewayVars, worldVars, TokenInv, TypeOK, Dating,
         Empty, Usable, MutexIsHeld, RenewalIsNeeded, AnswersAreNew, CachedIsKnown,
         HistoryIsOrdered, Issued, HeldIsAccepted, ReusedIsDated, GoodTokenIsKept
<1>6. CASE Refused(c)
  BY <1>6, TokenAssumption
     DEF AppStep, Refused, Gets, Goes, At, appVars, gatewayVars, worldVars, TokenInv, TypeOK, Dating,
         Empty, Usable, MutexIsHeld, RenewalIsNeeded, AnswersAreNew, CachedIsKnown,
         HistoryIsOrdered, Issued, HeldIsAccepted, ReusedIsDated, GoodTokenIsKept
<1>7. CASE Invalidate(c)
  BY <1>7, TokenAssumption
     DEF AppStep, Invalidate, Remaining, Gets, Goes, At, appVars, gatewayVars, worldVars, TokenInv, TypeOK, Dating,
         Empty, Usable, MutexIsHeld, RenewalIsNeeded, AnswersAreNew, CachedIsKnown,
         HistoryIsOrdered, Issued, HeldIsAccepted, ReusedIsDated, GoodTokenIsKept
<1>8. CASE Finish(c) /\ UNCHANGED appVars
  BY <1>8, TokenAssumption
     DEF AppStep, Finish, Gets, Goes, At, appVars, gatewayVars, worldVars, TokenInv, TypeOK, Dating,
         Empty, Usable, MutexIsHeld, RenewalIsNeeded, AnswersAreNew, CachedIsKnown,
         HistoryIsOrdered, Issued, HeldIsAccepted, ReusedIsDated, GoodTokenIsKept
<1> QED BY <1>1, <1>2, <1>3, <1>4, <1>5, <1>6, <1>7, <1>8 DEF AppStep

\* One step for each action of a watch in gateway mode.
LEMMA GatewayInv ==
  ASSUME TokenInv, NEW c \in Caller, GatewayStep(c)
  PROVE  TokenInv'
<1>1. CASE Reuse(c)
  BY <1>1, TokenAssumption
     DEF GatewayStep, Reuse, Reusable, Gets, Goes, At, appVars, gatewayVars, worldVars, TokenInv, TypeOK, Dating,
         Empty, Usable, MutexIsHeld, RenewalIsNeeded, AnswersAreNew, CachedIsKnown,
         HistoryIsOrdered, Issued, HeldIsAccepted, ReusedIsDated, GoodTokenIsKept
<1>2. CASE AskGateway(c)
  BY <1>2, TokenAssumption
     DEF GatewayStep, AskGateway, Gets, Goes, At, appVars, gatewayVars, worldVars, TokenInv, TypeOK, Dating,
         Empty, Usable, MutexIsHeld, RenewalIsNeeded, AnswersAreNew, CachedIsKnown,
         HistoryIsOrdered, Issued, HeldIsAccepted, ReusedIsDated, GoodTokenIsKept
<1>3. CASE GatewayAnswers(c)
  BY <1>3, TokenAssumption
     DEF GatewayStep, GatewayAnswers, Says, Gets, Goes, At, appVars, gatewayVars, worldVars, TokenInv, TypeOK, Dating,
         Empty, Usable, MutexIsHeld, RenewalIsNeeded, AnswersAreNew, CachedIsKnown,
         HistoryIsOrdered, Issued, HeldIsAccepted, ReusedIsDated, GoodTokenIsKept
<1>4. CASE GatewayFails(c)
  BY <1>4, TokenAssumption
     DEF GatewayStep, GatewayFails, Gets, Goes, At, appVars, gatewayVars, worldVars, TokenInv, TypeOK, Dating,
         Empty, Usable, MutexIsHeld, RenewalIsNeeded, AnswersAreNew, CachedIsKnown,
         HistoryIsOrdered, Issued, HeldIsAccepted, ReusedIsDated, GoodTokenIsKept
<1>5. CASE GatewayAccepted(c)
  BY <1>5, TokenAssumption
     DEF GatewayStep, GatewayAccepted, Dated, Gets, Goes, At, appVars, gatewayVars, worldVars, TokenInv, TypeOK, Dating,
         Empty, Usable, MutexIsHeld, RenewalIsNeeded, AnswersAreNew, CachedIsKnown,
         HistoryIsOrdered, Issued, HeldIsAccepted, ReusedIsDated, GoodTokenIsKept
<1>6. CASE GatewayUndated(c)
  BY <1>6, TokenAssumption
     DEF GatewayStep, GatewayUndated, GatewayFails, Gets, Goes, At, appVars, gatewayVars, worldVars, TokenInv, TypeOK, Dating,
         Empty, Usable, MutexIsHeld, RenewalIsNeeded, AnswersAreNew, CachedIsKnown,
         HistoryIsOrdered, Issued, HeldIsAccepted, ReusedIsDated, GoodTokenIsKept
<1>7. CASE Finish(c) /\ UNCHANGED reuse
  BY <1>7, TokenAssumption
     DEF GatewayStep, Finish, Gets, Goes, At, appVars, gatewayVars, worldVars, TokenInv, TypeOK, Dating,
         Empty, Usable, MutexIsHeld, RenewalIsNeeded, AnswersAreNew, CachedIsKnown,
         HistoryIsOrdered, Issued, HeldIsAccepted, ReusedIsDated, GoodTokenIsKept
<1> QED BY <1>1, <1>2, <1>3, <1>4, <1>5, <1>6, <1>7 DEF GatewayStep

LEMMA NextInv == TokenInv /\ [Next]_vars => TokenInv'
<1> SUFFICES ASSUME TokenInv, [Next]_vars PROVE TokenInv'
  OBVIOUS
<1>1. CASE Next
  BY <1>1, WorldInv, ValidateInv, AppInv, IssueInv, GatewayInv DEF Next
<1>2. CASE UNCHANGED vars
  BY <1>2
     DEF vars, appVars, gatewayVars, worldVars, TokenInv, TypeOK, Dating, Usable,
         MutexIsHeld, RenewalIsNeeded, AnswersAreNew, CachedIsKnown,
         HistoryIsOrdered, Issued, HeldIsAccepted, ReusedIsDated, GoodTokenIsKept
<1> QED BY <1>1, <1>2

LEMMA AlwaysInv == Spec => []TokenInv
  BY InitInv, NextInv, PTL DEF Spec

-----------------------------------------------------------------------------
(* The theorems.                                                           *)

\* Every variable of the token sources keeps its type.
THEOREM TokenTypeCorrect == Spec => []TypeOK
  BY AlwaysInv, PTL DEF TokenInv

\* However many calls renew, are refused and report it in whatever order, a
\* good token that nobody saw refused is the cached one.
THEOREM GoodTokensAreKept == Spec => []GoodTokenIsKept
  BY AlwaysInv, PTL DEF TokenInv

\* Only three actions give a caller a token.
LEMMA WhoGives ==
  ASSUME TokenInv, Next, NEW c \in Caller, Given(c)
  PROVE  \/ mode = "github-app" /\ (TokenCached(c) \/ TokenAccepted(c))
         \/ mode = "gateway" /\ (Reuse(c) \/ GatewayAccepted(c))
<1>1. ASSUME NEW d \in Caller, d # c, pc' = [pc EXCEPT ![d] = pc'[d]]
      PROVE  FALSE
  BY <1>1 DEF Given, TokenInv, TypeOK
<1>2. CASE World \/ ValidateInstallation
  BY <1>2 DEF World, Tick, Revoke, Rotate, ValidateInstallation, Given
<1>3. ASSUME NEW d \in Caller, AppStep(d) \/ AppIssues(d) \/ GatewayStep(d)
      PROVE  pc' = [pc EXCEPT ![d] = pc'[d]]
  BY <1>3
     DEF AppStep, AppIssues, GatewayStep, TokenCached, TokenAsks, TokenFails,
         TokenAccepted, TokenUnfit, Refused, Invalidate, Finish, GitHubIssues,
         Says, Reuse, AskGateway, GatewayAnswers, GatewayFails, GatewayAccepted,
         GatewayUndated, Gets, Goes, TokenInv, TypeOK
<1>4. CASE AppStep(c) \/ AppIssues(c) \/ GatewayStep(c)
  BY <1>4
     DEF Given, AppStep, AppIssues, GatewayStep, TokenAsks, TokenFails,
         TokenUnfit, Refused, Invalidate, Finish, GitHubIssues, Says,
         AskGateway, GatewayAnswers, GatewayFails, GatewayUndated, Goes,
         TokenInv, TypeOK
<1> QED BY <1>1, <1>2, <1>3, <1>4 DEF Next

\* A token that was reported as refused is never given out again.
THEOREM RejectedTokensStayDropped == Spec => RejectedIsNotReturned
<1>1. ASSUME TokenInv, [Next]_vars
      PROVE  [\A c \in Caller : Given(c) => held'[c] \notin dropped]_vars
  <2> SUFFICES ASSUME Next, NEW c \in Caller, Given(c) PROVE held'[c] \notin dropped
    BY <1>1
  <2>1. CASE mode = "github-app" /\ (TokenCached(c) \/ TokenAccepted(c))
    BY <1>1, <2>1
       DEF TokenCached, TokenAccepted, Usable, Gets, At, TokenInv, TypeOK,
           CachedIsKnown, AnswersAreNew, HistoryIsOrdered
  <2>2. CASE mode = "gateway"
    BY <1>1, <2>2 DEF TokenInv, HistoryIsOrdered
  <2> QED BY <1>1, <2>1, <2>2, WhoGives
<1> QED BY <1>1, AlwaysInv, PTL DEF Spec, RejectedIsNotReturned

\* A token past its expiry is given out only as the gateway's own fresh answer.
THEOREM ExpiredTokensAreNotReturned == Spec => ExpiredIsNotReturned
<1>1. ASSUME TokenInv, [Next]_vars
      PROVE  [\A c \in Caller : Given(c) =>
               expiry[held'[c]] > now \/ (mode = "gateway" /\ pc[c] = "answered")]_vars
  <2> SUFFICES ASSUME Next, NEW c \in Caller, Given(c)
               PROVE  expiry[held'[c]] > now \/ (mode = "gateway" /\ pc[c] = "answered")
    BY <1>1
  <2>1. CASE TokenCached(c)
    BY <1>1, <2>1, TokenAssumption
       DEF TokenCached, Usable, Gets, TokenInv, TypeOK, Dating, CachedIsKnown
  <2>2. CASE TokenAccepted(c)
    BY <1>1, <2>2
       DEF TokenAccepted, At, Gets, TokenInv, TypeOK, Dating, AnswersAreNew
  <2>3. CASE Reuse(c)
    BY <1>1, <2>3, TokenAssumption
       DEF Reuse, Reusable, Gets, TokenInv, TypeOK, Dating, ReusedIsDated
  <2>4. CASE mode = "gateway" /\ GatewayAccepted(c)
    BY <2>4 DEF GatewayAccepted, At
  <2> QED BY <1>1, <2>1, <2>2, <2>3, <2>4, WhoGives
<1> QED BY <1>1, AlwaysInv, PTL DEF Spec, ExpiredIsNotReturned
=============================================================================
