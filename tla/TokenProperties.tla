---------------------------- MODULE TokenProperties ----------------------------
(***************************************************************************)
(* What is claimed of TokenSources.                                        *)
(***************************************************************************)
EXTENDS TokenSources

Dating == [token : Token \cup {NoToken}, expiry : Nat]

\* Every variable has its type.
TypeOK ==
  /\ mode \in {"github-app", "gateway"}
  /\ boot \in {"none", "app", "installation", "verified", "refused"}
  /\ now \in Nat /\ expiry \in [Token -> Nat] /\ revoked \subseteq Token
  /\ mu \in Caller \cup {Nobody} /\ cached \in Dating
  /\ broker \in Token \cup {NoToken} /\ reuse \in [Caller -> Dating]
  /\ pc \in [Caller -> {"idle", "asking", "answered", "holds", "rejected"}]
  /\ reply \in [Caller -> Dating] /\ held \in [Caller -> Token \cup {NoToken}]
  /\ accepted \subseteq Token /\ dropped \subseteq Token

\* "concurrent tool calls do not issue it twice" (token_source.go:132), and
\* Invalidate drops the rejected token only: a token that has time enough left
\* and that nobody saw refused is the one the source still has, however late
\* another caller reports the token before it.
GoodTokenIsKept ==
  \A t \in accepted \ dropped : expiry[t] > now + Margin => cached.token = t

Given(c) == pc[c] # "holds" /\ pc'[c] = "holds"

\* invalidatingTransport clears the cache "immediately rather than waiting":
\* a token that was reported as refused is given to no further caller.
RejectedIsNotReturned ==
  [][\A c \in Caller : Given(c) => held'[c] \notin dropped]_vars

\* A token past its expiry is given to nobody: in github-app mode not even
\* when it has just been issued; in gateway mode a token is reused only while
\* it lives, although the gateway may leave its expiry out.
ExpiredIsNotReturned ==
  [][\A c \in Caller : Given(c) =>
       expiry[held'[c]] > now \/ (mode = "gateway" /\ pc[c] = "answered")]_vars
=============================================================================
