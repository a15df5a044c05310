------------------------------ MODULE TokenSources -----------------------------
(***************************************************************************)
(* Where the server's GitHub tokens come from, in either mode of           *)
(* REVIEW_RAVEN_AUTH_MODE (cmd/server/github_app.go).                      *)
(*                                                                         *)
(* github-app: internal/githubapp/token_source.go.  One source for the     *)
(* process caches one installation token.  Token holds the mutex while it  *)
(* asks GitHub for a new one; the client of a tool call keeps the token it *)
(* was given and, when GitHub refuses it (401), has the source drop it     *)
(* (invalidatingTransport in internal/github/client.go).                   *)
(*                                                                         *)
(* gateway: internal/github/gateway_token_source.go.  Each watch has a     *)
(* source of its own, wrapped in oauth2.ReuseTokenSource, that asks the    *)
(* gateway for the token it keeps for the user.                            *)
(*                                                                         *)
(* A caller is a tool call, or a watch's worker.  A token is a model value *)
(* and the clock counts in steps short enough for a request to take some.  *)
(***************************************************************************)
EXTENDS Naturals

CONSTANTS
  Caller,      \* tool calls in github-app mode, watches in gateway mode
  Nobody,      \* the mutex is free
  Token,       \* the tokens that may ever be issued: a bound
  NoToken,     \* ""
  Margin,      \* Token renews five minutes before the expiry
  Delta,       \* ReuseTokenSource renews ten seconds before it
  Life,        \* a token lives so long at most
  MaxTime      \* bound of the clock

ASSUME TokenAssumption ==
  /\ Nobody \notin Caller /\ NoToken \notin Token
  /\ Margin \in Nat /\ Delta \in Nat \ {0} /\ Life \in Nat /\ MaxTime \in Nat

VARIABLES
  mode,        \* "github-app" or "gateway"
  boot,        \* how far ValidateInstallation is; botLogin is set in "verified"
  now,
  expiry,      \* Token -> when it expires; 0: not issued yet
  revoked,     \* the tokens GitHub has revoked
  mu, cached,  \* TokenSource: mutex; token and expiry
  broker,      \* the gateway's current token for the user
  reuse,       \* caller -> what its ReuseTokenSource keeps
  pc,          \* caller -> "idle", "asking", "answered", "holds", "rejected"
  reply,       \* caller -> the answer under way
  held,        \* caller -> the token it uses
  accepted,    \* ghost: the tokens TokenSource has ever kept
  dropped      \* ghost: those reported to it as rejected

appVars == <<boot, mu, cached, accepted, dropped>>
gatewayVars == <<broker, reuse>>
worldVars == <<mode, now, expiry, revoked>>
vars == <<appVars, gatewayVars, worldVars, pc, reply, held>>

\* oauth2 and time.Time: no token, or no expiry, is the zero value.
Empty == [token |-> NoToken, expiry |-> 0]
Issued == {t \in Token : expiry[t] # 0}

Init ==
  /\ mode \in {"github-app", "gateway"}
  /\ boot = IF mode = "github-app" THEN "app" ELSE "none"
  /\ now = 1
  /\ expiry = [t \in Token |-> 0]
  /\ revoked = {}
  /\ mu = Nobody /\ cached = Empty
  /\ broker = NoToken
  /\ reuse = [c \in Caller |-> Empty]
  /\ pc = [c \in Caller |-> "idle"]
  /\ reply = [c \in Caller |-> Empty]
  /\ held = [c \in Caller |-> NoToken]
  /\ accepted = {} /\ dropped = {}

At(c, p) == pc[c] = p
Goes(c, p) == pc' = [pc EXCEPT ![c] = p]
Gets(c, t) == Goes(c, "holds") /\ held' = [held EXCEPT ![c] = t]

-----------------------------------------------------------------------------
(* The world: time, GitHub, the gateway.                                   *)

Tick ==
  /\ now < MaxTime
  /\ now' = now + 1
  /\ UNCHANGED <<appVars, gatewayVars, mode, expiry, revoked, pc, reply, held>>

Revoke ==
  /\ \E t \in Issued \ revoked : revoked' = revoked \cup {t}
  /\ UNCHANGED <<appVars, gatewayVars, mode, now, expiry, pc, reply, held>>

\* A new token, good from now on.
NewToken(t) ==
  /\ t \notin Issued
  /\ \E e \in (now + 1)..(now + Life) : expiry' = [expiry EXCEPT ![t] = e]

\* The gateway rotates the user's token, or loses it.
Rotate ==
  /\ mode = "gateway"
  /\ \/ \E t \in Token : NewToken(t) /\ broker' = t
     \/ broker # NoToken /\ broker' = NoToken /\ UNCHANGED expiry
  /\ UNCHANGED <<appVars, reuse, mode, now, revoked, pc, reply, held>>

\* An answer names the token's expiry or leaves it out.
Says(c, t) ==
  /\ \E e \in {0, expiry'[t]} :
       reply' = [reply EXCEPT ![c] = [token |-> t, expiry |-> e]]
  /\ Goes(c, "answered")
  /\ UNCHANGED held

World == Tick \/ Revoke \/ Rotate

-----------------------------------------------------------------------------
(* TokenSource.                                                            *)

\* ValidateInstallation, before the server serves: /app, then the
\* installation; what does not fit the configuration ends the process.
ValidateInstallation ==
  /\ \/ boot = "app" /\ boot' \in {"installation", "refused"}
     \/ boot = "installation" /\ boot' \in {"verified", "refused"}
  /\ UNCHANGED <<mu, cached, accepted, dropped, gatewayVars, worldVars, pc, reply, held>>

Usable == cached.token # NoToken /\ cached.expiry > now + Margin

\* Token, all under the mutex when the cached token is good.
TokenCached(c) ==
  /\ At(c, "idle") /\ boot = "verified" /\ mu = Nobody /\ Usable
  /\ Gets(c, cached.token)
  /\ UNCHANGED <<appVars, reply>>

\* Token asks GitHub and keeps the mutex: everybody else waits.
TokenAsks(c) ==
  /\ At(c, "idle") /\ boot = "verified" /\ mu = Nobody /\ ~Usable
  /\ mu' = c
  /\ Goes(c, "asking")
  /\ UNCHANGED <<boot, cached, accepted, dropped, reply, held>>

GitHubIssues(c) ==
  /\ At(c, "asking")
  /\ \E t \in Token : NewToken(t) /\ Says(c, t)
  /\ UNCHANGED <<appVars, mode, now, revoked>>

\* No connection, a timeout, another status, or an answer that is not JSON.
TokenFails(c) ==
  /\ pc[c] \in {"asking", "answered"}
  /\ Goes(c, "idle")
  /\ mu' = Nobody
  /\ reply' = [reply EXCEPT ![c] = Empty]
  /\ UNCHANGED <<boot, cached, accepted, dropped, held>>

TokenAccepted(c) ==
  /\ At(c, "answered")
  /\ reply[c].expiry > now
  /\ cached' = reply[c]
  /\ accepted' = accepted \cup {reply[c].token}
  /\ Gets(c, reply[c].token)
  /\ mu' = Nobody
  /\ reply' = [reply EXCEPT ![c] = Empty]
  /\ UNCHANGED <<boot, dropped>>

TokenUnfit(c) ==
  /\ At(c, "answered")
  /\ ~(reply[c].expiry > now)
  /\ TokenFails(c)

\* The caller's client is refused: RoundTrip calls Invalidate with its token.
Refused(c) ==
  /\ At(c, "holds")
  /\ held[c] \in revoked \/ expiry[held[c]] <= now
  /\ Goes(c, "rejected")
  /\ UNCHANGED <<appVars, reply, held>>

\* Variants: whatever is cached is dropped; nothing is.
Remaining_VAnything(rejected) == Empty
Remaining_VKept(rejected) == cached
Remaining(rejected) == IF cached.token = rejected THEN Empty ELSE cached

Invalidate(c) ==
  /\ At(c, "rejected") /\ mu = Nobody
  /\ cached' = Remaining(held[c])
  /\ dropped' = dropped \cup {held[c]}
  /\ Goes(c, "idle")
  /\ held' = [held EXCEPT ![c] = NoToken]
  /\ UNCHANGED <<boot, mu, accepted, reply>>

\* The call is over and its client with it.
Finish(c) ==
  /\ At(c, "holds")
  /\ Goes(c, "idle")
  /\ held' = [held EXCEPT ![c] = NoToken]
  /\ UNCHANGED reply

AppStep(c) ==
  /\ mode = "github-app"
  /\ \/ TokenCached(c) \/ TokenAsks(c) \/ TokenFails(c)
     \/ TokenAccepted(c) \/ TokenUnfit(c)
     \/ Refused(c) \/ Invalidate(c)
     \/ Finish(c) /\ UNCHANGED appVars
  /\ UNCHANGED <<gatewayVars, worldVars>>

-----------------------------------------------------------------------------
(* gatewayTokenSource under oauth2.ReuseTokenSource, one for each watch.   *)

\* oauth2: a token without an expiry never expires.
Reusable(c) ==
  /\ reuse[c].token # NoToken
  /\ reuse[c].expiry = 0 \/ reuse[c].expiry >= now + Delta

Reuse(c) ==
  /\ At(c, "idle") /\ Reusable(c)
  /\ Gets(c, reuse[c].token)
  /\ UNCHANGED <<reuse, reply>>

AskGateway(c) ==
  /\ At(c, "idle") /\ ~Reusable(c)
  /\ Goes(c, "asking")
  /\ UNCHANGED <<reuse, reply, held>>

GatewayAnswers(c) ==
  /\ At(c, "asking") /\ broker # NoToken
  /\ UNCHANGED expiry
  /\ Says(c, broker)
  /\ UNCHANGED reuse

\* Every status but 200, no connection, the timeout, or the watch's end.
GatewayFails(c) ==
  /\ pc[c] \in {"asking", "answered"}
  /\ Goes(c, "idle")
  /\ reply' = [reply EXCEPT ![c] = Empty]
  /\ UNCHANGED <<reuse, held>>

\* Variant: a token without an expiry is taken.
Dated_VAny(answer) == TRUE
\* "fail closed": no expires_at, or one that cannot be read, is an error.
Dated(answer) == answer.expiry # 0

GatewayAccepted(c) ==
  /\ At(c, "answered")
  /\ Dated(reply[c])
  /\ reuse' = [reuse EXCEPT ![c] = reply[c]]
  /\ Gets(c, reply[c].token)
  /\ reply' = [reply EXCEPT ![c] = Empty]

GatewayUndated(c) ==
  /\ At(c, "answered")
  /\ ~Dated(reply[c])
  /\ GatewayFails(c)

GatewayStep(c) ==
  /\ mode = "gateway"
  /\ \/ Reuse(c) \/ AskGateway(c) \/ GatewayAnswers(c)
     \/ GatewayFails(c) \/ GatewayAccepted(c) \/ GatewayUndated(c)
     \/ Finish(c) /\ UNCHANGED reuse
  /\ UNCHANGED <<appVars, broker, worldVars>>

-----------------------------------------------------------------------------
AppIssues(c) ==
  /\ mode = "github-app"
  /\ GitHubIssues(c)
  /\ UNCHANGED gatewayVars

Next ==
  \/ World \/ ValidateInstallation
  \/ \E c \in Caller : AppStep(c) \/ AppIssues(c) \/ GatewayStep(c)

Spec == Init /\ [][Next]_vars
=============================================================================
