---------------------------- MODULE WatchLifecycle ----------------------------
(***************************************************************************)
(* What the watch manager promises to the users of its tools: the status   *)
(* that get_copilot_review_watch_status reports of each watch, and how it  *)
(* may change.  How the status is kept, and who changes it, is left out.   *)
(***************************************************************************)
CONSTANTS Id, Key, None

Final == {"COMPLETED", "BLOCKED", "TIMEOUT", "RATE_LIMITED",
          "FAILED", "STALE", "CANCELLED"}

VARIABLES
  status,  \* what is reported of a watch; None if there is no such watch
  owner    \* the user and pull request a watch is for: at most one

Init ==
  /\ status = [i \in Id |-> None]
  /\ owner = [i \in Id |-> {}]

\* A new watch, when its user has none under way for the pull request.
Begin(i, k) ==
  /\ status[i] = None
  /\ \A j \in Id : owner[j] = {k} => status[j] # "WATCHING"
  /\ status' = [status EXCEPT ![i] = "WATCHING"]
  /\ owner' = [owner EXCEPT ![i] = {k}]

\* A watch ends, once.
End(i) ==
  /\ status[i] = "WATCHING"
  /\ \E s \in Final : status' = [status EXCEPT ![i] = s]
  /\ UNCHANGED owner

\* The server shuts down, or is restarted: nothing is under way any more.  An
\* end that could not be written is reported as FAILED until a restart, after
\* which it is only known that the watch is over.
Interrupt ==
  /\ \E forgotten \in SUBSET {i \in Id : status[i] = "FAILED"} :
       status' = [i \in Id |-> IF status[i] = "WATCHING" \/ i \in forgotten
                               THEN "STALE" ELSE status[i]]
  /\ UNCHANGED owner

Next ==
  \/ \E i \in Id, k \in Key : Begin(i, k)
  \/ \E i \in Id : End(i)
  \/ Interrupt

Spec == Init /\ [][Next]_<<status, owner>>
=============================================================================
