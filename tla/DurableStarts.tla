---------------------------- MODULE DurableStarts ----------------------------
(***************************************************************************)
(* What start_session promises a client, with no threads, hosts or tables: *)
(* a request id names at most one start, a start ends in one outcome that  *)
(* never changes, and a start that failed or was cancelled may be retried  *)
(* by one later request.                                                   *)
(***************************************************************************)
CONSTANTS Requests, None

VARIABLE promise

Outcomes == {"started", "failed", "cancelled"}

Promise == [outcome: Outcomes \cup {"unknown", "pending"},
            of: Requests \cup {None}]

Init == promise = [r \in Requests |-> [outcome |-> "unknown", of |-> None]]

\* A first start is journalled.
Submit(r) ==
    /\ promise[r].outcome = "unknown"
    /\ promise' = [promise EXCEPT ![r] = [outcome |-> "pending", of |-> None]]

\* The one retry of a start that failed or was cancelled.
Resubmit(r, source) ==
    /\ promise[r].outcome = "unknown"
    /\ promise[source].outcome \in {"failed", "cancelled"}
    /\ \A other \in Requests : promise[other].of # source
    /\ promise' = [promise EXCEPT ![r] = [outcome |-> "pending", of |-> source]]

\* The start ends.
Settle(r, outcome) ==
    /\ promise[r].outcome = "pending"
    /\ promise' = [promise EXCEPT ![r].outcome = outcome]

Next ==
    \/ \E r \in Requests : Submit(r)
    \/ \E r, source \in Requests : Resubmit(r, source)
    \/ \E r \in Requests, outcome \in Outcomes : Settle(r, outcome)

Spec == Init /\ [][Next]_promise

=============================================================================
