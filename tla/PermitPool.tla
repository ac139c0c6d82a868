---------------------------- MODULE PermitPool -----------------------------
(* What the semaphore promises to its users: never more permits in use than  *)
(* its capacity, and a grant that has ended does not come back.              *)
EXTENDS Integers, FiniteSets

CONSTANTS Leases, Need, Capacity

VARIABLES users,   \* the grants in use
          granted  \* every grant ever handed out

\* Need[l] permits for each l of S.
Permits(S) == UNION {{l} \X (1 .. Need[l]) : l \in S}

Init == users = {} /\ granted = {}

Grant(l) ==
    /\ l \notin granted
    /\ Cardinality(Permits(users \cup {l})) <= Capacity
    /\ users' = users \cup {l}
    /\ granted' = granted \cup {l}

\* Some uses end, by release, loss or expiry.
End ==
    /\ users' \in SUBSET users
    /\ granted' = granted

Next == End \/ \E l \in Leases : Grant(l)

Spec == Init /\ [][Next]_<<users, granted>>
============================================================================
