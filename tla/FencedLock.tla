---------------------------- MODULE FencedLock -----------------------------
(* What the exclusive lease promises to its users: one user at a time, and   *)
(* tokens that grow in the order in which the lock is handed out.            *)
EXTENDS Integers

CONSTANTS Leases, MaxFence

VARIABLES users,  \* who is entitled to use the resource
          token   \* the fencing token each lease was given, 0 for none

Init == users = {} /\ token = [l \in Leases |-> 0]

Grant(l) ==
    /\ users = {}
    /\ token[l] = 0
    /\ users' = {l}
    /\ \E t \in 1 .. MaxFence :
          /\ \A k \in Leases : token[k] < t
          /\ token' = [token EXCEPT ![l] = t]

\* The use ends, by release, loss or expiry; the lease is never used again.
End(l) ==
    /\ users = {l}
    /\ users' = {}
    /\ token' = token

Next == \E l \in Leases : Grant(l) \/ End(l)

Spec == Init /\ [][Next]_<<users, token>>
============================================================================
