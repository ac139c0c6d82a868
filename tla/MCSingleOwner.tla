--------------------------- MODULE MCSingleOwner ---------------------------
EXTENDS SingleOwner, TLC

CONSTANT Watchdogs  \* the leases with a watchdog; the others have a heartbeat

MCHeartbeat == [l \in Leases |-> IF l \in Watchdogs THEN "held" ELSE "renew"]

Symmetry == Permutations(Watchdogs) \cup Permutations(Leases \ Watchdogs)
============================================================================
