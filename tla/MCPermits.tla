----------------------------- MODULE MCPermits -----------------------------
EXTENDS Permits, TLC

CONSTANT Pairs  \* the leases that ask for two permits; the others ask for one

MCNeed == [l \in Leases |-> IF l \in Pairs THEN 2 ELSE 1]

CONSTANT Watchdogs  \* the leases with a watchdog; the others have a heartbeat

MCHeartbeat == [l \in Leases |-> IF l \in Watchdogs THEN "held" ELSE "renew"]

\* Used where all leases have the same background loop.
Symmetry == Permutations(Pairs) \cup Permutations(Leases \ Pairs)
============================================================================
