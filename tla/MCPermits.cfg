CONSTANTS
    Leases = {l1, l2}
    Pairs = {l2}
    Need <- MCNeed
    Capacity = 2
    TTL = 3
    Margin = 1
    Drift = 1
    Callers = {"heart"}
    Heartbeat <- MCHeartbeat
    Watchdogs = {l1}
    Overtaking = FALSE
    MaxTime = 5
    MaxGhosts = 1
SPECIFICATION Spec
INVARIANTS IndInv CapacityKept AvailableIsFree AllOrNothing VerdictIsFinal
PROPERTY ImplementsPermitPool
\* The bounded clock stops: no deadlock check.
CHECK_DEADLOCK FALSE
