CONSTANTS
    Leases = {l1, l2}
    Pairs = {l1, l2}
    Need <- MCNeed
    Capacity = 2
    TTL = 3
    Margin = 1
    Drift = 1
    Callers = {"heart", "user"}
    Heartbeat <- MCHeartbeat
    Watchdogs = {}
    Overtaking = FALSE
    MaxTime = 5
    MaxGhosts = 0
SPECIFICATION Spec
SYMMETRY Symmetry
INVARIANT CapacityKept
\* The bounded clock stops: no deadlock check.
CHECK_DEADLOCK FALSE
