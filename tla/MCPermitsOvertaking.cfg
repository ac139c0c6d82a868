\* A copy left behind is executed after a later attempt.
CONSTANTS
    Leases = {l1, l2, l3}
    Pairs = {}
    Need <- MCNeed
    Capacity = 1
    TTL = 3
    Margin = 1
    Drift = 0
    Callers = {}
    Heartbeat <- MCHeartbeat
    Watchdogs = {}
    Overtaking = TRUE
    MaxTime = 3
    MaxGhosts = 1
SPECIFICATION Spec
SYMMETRY Symmetry
INVARIANTS CapacityKept
\* The bounded clock stops: no deadlock check.
CHECK_DEADLOCK FALSE
