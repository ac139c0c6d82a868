CONSTANTS
    Leases = {l1, l2, l3}
    Pairs = {l3}
    Need <- MCNeed
    Capacity = 2
    TTL = 2
    Margin = 1
    Drift = 1
    Callers = {}
    Heartbeat <- MCHeartbeat
    Watchdogs = {}
    Overtaking = FALSE
    MaxTime = 3
    MaxGhosts = 0
SPECIFICATION Spec
SYMMETRY Symmetry
INVARIANTS CapacityKept AllOrNothing
PROPERTY ImplementsPermitPool
\* The bounded clock stops: no deadlock check.
CHECK_DEADLOCK FALSE
