CONSTANTS
    Leases = {l1, l2}
    Pairs = {l1, l2}
    Need <- MCNeed
    Capacity = 2
    TTL = 3
    Margin = 1
    Drift = 1
    Callers = {"heart", "user"}
    Heartbeat <- MCHeartbeat
    Watchdogs = {l1, l2}
    Overtaking = FALSE
    MaxTime = 3
    MaxGhosts = 0
SPECIFICATION Spec
SYMMETRY Symmetry
INVARIANTS CapacityKept VerdictIsFinal ReleasedStaysFree
PROPERTY ImplementsPermitPool
\* The bounded clock stops: no deadlock check.
CHECK_DEADLOCK FALSE
