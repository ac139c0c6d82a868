CONSTANTS
    Leases = {l1, l2, l3}
    NoOwner = NoOwner
    TTL = 3
    Margin = 1
    Drift = 1
    Callers = {}
    Heartbeat <- MCHeartbeat
    Watchdogs = {}
    Overtaking = TRUE
    DataLoss = FALSE
    MaxTime = 3
    MaxFence = 3
    MaxGhosts = 1
SPECIFICATION Spec
SYMMETRY Symmetry
INVARIANT MutualExclusion
\* The bounded clock stops: no deadlock check.
CHECK_DEADLOCK FALSE
