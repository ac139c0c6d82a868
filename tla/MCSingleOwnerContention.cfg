CONSTANTS
    Leases = {l1, l2, l3}
    NoOwner = NoOwner
    TTL = 3
    Margin = 1
    Drift = 1
    Callers = {}
    Heartbeat <- MCHeartbeat
    Watchdogs = {}
    Overtaking = FALSE
    DataLoss = FALSE
    MaxTime = 3
    MaxFence = 3
    MaxGhosts = 1
SPECIFICATION Spec
SYMMETRY Symmetry
INVARIANTS MutualExclusion NewestFence
PROPERTY ImplementsFencedLock
\* The bounded clock stops: no deadlock check.
CHECK_DEADLOCK FALSE
