CONSTANTS
    Leases = {l1, l2}
    NoOwner = NoOwner
    TTL = 3
    Margin = 1
    Drift = 1
    Callers = {"heart"}
    Heartbeat <- MCHeartbeat
    Watchdogs = {l2}
    Overtaking = TRUE
    DataLoss = TRUE
    MaxTime = 2
    MaxFence = 2
    MaxGhosts = 1
SPECIFICATION Spec
SYMMETRY Symmetry
PROPERTIES NoRevival SafeUnlock
\* The bounded clock stops: no deadlock check.
CHECK_DEADLOCK FALSE
