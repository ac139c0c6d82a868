CONSTANTS
    Leases = {l1, l2}
    NoOwner = NoOwner
    TTL = 3
    Margin = 1
    Drift = 1
    Callers = {"heart", "user"}
    Heartbeat <- MCHeartbeat
    Watchdogs = {l1, l2}
    Overtaking = FALSE
    DataLoss = FALSE
    MaxTime = 3
    MaxFence = 2
    MaxGhosts = 0
SPECIFICATION Spec
SYMMETRY Symmetry
INVARIANTS MutualExclusion VerdictIsFinal
PROPERTY NoRevival
\* The bounded clock stops: no deadlock check.
CHECK_DEADLOCK FALSE
