CONSTANTS
    Leases = {l1, l2}
    NoOwner = NoOwner
    TTL = 3
    Margin = 1
    Drift = 1
    Callers = {"heart"}
    Heartbeat <- MCHeartbeat
    Watchdogs = {}
    Overtaking = FALSE
    DataLoss = FALSE
    MaxTime = 4
    MaxFence = 2
    MaxGhosts = 1
SPECIFICATION Spec
SYMMETRY Symmetry
INVARIANTS IndInv MutualExclusion NewestFence VerdictIsFinal ReleasedStaysFree
PROPERTY ImplementsFencedLock
\* The bounded clock stops: no deadlock check.
CHECK_DEADLOCK FALSE
