\* The goroutines may all have finished: no deadlock check.
CONSTANTS
    Unlockers = {u1, u2}
    Valid = 2
    UserRenews = FALSE
    MaxUnlocks = 2
SPECIFICATION Spec
INVARIANT LoopJoined
PROPERTIES UnlockTerminates LoopEnds
CHECK_DEADLOCK FALSE
