\* The goroutines may all have finished: no deadlock check.
CONSTANTS
    Unlockers = {u1}
    Valid = 1
    UserRenews = FALSE
    MaxUnlocks = 1
SPECIFICATION SafetySpec
INVARIANT ReportedOnce
CHECK_DEADLOCK FALSE
