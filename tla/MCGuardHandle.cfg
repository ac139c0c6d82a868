\* Calls to Redis may hang; the user renews beside the loop.
CONSTANTS
    Unlockers = {u1}
    Valid = 2
    UserRenews = TRUE
    MaxUnlocks = 1
SPECIFICATION HangingSpec
INVARIANTS GuardInv NoTimerLeft
PROPERTIES DeadlineIsFinal LossHasCause ExpirySignalled
