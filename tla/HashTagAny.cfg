\* Every name.
CONSTANTS
    MaxLength = 3
    AnyName = TRUE
SPECIFICATION Spec
INVARIANTS OneSlot
CHECK_DEADLOCK FALSE
