\* The names the documentation describes: no closing brace, or one hash tag.
CONSTANTS
    MaxLength = 5
    AnyName = FALSE
SPECIFICATION Spec
INVARIANTS OneSlot
CHECK_DEADLOCK FALSE
