\* The answer to a release is lost and Unlock is called again.
CONSTANTS
    Calls = {c1, c2, o1}
    Onces = {o1}
    Nil = Nil
    Faults = {"command", "reply"}
    MaxRetries = 2
SPECIFICATION Spec
INVARIANTS NoForeignUnlock
SYMMETRY Symmetry
