\* Leases expire while they are held.
CONSTANTS
    Calls = {c1, c2, o1}
    Onces = {o1}
    Nil = Nil
    Faults = {"expiry"}
    MaxRetries = 2
SPECIFICATION Spec
INVARIANTS NoForeignUnlock
SYMMETRY Symmetry
