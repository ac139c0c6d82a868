\* Three goroutines and a Once call on one Mutex; releases may fail.
CONSTANTS
    Calls = {c1, c2, c3, o1}
    Onces = {o1}
    Nil = Nil
    Faults = {"command", "reply"}
    MaxRetries = 2
SPECIFICATION Spec
INVARIANTS HolderKept ReturnedIsReleased
SYMMETRY Symmetry
