\* A context ends during an attempt.
CONSTANTS
    Writers = {w1, w2}
    Readers = {}
    NoWriter = NoWriter
    TTL = 2
    Margin = 1
    MaxAhead = 0
    Backoff = 1
    MaxDelay = 1
    Faults = {"cancel"}
SPECIFICATION Spec
INVARIANTS GaveUpLeaves
