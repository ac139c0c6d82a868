\* A writer and two readers that renew, with clocks apart, lost and late replies.
CONSTANTS
    Writers = {w1}
    Readers = {r1, r2}
    NoWriter = NoWriter
    TTL = 3
    Margin = 1
    MaxAhead = 1
    Backoff = 1
    MaxDelay = 1
    Faults = {"renewal", "reply", "giveup"}
SPECIFICATION Spec
INVARIANTS WriterExcludes GaveUpLeaves
PROPERTIES ArrivalOrder
SYMMETRY Symmetry
