\* Two writers and a reader, with crashes, waiters that give up, failed commands and late copies.
CONSTANTS
    Writers = {w1, w2}
    Readers = {r1}
    NoWriter = NoWriter
    TTL = 2
    Margin = 1
    MaxAhead = 0
    Backoff = 1
    MaxDelay = 1
    Faults = {"giveup", "command", "crash", "copy"}
SPECIFICATION Spec
INVARIANTS TypeOK WriterExcludes
PROPERTIES ArrivalOrder
SYMMETRY Symmetry
