\* The retry backoff is longer than twice the TTL.
CONSTANTS
    Writers = {w1, w2}
    Readers = {r1}
    NoWriter = NoWriter
    TTL = 1
    Margin = 0
    MaxAhead = 0
    Backoff = 3
    MaxDelay = 0
    Faults = {"giveup"}
SPECIFICATION Spec
PROPERTIES ArrivalOrder
