\* A command of Dequeue fails.
CONSTANTS
    Writers = {w1, w2}
    Readers = {}
    NoWriter = NoWriter
    TTL = 1
    Margin = 0
    MaxAhead = 0
    Backoff = 1
    MaxDelay = 0
    Faults = {"giveup", "command"}
SPECIFICATION FairSpec
PROPERTIES NoStarvation
