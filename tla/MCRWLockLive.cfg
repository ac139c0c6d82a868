\* Waiters that crash, give up or are canceled, and holders that crash, do not block the queue.
CONSTANTS
    Writers = {w1, w2}
    Readers = {r1}
    NoWriter = NoWriter
    TTL = 1
    Margin = 0
    MaxAhead = 0
    Backoff = 1
    MaxDelay = 0
    Faults = {"giveup", "crash", "cancel"}
SPECIFICATION FairSpec
PROPERTIES NoStarvation
