\* Neither heartbeat nor watchdog.
CONSTANTS
    r1 = r1
    r2 = r2
    r3 = r3
    here = here
    there = there
    Runs = {r1, r2, r3}
    Leaders = {here, there}
    HandleOf <- MCHandleOf
    Nobody = Nobody
    Loop = FALSE
    Stalls = FALSE
    MaxToken = 3
SPECIFICATION Spec
INVARIANTS TakeoverReported
