\* A call is suspended before it registers.
CONSTANTS
    r1 = r1
    r2 = r2
    r3 = r3
    here = here
    there = there
    Runs = {r1, r2, r3}
    Leaders = {here, there}
    HandleOf <- MCHandleOf
    Nobody = Nobody
    Loop = TRUE
    Stalls = TRUE
    MaxToken = 3
SPECIFICATION Spec
INVARIANTS LeaderKnown
