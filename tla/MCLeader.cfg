\* Two calls on one Leader value and a third elsewhere, with a heartbeat.
CONSTANTS
    r1 = r1
    r2 = r2
    r3 = r3
    here = here
    there = there
    Runs = {r1, r2, r3}
    Leaders = {here, there}
    HandleOf <- MCHandleOf
    Nobody = Nobody
    Loop = TRUE
    Stalls = FALSE
    MaxToken = 4
SPECIFICATION Spec
INVARIANTS LeaderInv LeaderKnown ClaimsAreFenced TakeoverSurfaces
