\* Takeover and the end of lost leaderships.
CONSTANTS
    r1 = r1
    r2 = r2
    r3 = r3
    here = here
    there = there
    Runs = {r1, r2, r3}
    Leaders = {here, there}
    HandleOf <- MCHandleOf
    Nobody = Nobody
    Loop = TRUE
    Stalls = FALSE
    MaxToken = 3
SPECIFICATION FairSpec
INVARIANTS LeaderInv LeaderKnown ClaimsAreFenced TakeoverSurfaces
PROPERTIES LossEndsWork NoVacancy
