\* The sliding window with a request that is executed late.
CONSTANTS
    Clients = {c1, c2}
    Algorithms = {"sliding"}
    Unit = 2
    Capacity = 4
    Rate = 2
    Amounts = {2}
    Slack = 1
    MaxLead = 0
    MaxDelay = 1
    MaxTime = 4
SPECIFICATION Spec
INVARIANTS BudgetKept
SYMMETRY Symmetry
