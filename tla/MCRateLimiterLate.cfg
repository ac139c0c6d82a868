\* Requests are executed out of the order of their stamps.
CONSTANTS
    Clients = {c1, c2}
    Algorithms = {"token", "leaky", "fixed"}
    Unit = 1
    Capacity = 2
    Rate = 1
    Amounts = {1, 2}
    Slack = 1
    MaxLead = 0
    MaxDelay = 1
    MaxTime = 4
SPECIFICATION Spec
INVARIANTS BucketInv BudgetKept
SYMMETRY Symmetry
