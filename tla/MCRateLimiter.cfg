\* Requests are executed in the order of their stamps.
CONSTANTS
    Clients = {c1}
    Algorithms = {"token", "leaky", "fixed", "sliding"}
    Unit = 2
    Capacity = 4
    Rate = 2
    Amounts = {0, 1, 2, 3, 5}
    Slack = 1
    MaxLead = 0
    MaxDelay = 0
    MaxTime = 6
SPECIFICATION Spec
INVARIANTS BudgetKept DecisionIsExact RetryIsLeast
