SPECIFICATION ManagerSpec
CONSTANTS
    owner = owner
    other = other
    a1 = a1
    a2 = a2
    r1 = r1
    r2 = r2
    None = None
    Owner = owner
    Assets = {a1}
    Requests = {r1, r2}
    Threads = {owner, other}
    Sizes = {1}
    MaxBytes = 1
    MaxWaiters = 2
    MaxPrefetch = 1
    Refusing = {"lane", "publications"}
    Batches <- NoBatch
    MaxSource = 2
    BudgetAssets = {a1, a2}
    BudgetThreads = {owner}
    BudgetSizes = {1, 2}
    BudgetBytes = 3
    BudgetPrefetch = 0
    BudgetRefusing = {}
    BudgetBatches <- Pairs
    BudgetSource = 1
\* A manager that has answered every request is at rest.
CHECK_DEADLOCK FALSE
SYMMETRY Symmetry
INVARIANTS
    ServesFresh
    WithinBounds
