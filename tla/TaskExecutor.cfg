SPECIFICATION FairSpec
CONSTANTS
    c1 = c1
    c2 = c2
    w1 = w1
    w2 = w2
    w3 = w3
    NoWork = NoWork
    Clients = {c1, c2}
    Works = {w1, w2, w3}
    Rejectable <- MCRejectable
    WorkerCount = 3
    Capacity = 2
INVARIANTS
    TypeOK
    WorksAccounted
    NobodyOversleeps
PROPERTIES
    ImplementsExecutor
    PoolSettles
