SPECIFICATION QueueSpec
CONSTANTS
    main = main
    other = other
    w1 = w1
    w2 = w2
    w3 = w3
    NoWork = NoWork
    Threads = {main, other}
    Works = {w1, w2, w3}
    Rejectable = {w1, w2}
    Capacity = 2
    Limits = {0, 1, 3}
    MaxDepth = 2
    t1 = t1
    FutureWorkers = {t1}
    FutureCapacity = 1
    MaxFutures = 3
\* A stopped executor with nothing left to settle is at rest.
CHECK_DEADLOCK FALSE
INVARIANTS
    TypeOK
    WorksAccounted
    FuturesFaithful
PROPERTIES
    ImplementsExecutor
    EverythingSettles
