SPECIFICATION AssetsSpec
CONSTANTS
    mesh = mesh
    texture = texture
    None = None
    Ids = {mesh, texture}
    Contents = {c1, c2}
    Loaders = {l1, l2}
    MaxPushes = 1
    MaxEpoch = 2
    Nodes = {n1, n2, n3, n4}
    Processes = {p1, p2}
    MaxFaults = 2
    owner = owner
    a1 = a1
    r1 = r1
    r2 = r2
    Requests = {r1, r2}
    Names = {"d", "e"}
    Capacity = 1
    KernelQueue = 2
    MaxChanges = 3
\* A manager that has answered every request and a watcher that was stopped are
\* at rest.
CHECK_DEADLOCK FALSE
INVARIANTS
    ReadyIsCurrent
    AnsweredIsKept
    GraphExact
    NothingMissed
PROPERTIES
    TableFaithful
    AssetWorkEnds
