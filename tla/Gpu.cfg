SPECIFICATION GpuSpec
CONSTANTS
    Capacity = 8
    Requests <- Mixed
    MaxAllocations = 3
    MaxSubmissions = 2
    Meshes = {m}
    Textures = {t}
    Lods = 2
    QueuedBytes = 5
    QueuedRequests = 4
    BatchBytes = 2
    BatchRequests = 2
    MaxGenerations = 2
    MaxWork = 8
    FramesInFlight = 2
    MaxInFlight = 3
    MaxAborts = 1
    MaxLosses = 1
    Tickets = {t1, t2, t3}
    MaxQueued = 2
\* Each part bounds its steps; the device may be lost and the runtime shut down.
CHECK_DEADLOCK FALSE
INVARIANTS
    ResourcesAccounted
    LandedBeforeShown
PROPERTIES
    NothingReusedInFlight
    NothingGoesBack
    WaitsEnd
