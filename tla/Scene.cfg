SPECIFICATION SceneSpec
CONSTANTS
    MaxSlots = 3
    MaxGeneration = 3
    Mutators = {m1, m2}
    Fields = {f, g}
    WriterChanges = 2
    PendingChanges = 2
    MaxObjects = 2
    MaxSequence = 3
    MaxEpoch = 3
    InitialCapacity = 2
    WholeTenths = 6
    MaxSteps = 7
    Components = {position, velocity}
    MaxEntities = 2
    MaxAges = 2
    Cells = {x, y}
    MaxPasses = 3
\* The slots, the identifiers, the frames, the steps and the passes are bounded.
CHECK_DEADLOCK FALSE
SYMMETRY Alike
INVARIANTS
    ShowsWhatWasCommitted
    HandlesExact
    ViewVisitsAll
    GraphSound
PROPERTIES
    VersionsAdvance
