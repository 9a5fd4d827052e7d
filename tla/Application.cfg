SPECIFICATION ApplicationSpec
CONSTANTS
    hello = hello
    kitty = kitty
    None = None
    Ids = {hello, kitty}
    Startup = {hello}
    Ticking = {kitty}
    Listening = {hello, kitty}
    MaxQueued = 2
    MaxPerDrain = 1
    PackageIds = {hello}
    Versions = {v1, v2}
    Clients = {p1, p2}
    Sizes = {1, 2}
    MaxCreated = 2
    MaxFrames = 2
    MaxRecoveries = 1
    Encoders = {e1, e2}
    MaxCommands = 2
    MaxSubmits = 2
    Content = {1, 4}
    Built = {2, 3}
    Focusable = {1, 2, 3}
    Pointers = {p, q}
    MaxElements = 4
    MaxEpochs = 4
\* Surfaces, frames, submissions and elements are bounded.
CHECK_DEADLOCK FALSE
INVARIANTS
    HostConsistent
    Recoverable
    SurfacesFaithful
    CommandsRunOnce
    WatermarkTruthful
PROPERTIES
    SuccessLeavesNoStaging
    WatermarkAdvances
    InteractionFaithful
    CallsEnd
