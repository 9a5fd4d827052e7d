SPECIFICATION Spec
CONSTANTS
    Kind = "light"
    Mutators = {m1}
    Fields = {f}
    WriterChanges = 2
    PendingChanges = 2
    MaxSlots = 1
    MaxSequence = 3
    MaxEpoch = 3
INVARIANTS CreatedIsShown
CHECK_DEADLOCK FALSE
