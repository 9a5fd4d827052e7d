SPECIFICATION AlgorithmsSpec
CONSTANTS
    SizeMax = 15
    Calls <- Fitting
    Capacity = 2
    f1 = f1
    f2 = f2
    N = 3
    Futures = {f1, f2}
    NoFuture = NoFuture
    Caller = Caller
\* A call ends: nothing is left to do once its output is set.
CHECK_DEADLOCK FALSE
INVARIANTS
    LoopFaithful
    CompletesTruthfully
PROPERTIES
    OutputsSettle
