SPECIFICATION Spec
CONSTANTS
    Names = {"d", "e"}
    Capacity = 1
    KernelQueue = 2
    MaxChanges = 3
\* The tree stops changing after MaxChanges and the watcher may be stopped.
CHECK_DEADLOCK FALSE
INVARIANTS
    EveryChangeTold
