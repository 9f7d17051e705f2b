\* A TPROXY start that cannot acquire the journal's guard.
CONSTANTS
    x1 = x1
    x2 = x2
    None = None
    Tasks <- MCTasks
    Kinds = {"tproxy"}
    Faults = {"recover"}
    MaxCalls = 2
    MaxCrashes = 0
SPECIFICATION Spec
INVARIANT StoppedReleasesMark
CHECK_DEADLOCK FALSE
