\* Two callers, every engine and every fault.
CONSTANTS
    x1 = x1
    x2 = x2
    None = None
    Tasks <- MCTasks
    Kinds = {"tun", "tproxy", "redirect"}
    Faults = {"bind", "recover", "engine", "stop", "revert", "sweep", "cancel", "noruntime", "crash"}
    MaxCalls = 3
    MaxCrashes = 1
SPECIFICATION FairSpec
INVARIANTS TypeOK SingleOwner ProtectedWhileCapturing   StoppedIsClean
PROPERTIES ContractSpec CallsReturn
CHECK_DEADLOCK FALSE
