\* Two keys, a channel of two messages, every fault.
SPECIFICATION FairSpec
CONSTANTS
    k1 = k1
    k2 = k2
    Keys <- TwoKeys
    Capacity = 2
    Threshold = 3
    MaxAttempts = 2
    Faults = {"busy", "error", "timeout", "crash"}
    MaxOps = 4
INVARIANTS TypeOK Pipeline  ShutdownFlushes
PROPERTY AcceptedIsHandled
CHECK_DEADLOCK FALSE
