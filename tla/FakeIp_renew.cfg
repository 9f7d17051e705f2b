\* One request at a time; a name is asked for again.
CONSTANTS
    a = a
    b = b
    x1 = x1
    x2 = x2
    None = None
    Threads <- OneThread
    Hosts <- TwoHosts
    Size = 3
    Avoid = {2}
    Ttl = 2
    MapTtl = 1
    Mapped = {FALSE}
    Flush = FALSE
    MaxTime = 3
    MaxCalls = 3
SPECIFICATION Spec
INVARIANT ForwardIsReversible
CHECK_DEADLOCK FALSE
