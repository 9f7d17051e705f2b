\* Two requests at a time, three usable addresses, expiry and flushes.
CONSTANTS
    a = a
    b = b
    x1 = x1
    x2 = x2
    None = None
    Threads <- TwoThreads
    Hosts <- TwoHosts
    Size = 4
    Avoid = {2}
    Ttl = 2
    MapTtl = 1
    Mapped = {TRUE, FALSE}
    Flush = TRUE
    MaxTime = 3
    MaxCalls = 4
SPECIFICATION Spec
SYMMETRY Symmetry
INVARIANTS TypeOK 
 
CHECK_DEADLOCK FALSE
