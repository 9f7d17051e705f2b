\* A rule with nocache next to the group that names fall through to.
CONSTANTS
    c1 = c1
    c2 = c2
    k1 = k1
    k2 = k2
    g1 = g1
    g2 = g2
    None = None
    Clients <- TwoClients
    Keys <- OneKey
    Opts <- RouteOpts
    MaxRefresh = 1
    MaxEntries = 2
    Faults = {}
    MaxCalls = 3
    MaxTime = 2
    Grace = 1
    Threshold = 2
    Recheck = 1
    NegativeTtl = 1
SPECIFICATION Spec
INVARIANT AnsweredByAskedGroup
CHECK_DEADLOCK FALSE
