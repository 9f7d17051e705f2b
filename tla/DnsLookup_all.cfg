\* Two clients, two names with room for one, and every fault.
CONSTANTS
    c1 = c1
    c2 = c2
    k1 = k1
    k2 = k2
    g1 = g1
    g2 = g2
    None = None
    Clients <- TwoClients
    Keys <- TwoKeys
    Opts <- MixedOpts
    MaxRefresh = 2
    MaxEntries = 1
    Faults = {"cancel", "network", "reject"}
    MaxCalls = 3
    MaxTime = 2
    Grace = 1
    Threshold = 2
    Recheck = 1
    NegativeTtl = 1
SPECIFICATION FairSpec
INVARIANTS TypeOK FlagHasOneTicket FlightIsLed SizeBounded
PROPERTIES StaleNeverFails LookupsReturn TicketsReturn
CHECK_DEADLOCK FALSE
