\* An external and an owned backend that may claim one resource.
SPECIFICATION FairSpec
CONSTANTS
    m1 = m1
    m2 = m2
    c1 = c1
    r = r
    None = None
    Registry <- MCRegistry
    External <- MCExternal
    Resources <- MCResources
    Clients <- MCClients
    MaxCalls = 3
    MaxFaults = 2
INVARIANTS TypeOK OneWriter HeldIsTracked NoDoubleRelease SnapshotAgrees
PROPERTIES IsolationLatched MonitorTrustsNoPending CallsReturn  
CHECK_DEADLOCK FALSE
