\* Two requests at a time, every fault, one feed refresh per process.  One node is
\* enough: every choice of it is told apart by its id.
CONSTANTS
    n1 = n1
    n2 = n2
    c1 = c1
    c2 = c2
    c3 = c3
    None = None
    Nodes <- MCOneNode
    Callers <- MCTwoCallers
    Manual = FALSE
    Faults = {"error", "crash", "cancel", "refresh"}
    MaxSets = 2
    MaxRefresh = 1
SPECIFICATION FairSpec
INVARIANTS TypeOK 
PROPERTIES StaleProbeKeepsNewerPin RequestsReturn
