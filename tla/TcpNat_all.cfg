\* Two flows, two connections and the purge, on two ports that the cursor goes round.
CONSTANTS
    f = f
    g = g
    h = h
    c1 = c1
    c2 = c2
    None = None
    Flows <- TwoFlows
    Conns <- TwoConns
    Start = 1
    Width = 3
    Timeout = 0
    MaxTime = 2
    MaxCalls = 5
SPECIFICATION Spec
SYMMETRY Symmetry
INVARIANTS TypeOK NoCrossTalk NoneLeftBehind
