\* Three flows on three ports, with one port given back: the walk starts at a wrapped cursor.
CONSTANTS
    f = f
    g = g
    h = h
    c1 = c1
    c2 = c2
    None = None
    Flows <- ThreeFlows
    Conns <- OneConn
    Start = 2
    Width = 5
    Timeout = 0
    MaxTime = 0
    MaxCalls = 4
SPECIFICATION Spec
PROPERTY ExhaustedOnlyWhenFull
