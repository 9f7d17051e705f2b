\* A feed-backed group: a manual probe races a refresh.
CONSTANTS
    n1 = n1
    n2 = n2
    c1 = c1
    c2 = c2
    c3 = c3
    None = None
    Nodes <- MCNodes
    Callers <- MCCallers
    Manual = FALSE
    Faults = {"refresh"}
    MaxSets = 2
    MaxRefresh = 1
SPECIFICATION Spec
PROPERTIES OldTokenReleasesNoNewPin
SYMMETRY Symmetry
