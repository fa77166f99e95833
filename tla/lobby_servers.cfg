\* Two tabs; the default server, two the user may add, and a bridge.
SPECIFICATION Spec
CONSTANTS
    Tabs = {t1, t2}
    Default = default
    Added = {s1, s2}
    Bridge = bridge
    MaxQueries = 3
    MaxSteps = 9
    Crossing = FALSE
    Hasty = FALSE
    Renumbers = FALSE
    Returns = FALSE
    Phantoms = FALSE
    Breaks = FALSE
SYMMETRY Symmetry
INVARIANTS
    ListedIsStored
    JoinsTheRightServer
    UploadAllOrNothing
\* The user may stop at any time.
CHECK_DEADLOCK FALSE
