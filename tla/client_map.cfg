\* Everything the server relays, on a map of up to two layers.
SPECIFICATION ClientSpec
CONSTANTS
    TileImages = {"t1"}
    QuadImages = {"q1"}
    ColorEnvs = {"c1"}
    PositionEnvs = {"p1"}
    PhysicsKinds = {"front"}
    MaxImages = 2
    MaxEnvelopes = 2
    MaxGroups = 2
    MaxLayers = 2
    MaxQuads = 1
    Smallest = 2
    Largest = 3
    BackwardMoves = FALSE
    MovesPastEnd = FALSE
    Resizes <- OneSize
    EnvEdits = FALSE
    MaxPictures = 1
    MaxSelected = 1
INVARIANTS
    SameMap
    DrawnIsMap
PROPERTIES
    ActiveKept
