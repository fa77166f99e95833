\* Images, envelopes, groups and layers of every kind, edited, moved and deleted.
SPECIFICATION Spec
CONSTANTS
    TileImages = {t1}
    QuadImages = {q1}
    ColorEnvs = {c1}
    PositionEnvs = {p1}
    PhysicsKinds = {"front"}
    MaxImages = 2
    MaxEnvelopes = 2
    MaxGroups = 2
    MaxLayers = 3
    MaxQuads = 1
    Smallest = 2
    Largest = 3
    BackwardMoves = FALSE
    MovesPastEnd = FALSE
    Resizes <- WidthOrHeight
INVARIANTS
    RefsResolve
    PhysicsIntact
PROPERTIES
    ReferentsKept
