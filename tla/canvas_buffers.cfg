\* A layer of one or two chunks of two tiles in each direction.
SPECIFICATION Spec
CONSTANTS
    Images = {i1, i2}
    PlainTiles <- Plain
    NumberedTiles <- Numbered
    ChunkSize = 2
    Smallest = 2
    Largest = 3
    ViewBoxes <- SomeViews
    EarlyEdits = FALSE
INVARIANTS
    DrawnIsCurrent
    NumbersRead
    NoTileLeftOut
PROPERTIES
    ResizeKeepsTiles
    EventuallyDrawn
