\* A tiles layer, two physics layers and a quads layer under one brush.
SPECIFICATION Spec
CONSTANTS
    InitialLayers <- Group
    Positions <- Corners
    Picks <- TilePicks
    Settings <- BrushSettings
    Moves <- SameKindMoves
    MaxStrokes = 1
    MaxChanges = 4
INVARIANTS
    BrushTurned
    StrokesFit
    LineIsDrawn
    OutlineIsBrush
\* The bounds on strokes and changes end every behaviour.
CHECK_DEADLOCK FALSE
