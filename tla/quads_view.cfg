\* Up to three quads, dragged and edited, two requests on their way.
SPECIFICATION Spec
CONSTANTS
    MaxQuads = 3
    MaxCalls = 2
    MaxSteps = 4
    IndexRange = 16
    Full = 1
    Width = 1
    Grips <- SomeGrips
    Moves <- SomeMoves
    Typed <- SomeTyped
    InitialQuads <- TwoQuads
    OthersQuads <- SomeQuads
    EnvPoints <- SomePoints
    Disturbed = FALSE
    AnyRefusal = FALSE
    Outside = FALSE
    Unsets = FALSE
INVARIANTS
    DragFromStart
    SameQuads
    DrawnIsMap
\* The users may stop at any time.
CHECK_DEADLOCK FALSE
