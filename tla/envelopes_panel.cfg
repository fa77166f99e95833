\* Up to three envelopes of three points, edited in the panel and by other users.
SPECIFICATION Spec
CONSTANTS
    MaxEnvelopes = 3
    MaxPoints = 3
    MaxCalls = 2
    MaxSteps = 3
    Times = {0, 3}
    Values <- SomeValues
    Full = 1
    Curves = {"smooth"}
    OthersPoints <- SomePoints
    AnyDelete = FALSE
    AnyRefusal = FALSE
    Crossings = FALSE
INVARIANTS
    TimesInOrder
    ShownIsStored
    CurveMeetsPoints
\* The users may stop at any time.
CHECK_DEADLOCK FALSE
