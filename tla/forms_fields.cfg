\* Two groups or layers with an offset of two coordinates and one other field.
SPECIFICATION Spec
CONSTANTS
    Targets = {1, 2}
    PartOf <- GroupFields
    Values <- Numbers
    Low = 0
    High = 2
    Uploads = {"mine"}
    Pictures = {"theirs"}
    MaxCalls = 2
    MaxSteps = 5
    OthersParts = {"offset"}
    Refusals = FALSE
    SetsBack = FALSE
    Reselects = FALSE
    Crossings = FALSE
INVARIANTS
    
    PickedIsUploaded
\* The users may stop at any time.
CHECK_DEADLOCK FALSE
