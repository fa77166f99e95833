SPECIFICATION FairSpec
CONSTANTS
    alice = alice
    bob = bob
    carol = carol
    x = x
    y = y
    blank = blank
    v = v
    w = w
    gone = gone
    Clients = {alice, bob, carol}
    Cells = {x}
    Values = {blank, v}
    Blank = blank
    Untracked = {}
    Undoers = {}
    Workers = 1
    MaxHistory = 100
    MaxInFlight = 1
    MaxNotices = 1
    Writes <- AliceAndBob
    Refusable <- RefusesV
    MaxSends <- AliceTwice
INVARIANTS
    WatchersFollow
PROPERTIES
    Settles
\* Users may stop editing.
CHECK_DEADLOCK FALSE
