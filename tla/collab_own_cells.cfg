SPECIFICATION Spec
CONSTANTS
    alice = alice
    bob = bob
    carol = carol
    x = x
    y = y
    blank = blank
    v = v
    w = w
    gone = gone
    Clients = {alice, bob}
    Cells = {x, y}
    Values = {blank, v, w}
    Blank = blank
    Untracked = {}
    Undoers = {alice}
    Workers = 2
    MaxHistory = 2
    MaxInFlight = 2
    MaxNotices = 1
    Writes <- OwnCells
    Refusable <- NoRefusals
    MaxSends <- AliceThrice
INVARIANTS
    Converges
    AnswersInOrder
    HistoryExplains
\* Users may stop editing.
CHECK_DEADLOCK FALSE
