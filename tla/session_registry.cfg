\* Two connections that join, edit, save and leave, and create and delete maps
\* under each other; no symmetry, because liveness is checked too.
SPECIFICATION FairSpec
CONSTANTS
    a = a  b = b  r1 = r1  r2 = r2  r3 = r3
    NoRoom = NoRoom
    NoName = NoName
    Names = {a, b}
    Users = {u1, u2}
    Rooms = {r1, r2, r3}
    Initial <- InitialOne
    MaxConnections = 2
    MaxMaps = 2
    WsKinds = {"join", "leave", "edit", "save", "create", "delete", "config"}
    HttpKinds = {}
    Renames = FALSE
    LeaveByKey = FALSE
INVARIANTS
    MembershipConsistent
    BroadcastWhereEdited
PROPERTIES
    WorkKept
    ImplementsOccupancy
    ClosedIsForgotten
CHECK_DEADLOCK FALSE
