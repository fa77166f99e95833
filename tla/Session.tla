------------------------------ MODULE Session ------------------------------
(***************************************************************************)
(* The server's shared registries and the handlers that keep them in step: *)
(* which connections are registered, which room objects the table of       *)
(* rooms names, who is in which room, and whether a room holds its map in  *)
(* memory.                                                                 *)
(*                                                                         *)
(* A user's requests come from two places that the tokio runtime runs in   *)
(* parallel: the websocket task (server.rs, handle_websocket), which       *)
(* handles one message at a time, and the HTTP endpoint (router.rs,        *)
(* route_http), which finds the same user by its token.  A handler is not  *)
(* atomic: every lock it takes and releases is a step of its own here, and *)
(* what it learned under one lock is kept in the task's locals and used    *)
(* under the next.                                                         *)
(***************************************************************************)
EXTENDS Naturals, FiniteSets

CONSTANTS
    Users,          \* websocket connections; a token is drawn anew for each
    Rooms,          \* room objects (Arc<RwLock<Room>>), those created later too
    Names,          \* map names
    NoRoom,         \* None, where a room is expected
    NoName,         \* the name of a room object that was not created yet
    Initial,        \* [Rooms -> Names \cup {NoName}]: the rooms found at start-up
    MaxConnections, \* --max-connections
    MaxMaps,        \* --max-maps
    WsKinds,        \* the kinds of request websocket clients send
    HttpKinds,      \* the kinds of request sent over HTTP
    Renames,        \* TRUE when the requests that edit a configuration give it a new name
    LeaveByKey      \* TRUE when clients may leave under the table's name for the room

Kinds == {"join", "leave", "edit", "save", "config", "create", "delete"}

ASSUME SentinelAssumption == NoRoom \notin Rooms /\ NoName \notin Names
ASSUME KindAssumption == WsKinds \subseteq Kinds /\ HttpKinds \subseteq Kinds
ASSUME InitialAssumption ==
    /\ Initial \in [Rooms -> Names \cup {NoName}]
    /\ \A r, s \in Rooms : Initial[r] = Initial[s] /\ Initial[r] # NoName => r = s
ASSUME SwitchAssumption == Renames \in BOOLEAN /\ LeaveByKey \in BOOLEAN

VARIABLES
    users,      \* Server.users: the registered connections
    rooms,      \* Server.rooms: the table from map names to room objects
    name,       \* Room.config.name
    roomUsers,  \* Room.users
    map,        \* Room.map: not loaded, as on disk, or edited since
    userRoom,   \* User.inner.room
    pc,         \* what each task does next
    arg,        \* the map name a task works on
    found       \* the room object a task works on

registry == <<users, rooms, name>>
members == <<roomUsers, map, userRoom>>
locals == <<pc, arg, found>>
vars == <<users, rooms, name, roomUsers, map, userRoom, pc, arg, found>>

Channels == {"ws", "http"}
Tasks == Users \X Channels
Ws(u) == <<u, "ws">>
Http(u) == <<u, "http">>

(* Where a handler is between two of its locks. *)
Handling == {"lookup", "find", "add", "set", "take", "edit", "save", "config",
             "cast", "create", "delete"}
(* The websocket task before it serves requests and after the socket closed. *)
Opening == {"off", "counted"}
Closing == {"closing", "removed", "closed"}

TypeOK ==
    /\ users \subseteq Users
    /\ rooms \in [Names -> Rooms \cup {NoRoom}]
    /\ name \in [Rooms -> Names \cup {NoName}]
    /\ roomUsers \in [Rooms -> SUBSET Users]
    /\ map \in [Rooms -> {"unloaded", "clean", "dirty"}]
    /\ userRoom \in [Users -> Rooms \cup {NoRoom}]
    /\ pc \in [Tasks -> {"idle"} \cup Handling \cup Opening \cup Closing]
    /\ arg \in [Tasks -> Names \cup {NoName}]
    /\ found \in [Tasks -> Rooms \cup {NoRoom}]

Init ==
    /\ users = {}
    /\ name = Initial
    /\ rooms = [n \in Names |-> IF \E r \in Rooms : Initial[r] = n
                                THEN CHOOSE r \in Rooms : Initial[r] = n
                                ELSE NoRoom]
    /\ roomUsers = [r \in Rooms |-> {}]
    /\ map = [r \in Rooms |-> "unloaded"]
    /\ userRoom = [u \in Users |-> NoRoom]
    /\ pc = [t \in Tasks |-> IF t[2] = "ws" THEN "off" ELSE "idle"]
    /\ arg = [t \in Tasks |-> NoName]
    /\ found = [t \in Tasks |-> NoRoom]

-----------------------------------------------------------------------------
(* Control of a task *)

Goto(t, label) == pc' = [pc EXCEPT ![t] = label]
KeepLocals == UNCHANGED <<arg, found>>

(* The handler's answer is sent and its locals are gone. *)
Answer(t) ==
    /\ Goto(t, "idle")
    /\ arg' = [arg EXCEPT ![t] = NoName]
    /\ found' = [found EXCEPT ![t] = NoRoom]

(* A task may start handling a request of this kind: the websocket task when
   it is between two messages, an HTTP handler when the token is registered. *)
MayHandle(t, kind) ==
    /\ pc[t] = "idle"
    /\ kind \in IF t[2] = "ws" THEN WsKinds ELSE HttpKinds
    /\ t[2] = "http" => t[1] \in users

(* Mutant: the map is unloaded whoever is left. *)
RemoveUserUnloads(r, u) ==
    /\ roomUsers' = [roomUsers EXCEPT ![r] = @ \ {u}]
    /\ map' = [map EXCEPT ![r] = "unloaded"]

(* Mutant: the map stays in memory. *)
RemoveUserKeeps(r, u) ==
    /\ roomUsers' = [roomUsers EXCEPT ![r] = @ \ {u}]
    /\ map' = map

(* Room::remove_user: the last user to go takes the map out of memory. *)
RemoveUser(r, u) ==
    /\ roomUsers' = [roomUsers EXCEPT ![r] = @ \ {u}]
    /\ map' = [map EXCEPT ![r] = IF roomUsers[r] \subseteq {u} THEN "unloaded" ELSE @]

MapCount == Cardinality({n \in Names : rooms[n] # NoRoom})

-----------------------------------------------------------------------------
(* Connections: handle_websocket *)

(* The number of users is read under one lock ... *)
Accept(u) ==
    /\ pc[Ws(u)] = "off"
    /\ Goto(Ws(u), IF Cardinality(users) >= MaxConnections THEN "closed" ELSE "counted")
    /\ KeepLocals /\ UNCHANGED registry /\ UNCHANGED members

(* ... and the new user is inserted under the next. *)
Register(u) ==
    /\ pc[Ws(u)] = "counted"
    /\ users' = users \cup {u}
    /\ Goto(Ws(u), "idle")
    /\ KeepLocals /\ UNCHANGED <<rooms, name>> /\ UNCHANGED members

(* The socket closes between two messages: sender or receiver completed. *)
Disconnect(u) ==
    /\ pc[Ws(u)] = "idle"
    /\ Goto(Ws(u), "closing")
    /\ KeepLocals /\ UNCHANGED registry /\ UNCHANGED members

(* Mutant: a closed connection stays in its room. *)
CloseRemoveForgotten(u) ==
    /\ pc[Ws(u)] = "closing"
    /\ Goto(Ws(u), "removed")
    /\ KeepLocals /\ UNCHANGED registry /\ UNCHANGED members

(* The user is taken out of its room; User.inner.room keeps its value. *)
CloseRemove(u) ==
    /\ pc[Ws(u)] = "closing"
    /\ IF userRoom[u] # NoRoom
       THEN RemoveUser(userRoom[u], u)
       ELSE UNCHANGED <<roomUsers, map>>
    /\ Goto(Ws(u), "removed")
    /\ KeepLocals /\ UNCHANGED userRoom /\ UNCHANGED registry

(* users().retain: drops this token and every other closed connection. *)
Unregister(u) ==
    /\ pc[Ws(u)] = "removed"
    /\ users' = {v \in users \ {u} : pc[Ws(v)] \notin Closing}
    /\ Goto(Ws(u), "closed")
    /\ KeepLocals /\ UNCHANGED <<rooms, name>> /\ UNCHANGED members

-----------------------------------------------------------------------------
(* user_join *)

BeginJoin(t, n) ==
    /\ MayHandle(t, "join")
    /\ userRoom[t[1]] = NoRoom      \* else AlreadyJoined, and nothing changes
    /\ Goto(t, "lookup")
    /\ arg' = [arg EXCEPT ![t] = n]
    /\ UNCHANGED found /\ UNCHANGED registry /\ UNCHANGED members

(* The password hash is read from the room found under the name; the request
   fails when there is none or when the password does not verify. *)
JoinVerify(t) ==
    /\ pc[t] = "lookup"
    /\ \/ Answer(t)
       \/ rooms[arg[t]] # NoRoom /\ Goto(t, "find") /\ KeepLocals
    /\ UNCHANGED registry /\ UNCHANGED members

(* The name is looked up again: bcrypt ran without a lock. *)
JoinFind(t) ==
    /\ pc[t] = "find"
    /\ IF rooms[arg[t]] = NoRoom
       THEN Answer(t)
       ELSE /\ found' = [found EXCEPT ![t] = rooms[arg[t]]]
            /\ Goto(t, "add")
            /\ UNCHANGED arg
    /\ UNCHANGED registry /\ UNCHANGED members

JoinAdd(t) ==
    /\ pc[t] = "add"
    /\ roomUsers' = [roomUsers EXCEPT ![found[t]] = @ \cup {t[1]}]
    /\ Goto(t, "set")
    /\ KeepLocals /\ UNCHANGED <<map, userRoom>> /\ UNCHANGED registry

JoinSet(t) ==
    /\ pc[t] = "set"
    /\ userRoom' = [userRoom EXCEPT ![t[1]] = found[t]]
    /\ Answer(t)
    /\ UNCHANGED <<roomUsers, map>> /\ UNCHANGED registry

-----------------------------------------------------------------------------
(* user_leave *)

(* Mutant: the room to leave is looked up in the table. *)
LeaveRemoveByTable(t, n) ==
    /\ MayHandle(t, "leave")
    /\ userRoom[t[1]] # NoRoom => n = name[userRoom[t[1]]]
    /\ IF userRoom[t[1]] # NoRoom /\ rooms[n] = userRoom[t[1]]
       THEN RemoveUser(userRoom[t[1]], t[1])
       ELSE UNCHANGED <<roomUsers, map>>
    /\ Goto(t, "take")
    /\ KeepLocals /\ UNCHANGED userRoom /\ UNCHANGED registry

(* Under the room's write lock the user is removed if the room bears the name
   it asked to leave.  Clients send the name in the map's configuration; the
   editor page sends, when it is left, the name it was opened with, which is
   the table's. *)
LeaveRemove(t, n) ==
    LET u == t[1]
        r == userRoom[u]
    IN  /\ MayHandle(t, "leave")
        /\ r # NoRoom => n = name[r] \/ (LeaveByKey /\ rooms[n] = r)
        /\ IF r # NoRoom /\ name[r] = n
           THEN RemoveUser(r, u)
           ELSE UNCHANGED <<roomUsers, map>>
        /\ Goto(t, "take")
        /\ KeepLocals /\ UNCHANGED userRoom /\ UNCHANGED registry

(* inner.room.take(), whatever the outcome was. *)
LeaveTake(t) ==
    /\ pc[t] = "take"
    /\ userRoom' = [userRoom EXCEPT ![t[1]] = NoRoom]
    /\ Answer(t)
    /\ UNCHANGED <<roomUsers, map>> /\ UNCHANGED registry

-----------------------------------------------------------------------------
(* Requests on the user's own map: do_request reads the NAME of the user's
   room and drops the lock; the handler then looks the name up in the table. *)

(* Mutant: the map to work on is named by the request. *)
BeginOnAnyMap(t, kind) ==
    /\ kind \in {"edit", "save", "config"}
    /\ MayHandle(t, kind)
    /\ userRoom[t[1]] # NoRoom
    /\ Goto(t, kind)
    /\ \E n \in Names : arg' = [arg EXCEPT ![t] = n]
    /\ UNCHANGED found /\ UNCHANGED registry /\ UNCHANGED members

BeginOnOwnMap(t, kind) ==
    /\ kind \in {"edit", "save", "config"}
    /\ MayHandle(t, kind)
    /\ userRoom[t[1]] # NoRoom      \* else MapNotFound
    /\ Goto(t, kind)
    /\ arg' = [arg EXCEPT ![t] = name[userRoom[t[1]]]]
    /\ UNCHANGED found /\ UNCHANGED registry /\ UNCHANGED members

NotFound(t, label) ==
    /\ pc[t] = label
    /\ rooms[arg[t]] = NoRoom
    /\ Answer(t)
    /\ UNCHANGED registry /\ UNCHANGED members

Loaded(r) == IF map[r] = "unloaded" THEN "clean" ELSE map[r]

(* An edit loads the map if need be, and is accepted or refused. *)
EditMap(t) ==
    LET r == rooms[arg[t]]
    IN  /\ pc[t] = "edit"
        /\ r # NoRoom
        /\ \/ /\ map' = [map EXCEPT ![r] = "dirty"]
              /\ found' = [found EXCEPT ![t] = r]
              /\ Goto(t, "cast")
              /\ UNCHANGED arg
           \/ /\ map' = [map EXCEPT ![r] = Loaded(r)]
              /\ Answer(t)
        /\ UNCHANGED <<roomUsers, userRoom>> /\ UNCHANGED registry

(* do_broadcast sends the accepted edit to the user's room of this moment. *)
BroadcastEdit(t) ==
    /\ pc[t] = "cast"
    /\ Answer(t)
    /\ UNCHANGED registry /\ UNCHANGED members

(* save_map writes the loaded map, unless it is too big. *)
SaveMap(t) ==
    LET r == rooms[arg[t]]
    IN  /\ pc[t] = "save"
        /\ r # NoRoom
        /\ map' \in {[map EXCEPT ![r] = "clean"], [map EXCEPT ![r] = Loaded(r)]}
        /\ Answer(t)
        /\ UNCHANGED <<roomUsers, userRoom>> /\ UNCHANGED registry

(* edit_config renames the room; the table keeps the old key. *)
EditConfig(t, n) ==
    LET r == rooms[arg[t]]
    IN  /\ pc[t] = "config"
        /\ r # NoRoom
        /\ Renames \/ n = name[r]
        /\ name' = [name EXCEPT ![r] = n]
        /\ Answer(t)
        /\ UNCHANGED <<users, rooms>> /\ UNCHANGED members

-----------------------------------------------------------------------------
(* create_map and delete_map, as far as the registries go *)

(* Name and count are checked, and a room object is made, with no lock held
   from here to the insertion. *)
CreateCheck(t, n, r) ==
    /\ MayHandle(t, "create")
    /\ rooms[n] = NoRoom            \* else MapNameTaken
    /\ MapCount < MaxMaps           \* else MaxMaps
    /\ name[r] = NoName             \* a new object
    /\ name' = [name EXCEPT ![r] = n]
    /\ arg' = [arg EXCEPT ![t] = n]
    /\ found' = [found EXCEPT ![t] = r]
    /\ Goto(t, "create")
    /\ UNCHANGED <<users, rooms>> /\ UNCHANGED members

(* The name is checked again under the lock that inserts the room; writing the
   files may have failed before. *)
CreateInsert(t) ==
    /\ pc[t] = "create"
    /\ \/ UNCHANGED rooms
       \/ rooms[arg[t]] = NoRoom /\ rooms' = [rooms EXCEPT ![arg[t]] = found[t]]
    /\ Answer(t)
    /\ UNCHANGED <<users, name>> /\ UNCHANGED members

DeleteLookup(t, n) ==
    /\ MayHandle(t, "delete")
    /\ rooms[n] # NoRoom
    /\ arg' = [arg EXCEPT ![t] = n]
    /\ found' = [found EXCEPT ![t] = rooms[n]]
    /\ Goto(t, "delete")
    /\ UNCHANGED registry /\ UNCHANGED members

(* The entry is removed by name, whichever room it names by now. *)
DeleteRemove(t) ==
    /\ pc[t] = "delete"
    /\ rooms' = [rooms EXCEPT ![arg[t]] = NoRoom]
    /\ Answer(t)
    /\ UNCHANGED <<users, name>> /\ UNCHANGED members

-----------------------------------------------------------------------------
(* A step of a handler that has started. *)
Continue(t) ==
    \/ JoinVerify(t) \/ JoinFind(t) \/ JoinAdd(t) \/ JoinSet(t)
    \/ LeaveTake(t)
    \/ \E label \in {"edit", "save", "config"} : NotFound(t, label)
    \/ EditMap(t) \/ BroadcastEdit(t) \/ SaveMap(t)
    \/ \E n \in Names : EditConfig(t, n)
    \/ CreateInsert(t) \/ DeleteRemove(t)

(* A request arrives. *)
Request(t) ==
    \/ \E n \in Names : BeginJoin(t, n) \/ LeaveRemove(t, n) \/ DeleteLookup(t, n)
    \/ \E n \in Names, r \in Rooms : CreateCheck(t, n, r)
    \/ \E kind \in Kinds : BeginOnOwnMap(t, kind)

Cleanup(u) == CloseRemove(u) \/ Unregister(u)

Next ==
    \/ \E u \in Users : Accept(u) \/ Register(u) \/ Disconnect(u) \/ Cleanup(u)
    \/ \E t \in Tasks : Request(t) \/ Continue(t)

Spec == Init /\ [][Next]_vars

(* A handler is synchronous code and its task stays runnable until it ends;
   so does the clean-up after a closed socket.  Requests and disconnections
   are up to the clients. *)
Fairness ==
    /\ \A t \in Tasks : WF_vars(Continue(t))
    /\ \A u \in Users : WF_vars(Register(u)) /\ WF_vars(Cleanup(u))

FairSpec == Spec /\ Fairness

-----------------------------------------------------------------------------
(* Properties *)

(* A room object that can be reached, from the table, a user or a handler, has
   a name; a handler past the look-up of its request knows the map's name.
   With TypeOK this is inductive. *)
ReachedRoomsNamed ==
    /\ \A n \in Names : rooms[n] # NoRoom => name[rooms[n]] \in Names
    /\ \A u \in Users : userRoom[u] # NoRoom => name[userRoom[u]] \in Names
    /\ \A t \in Tasks : found[t] # NoRoom => name[found[t]] \in Names
    /\ \A t \in Tasks :
         pc[t] \in Handling \ {"add", "set", "take", "cast"} => arg[t] \in Names

(* No request that changes membership comes in by HTTP: the clients join and
   leave over the websocket only. *)
MembershipOverWs == HttpKinds \cap {"join", "leave"} = {}

(* The two halves of a membership, Room.users and User.inner.room, agree
   between two messages of the user's connection; in between they disagree in
   exactly the windows user_join and user_leave open, and a connection that
   is not served, not yet or no longer, is in no room.  A user left behind in
   a room nobody will take it out of again breaks this: the room then counts
   it forever and never unloads its map. *)
MembershipOf(u) ==
    LET p == pc[Ws(u)]
    IN  /\ p \in Opening \cup {"lookup", "find", "add"} => userRoom[u] = NoRoom
        /\ p \in {"lookup", "find", "add"} =>
             \A r \in Rooms : u \notin roomUsers[r]
        /\ p \in Opening \cup {"take", "removed", "closed"} =>
             \A r \in Rooms : u \notin roomUsers[r]
        /\ p = "set" =>
             /\ userRoom[u] = NoRoom
             /\ \A r \in Rooms : u \in roomUsers[r] <=> r = found[Ws(u)]
        /\ p \notin Opening \cup {"lookup", "find", "add", "set", "take", "removed", "closed"} =>
             \A r \in Rooms : u \in roomUsers[r] <=> r = userRoom[u]

MembershipConsistent == \A u \in Users : MembershipOf(u)

(* An HTTP handler never changes who is where. *)
HttpKeepsOut ==
    \A u \in Users :
        pc[Http(u)] \notin {"lookup", "find", "add", "set", "take"} \cup Opening \cup Closing

(* A user is a member of one room at most, whatever its tasks interleave. *)
OneRoom ==
    \A u \in Users : \A r, s \in Rooms :
        u \in roomUsers[r] /\ u \in roomUsers[s] => r = s

(* Work is only lost with an audience of none: a step that takes an edited
   map out of memory leaves no connected user that sits in the room. *)
Sits(u, r) == userRoom[u] = r /\ pc[Ws(u)] \notin Closing \cup {"take"}

WorkKept ==
    [][\A r \in Rooms : map[r] = "dirty" /\ map'[r] = "unloaded" =>
           \A u \in Users : ~ Sits(u, r)']_vars

(* The accepted edit is broadcast in the room whose map it changed, although
   one is found by name and the other through the user, unless the user's room
   is no longer in the table: then its name may lead to a newer map. *)
BroadcastWhereEdited ==
    \A t \in Tasks :
        pc[t] = "cast" /\ (\E n \in Names : rooms[n] = userRoom[t[1]]) =>
            userRoom[t[1]] = found[t]

(* The handlers keep what the server promises of requests that are done at
   once: a user is in a room from the step that puts it on the room's list to
   the one that takes it off, however the handlers of others come in between. *)
Present == {u \in Users : pc[Ws(u)] \notin Opening \cup {"removed", "closed"}}
Place == [u \in Users |-> IF \E r \in Rooms : u \in roomUsers[r]
                          THEN CHOOSE r \in Rooms : u \in roomUsers[r]
                          ELSE NoRoom]
Promise == INSTANCE Occupancy WITH present <- Present, place <- Place, memory <- map
ImplementsOccupancy == Promise!Spec

(* A connection that closed is eventually in no room and not registered. *)
ClosedIsForgotten ==
    \A u \in Users :
        pc[Ws(u)] = "closing" ~>
            u \notin users /\ \A r \in Rooms : u \notin roomUsers[r]

(* server.rs logs that the user left the map when user_leave ends; the user
   is then in no room. *)
LeftMeansGone ==
    [][\A t \in Tasks : pc[t] = "take" /\ pc'[t] = "idle" =>
           \A r \in Rooms : t[1] \notin roomUsers'[r]]_vars
=============================================================================
