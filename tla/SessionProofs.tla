--------------------------- MODULE SessionProofs ---------------------------
(* Proofs about Session, for any number of users, rooms and names. *)
EXTENDS Session, TLAPS

Typed == TypeOK /\ ReachedRoomsNamed

(* The rooms of the initial table are rooms, under their own names. *)
LEMMA InitTyped == Init => Typed
<1> SUFFICES ASSUME Init PROVE Typed
    OBVIOUS
<1>1. \A n \in Names : rooms[n] # NoRoom => rooms[n] \in Rooms /\ name[rooms[n]] = n
    BY InitialAssumption DEF Init
<1>2. rooms \in [Names -> Rooms \cup {NoRoom}]
    BY <1>1 DEF Init
<1>3. TypeOK
    BY <1>2, InitialAssumption DEF Init, TypeOK, Tasks, Channels, Opening
<1>4. ReachedRoomsNamed
    BY <1>1 DEF Init, ReachedRoomsNamed, Handling
<1> QED
    BY <1>3, <1>4 DEF Typed

(* Answering ends a request and keeps the locals well typed. *)
LEMMA AnswerTyped ==
    ASSUME NEW t \in Tasks, Typed, Answer(t)
    PROVE  /\ pc' \in [Tasks -> {"idle"} \cup Handling \cup Opening \cup Closing]
           /\ arg' \in [Tasks -> Names \cup {NoName}]
           /\ found' \in [Tasks -> Rooms \cup {NoRoom}]
           /\ \A s \in Tasks : s # t =>
                pc'[s] = pc[s] /\ arg'[s] = arg[s] /\ found'[s] = found[s]
           /\ pc'[t] = "idle" /\ found'[t] = NoRoom
BY DEF Answer, Goto, Typed, TypeOK

LEMMA ConnectionTyped ==
    ASSUME NEW u \in Users, Typed,
           Accept(u) \/ Register(u) \/ Disconnect(u) \/ Cleanup(u)
    PROVE  Typed'
<1> USE DEF registry, members, KeepLocals, Goto
<1>0. Ws(u) \in Tasks
    BY DEF Ws, Tasks, Channels
<1>1. CASE Accept(u)
    BY <1>0, <1>1 DEF Accept, Typed, TypeOK, ReachedRoomsNamed, Opening, Closing, Handling
<1>2. CASE Register(u)
    BY <1>0, <1>2 DEF Register, Typed, TypeOK, ReachedRoomsNamed, Handling
<1>3. CASE Disconnect(u)
    BY <1>0, <1>3 DEF Disconnect, Typed, TypeOK, ReachedRoomsNamed, Closing, Handling
<1>4. CASE CloseRemove(u)
    <2>1. roomUsers' \in [Rooms -> SUBSET Users] /\ map' \in [Rooms -> {"unloaded", "clean", "dirty"}]
        BY <1>4 DEF CloseRemove, RemoveUser, Typed, TypeOK
    <2> QED
        BY <1>0, <1>4, <2>1 DEF CloseRemove, Typed, TypeOK, ReachedRoomsNamed, Closing, Handling
<1>5. CASE Unregister(u)
    BY <1>0, <1>5 DEF Unregister, Typed, TypeOK, ReachedRoomsNamed, Closing, Handling
<1> QED
    BY <1>1, <1>2, <1>3, <1>4, <1>5 DEF Cleanup

LEMMA JoinTyped ==
    ASSUME NEW t \in Tasks, Typed,
           \/ \E n \in Names : BeginJoin(t, n)
           \/ JoinVerify(t) \/ JoinFind(t) \/ JoinAdd(t) \/ JoinSet(t)
    PROVE  Typed'
<1> USE DEF registry, members, KeepLocals, Goto
<1>0. t[1] \in Users
    BY DEF Tasks
<1>1. ASSUME NEW n \in Names, BeginJoin(t, n)
      PROVE  Typed'
    BY <1>1 DEF BeginJoin, Typed, TypeOK, ReachedRoomsNamed, Handling
<1>2. CASE JoinVerify(t)
    <2>1. CASE Answer(t)
        BY <1>2, <2>1, AnswerTyped DEF JoinVerify, Typed, TypeOK, ReachedRoomsNamed, Handling
    <2>2. CASE rooms[arg[t]] # NoRoom /\ Goto(t, "find") /\ KeepLocals
        BY <1>2, <2>2 DEF JoinVerify, Typed, TypeOK, ReachedRoomsNamed, Handling
    <2> QED
        BY <1>2, <2>1, <2>2 DEF JoinVerify
<1>3. CASE JoinFind(t)
    <2>1. CASE rooms[arg[t]] = NoRoom
        BY <1>3, <2>1, AnswerTyped DEF JoinFind, Typed, TypeOK, ReachedRoomsNamed, Handling
    <2>2. CASE rooms[arg[t]] # NoRoom
        <3>1. arg[t] \in Names
            BY <1>3 DEF JoinFind, Typed, ReachedRoomsNamed, Handling
        <3> QED
            BY <1>3, <2>2, <3>1 DEF JoinFind, Typed, TypeOK, ReachedRoomsNamed, Handling
    <2> QED
        BY <2>1, <2>2
<1>4. CASE JoinAdd(t)
    BY <1>0, <1>4 DEF JoinAdd, Typed, TypeOK, ReachedRoomsNamed, Handling
<1>5. CASE JoinSet(t)
    BY <1>0, <1>5, AnswerTyped DEF JoinSet, Typed, TypeOK, ReachedRoomsNamed, Handling
<1> QED
    BY <1>1, <1>2, <1>3, <1>4, <1>5

LEMMA LeaveTyped ==
    ASSUME NEW t \in Tasks, Typed,
           (\E n \in Names : LeaveRemove(t, n)) \/ LeaveTake(t)
    PROVE  Typed'
<1> USE DEF registry, members, KeepLocals, Goto
<1>0. t[1] \in Users
    BY DEF Tasks
<1>1. ASSUME NEW n \in Names, LeaveRemove(t, n)
      PROVE  Typed'
    <2>1. /\ roomUsers' \in [Rooms -> SUBSET Users]
          /\ map' \in [Rooms -> {"unloaded", "clean", "dirty"}]
        BY <1>1 DEF LeaveRemove, RemoveUser, Typed, TypeOK
    <2> QED
        BY <1>1, <2>1 DEF LeaveRemove, Typed, TypeOK, ReachedRoomsNamed, Handling
<1>2. CASE LeaveTake(t)
    BY <1>0, <1>2, AnswerTyped DEF LeaveTake, Typed, TypeOK, ReachedRoomsNamed, Handling
<1> QED
    BY <1>1, <1>2

LEMMA OwnMapTyped ==
    ASSUME NEW t \in Tasks, Typed,
           \/ \E kind \in Kinds : BeginOnOwnMap(t, kind)
           \/ \E label \in {"edit", "save", "config"} : NotFound(t, label)
           \/ EditMap(t) \/ BroadcastEdit(t) \/ SaveMap(t)
           \/ \E n \in Names : EditConfig(t, n)
    PROVE  Typed'
<1> USE DEF registry, members, KeepLocals, Goto
<1>0. t[1] \in Users
    BY DEF Tasks
<1>1. ASSUME NEW kind \in Kinds, BeginOnOwnMap(t, kind)
      PROVE  Typed'
    BY <1>0, <1>1 DEF BeginOnOwnMap, Typed, TypeOK, ReachedRoomsNamed, Handling
<1>2. ASSUME NEW label \in {"edit", "save", "config"}, NotFound(t, label)
      PROVE  Typed'
    BY <1>2, AnswerTyped DEF NotFound, Typed, TypeOK, ReachedRoomsNamed, Handling
<1>3. CASE EditMap(t)
    <2>1. arg[t] \in Names /\ rooms[arg[t]] \in Rooms
        BY <1>3 DEF EditMap, Typed, TypeOK, ReachedRoomsNamed, Handling
    <2>2. map' \in [Rooms -> {"unloaded", "clean", "dirty"}]
        BY <1>3, <2>1 DEF EditMap, Loaded, Typed, TypeOK
    <2>3. CASE Answer(t)
        BY <1>3, <2>2, <2>3, AnswerTyped DEF EditMap, Typed, TypeOK, ReachedRoomsNamed, Handling
    <2>4. CASE /\ found' = [found EXCEPT ![t] = rooms[arg[t]]]
               /\ Goto(t, "cast")
               /\ UNCHANGED arg
        BY <1>3, <2>1, <2>2, <2>4 DEF EditMap, Typed, TypeOK, ReachedRoomsNamed, Handling
    <2> QED
        BY <1>3, <2>3, <2>4 DEF EditMap
<1>4. CASE BroadcastEdit(t)
    BY <1>4, AnswerTyped DEF BroadcastEdit, Typed, TypeOK, ReachedRoomsNamed, Handling
<1>5. CASE SaveMap(t)
    <2>1. map' \in [Rooms -> {"unloaded", "clean", "dirty"}]
        BY <1>5 DEF SaveMap, Loaded, Typed, TypeOK
    <2> QED
        BY <1>5, <2>1, AnswerTyped DEF SaveMap, Typed, TypeOK, ReachedRoomsNamed, Handling
<1>6. ASSUME NEW n \in Names, EditConfig(t, n)
      PROVE  Typed'
    BY <1>6, AnswerTyped DEF EditConfig, Typed, TypeOK, ReachedRoomsNamed, Handling
<1> QED
    BY <1>1, <1>2, <1>3, <1>4, <1>5, <1>6

LEMMA TableTyped ==
    ASSUME NEW t \in Tasks, Typed,
           \/ \E n \in Names, r \in Rooms : CreateCheck(t, n, r)
           \/ \E n \in Names : DeleteLookup(t, n)
           \/ CreateInsert(t) \/ DeleteRemove(t)
    PROVE  Typed'
<1> USE DEF registry, members, KeepLocals, Goto
<1>1. ASSUME NEW n \in Names, NEW r \in Rooms, CreateCheck(t, n, r)
      PROVE  Typed'
    BY <1>1 DEF CreateCheck, Typed, TypeOK, ReachedRoomsNamed, Handling
<1>2. ASSUME NEW n \in Names, DeleteLookup(t, n)
      PROVE  Typed'
    BY <1>2 DEF DeleteLookup, Typed, TypeOK, ReachedRoomsNamed, Handling
<1>3. CASE CreateInsert(t)
    BY <1>3, AnswerTyped DEF CreateInsert, Typed, TypeOK, ReachedRoomsNamed, Handling
<1>4. CASE DeleteRemove(t)
    BY <1>4, AnswerTyped DEF DeleteRemove, Typed, TypeOK, ReachedRoomsNamed, Handling
<1> QED
    BY <1>1, <1>2, <1>3, <1>4

LEMMA NextTyped == Typed /\ [Next]_vars => Typed'
<1> SUFFICES ASSUME Typed, [Next]_vars PROVE Typed'
    OBVIOUS
<1>1. ASSUME NEW u \in Users, Accept(u) \/ Register(u) \/ Disconnect(u) \/ Cleanup(u)
      PROVE  Typed'
    BY <1>1, ConnectionTyped
<1>2. ASSUME NEW t \in Tasks, Request(t)
      PROVE  Typed'
    BY <1>2, JoinTyped, LeaveTyped, OwnMapTyped, TableTyped DEF Request
<1>3. ASSUME NEW t \in Tasks, Continue(t)
      PROVE  Typed'
    BY <1>3, JoinTyped, LeaveTyped, OwnMapTyped, TableTyped DEF Continue
<1>4. CASE UNCHANGED vars
    BY <1>4 DEF vars, Typed, TypeOK, ReachedRoomsNamed
<1> QED
    BY <1>1, <1>2, <1>3, <1>4 DEF Next

LEMMA AlwaysTyped == Spec => []Typed
BY InitTyped, NextTyped, PTL DEF Spec

(* Every registry, membership and handler local of the server stays well
   typed: no handler works on a room that was not made or on a name it did
   not receive, although it looks both up again after every lock. *)
THEOREM TypeCorrect == Spec => []TypeOK
BY AlwaysTyped, PTL DEF Typed

-----------------------------------------------------------------------------
(* Membership, when joins and leaves come by websocket only and clients leave
   a room under its own name. *)

OwnNames == MembershipOverWs /\ ~ LeaveByKey

Memberships == MembershipConsistent /\ HttpKeepsOut

(* What one user's membership is made of. *)
SameMembership(u) ==
    /\ pc'[Ws(u)] = pc[Ws(u)]
    /\ found'[Ws(u)] = found[Ws(u)]
    /\ userRoom'[u] = userRoom[u]
    /\ \A r \in Rooms : u \in roomUsers'[r] <=> u \in roomUsers[r]

LEMMA Undisturbed ==
    ASSUME NEW u \in Users, MembershipOf(u), SameMembership(u)
    PROVE  MembershipOf(u)'
BY DEF MembershipOf, SameMembership

LEMMA TaskFacts ==
    /\ \A u \in Users : Ws(u) \in Tasks /\ Http(u) \in Tasks
    /\ \A u, v \in Users : Ws(u) = Ws(v) => u = v
    /\ \A u, v \in Users : Ws(u) # Http(v)
    /\ \A t \in Tasks : t[1] \in Users /\ (t = Ws(t[1]) \/ t = Http(t[1]))
    /\ \A u \in Users : Ws(u)[1] = u /\ Ws(u)[2] = "ws" /\ Http(u)[1] = u /\ Http(u)[2] = "http"
BY DEF Tasks, Channels, Ws, Http

LEMMA InitMemberships == Init => Memberships
BY TaskFacts DEF Init, Memberships, MembershipConsistent, MembershipOf, HttpKeepsOut,
    Opening, Closing

(* Labels at which a task is in the middle of nothing that concerns its room. *)
Quiet == {"idle", "edit", "save", "config", "cast", "create", "delete"}

QuietStepOf(t) ==
    /\ roomUsers' = roomUsers /\ userRoom' = userRoom
    /\ pc[t] \in Quiet /\ pc'[t] \in Quiet
    /\ \A s \in Tasks : s # t => pc'[s] = pc[s] /\ found'[s] = found[s]

LEMMA QuietStep ==
    ASSUME NEW t \in Tasks, Memberships, QuietStepOf(t)
    PROVE  Memberships'
<1>1. ASSUME NEW u \in Users
      PROVE  MembershipOf(u)'
    <2>1. CASE t = Ws(u)
        BY <2>1, TaskFacts DEF Memberships, MembershipConsistent, MembershipOf, Quiet,
            Opening, QuietStepOf
    <2>2. CASE t # Ws(u)
        BY <2>2, TaskFacts, Undisturbed DEF Memberships, MembershipConsistent,
            SameMembership, QuietStepOf
    <2> QED
        BY <2>1, <2>2
<1>2. HttpKeepsOut'
    BY TaskFacts DEF Memberships, HttpKeepsOut, Quiet, Opening, Closing, QuietStepOf
<1> QED
    BY <1>1, <1>2 DEF Memberships, MembershipConsistent

(* Everything but joining, leaving, opening and closing is quiet. *)
LEMMA QuietActions ==
    ASSUME NEW t \in Tasks, Typed, Memberships,
           \/ \E kind \in Kinds : BeginOnOwnMap(t, kind)
           \/ \E label \in {"edit", "save", "config"} : NotFound(t, label)
           \/ EditMap(t) \/ BroadcastEdit(t) \/ SaveMap(t)
           \/ \E n \in Names : EditConfig(t, n)
           \/ \E n \in Names, r \in Rooms : CreateCheck(t, n, r)
           \/ \E n \in Names : DeleteLookup(t, n)
           \/ CreateInsert(t) \/ DeleteRemove(t)
    PROVE  Memberships'
<1> USE DEF QuietStepOf, Goto, KeepLocals, Answer, Quiet, members, Typed, TypeOK
<1>1. CASE \E kind \in Kinds : BeginOnOwnMap(t, kind)
    BY <1>1, QuietStep DEF BeginOnOwnMap, MayHandle
<1>2. CASE \E label \in {"edit", "save", "config"} : NotFound(t, label)
    BY <1>2, QuietStep DEF NotFound
<1>3. CASE EditMap(t) \/ BroadcastEdit(t) \/ SaveMap(t)
    BY <1>3, QuietStep DEF EditMap, BroadcastEdit, SaveMap
<1>4. CASE \E n \in Names : EditConfig(t, n)
    BY <1>4, QuietStep DEF EditConfig
<1>5. CASE \E n \in Names, r \in Rooms : CreateCheck(t, n, r)
    BY <1>5, QuietStep DEF CreateCheck, MayHandle
<1>6. CASE \E n \in Names : DeleteLookup(t, n)
    BY <1>6, QuietStep DEF DeleteLookup, MayHandle
<1>7. CASE CreateInsert(t) \/ DeleteRemove(t)
    BY <1>7, QuietStep DEF CreateInsert, DeleteRemove
<1> QED
    BY <1>1, <1>2, <1>3, <1>4, <1>5, <1>6, <1>7

(* A step of the websocket task of u: nobody else's membership can change. *)
LEMMA OwnStep ==
    ASSUME NEW u \in Users, Typed, Memberships,
           \A s \in Tasks : s # Ws(u) => pc'[s] = pc[s] /\ found'[s] = found[s],
           \A v \in Users : v # u => userRoom'[v] = userRoom[v],
           \A v \in Users, r \in Rooms : v # u => (v \in roomUsers'[r] <=> v \in roomUsers[r]),
           MembershipOf(u)'
    PROVE  Memberships'
<1>1. ASSUME NEW v \in Users, v # u
      PROVE  MembershipOf(v)'
    BY <1>1, TaskFacts, Undisturbed DEF Memberships, MembershipConsistent, SameMembership
<1>2. HttpKeepsOut'
    BY TaskFacts DEF Memberships, HttpKeepsOut
<1> QED
    BY <1>1, <1>2 DEF Memberships, MembershipConsistent

(* After remove_user the user is in no room it was not in before, nor in this. *)
LEMMA LeftRoom ==
    ASSUME NEW r \in Rooms, NEW u \in Users, Typed, RemoveUser(r, u)
    PROVE  \A s \in Rooms : u \in roomUsers'[s] <=> (u \in roomUsers[s] /\ s # r)
BY DEF RemoveUser, Typed, TypeOK

LEMMA ConnectionMemberships ==
    ASSUME NEW u \in Users, Typed, Memberships,
           Accept(u) \/ Register(u) \/ Disconnect(u) \/ Cleanup(u)
    PROVE  Memberships'
<1> USE DEF registry, members, KeepLocals, Goto
<1>1. /\ \A s \in Tasks : s # Ws(u) => pc'[s] = pc[s] /\ found'[s] = found[s]
      /\ UNCHANGED userRoom
      /\ \A v \in Users, r \in Rooms : v # u => (v \in roomUsers'[r] <=> v \in roomUsers[r])
    BY DEF Accept, Register, Disconnect, Cleanup, CloseRemove, Unregister, RemoveUser,
        Typed, TypeOK
<1>2. MembershipOf(u)
    BY DEF Memberships, MembershipConsistent
<1>3. MembershipOf(u)'
    <2>1. CASE Accept(u) \/ Register(u) \/ Disconnect(u) \/ Unregister(u)
        <3>1. roomUsers' = roomUsers /\ userRoom' = userRoom
            BY <2>1 DEF Accept, Register, Disconnect, Unregister
        <3>2. \/ pc[Ws(u)] = "off" /\ pc'[Ws(u)] \in {"counted", "closed"}
              \/ pc[Ws(u)] = "counted" /\ pc'[Ws(u)] = "idle"
              \/ pc[Ws(u)] = "idle" /\ pc'[Ws(u)] = "closing"
              \/ pc[Ws(u)] = "removed" /\ pc'[Ws(u)] = "closed"
            BY <2>1, TaskFacts DEF Accept, Register, Disconnect, Unregister, Typed, TypeOK
        <3> QED
            BY <1>2, <3>1, <3>2, SentinelAssumption DEF MembershipOf, Opening
    <2>2. CASE CloseRemove(u)
        <3>1. pc[Ws(u)] = "closing" /\ pc'[Ws(u)] = "removed"
            BY <2>2, TaskFacts DEF CloseRemove, Typed, TypeOK
        <3>2. \A r \in Rooms : u \in roomUsers[r] <=> r = userRoom[u]
            BY <1>2, <3>1 DEF MembershipOf, Opening
        <3>3. \A r \in Rooms : u \notin roomUsers'[r]
            BY <2>2, <3>2, LeftRoom, SentinelAssumption DEF CloseRemove, Typed, TypeOK
        <3> QED
            BY <3>1, <3>3 DEF MembershipOf, Opening
    <2> QED
        BY <2>1, <2>2 DEF Cleanup
<1> QED
    BY <1>1, <1>3, OwnStep

(* Joins and leaves are steps of the websocket task. *)
LEMMA JoinLeaveByWs ==
    ASSUME NEW t \in Tasks, OwnNames, Memberships,
           \/ \E n \in Names : BeginJoin(t, n) \/ LeaveRemove(t, n)
           \/ JoinVerify(t) \/ JoinFind(t) \/ JoinAdd(t) \/ JoinSet(t) \/ LeaveTake(t)
    PROVE  \E u \in Users : t = Ws(u) /\ u = t[1]
<1>1. CASE \E n \in Names : BeginJoin(t, n) \/ LeaveRemove(t, n)
    BY <1>1, TaskFacts DEF BeginJoin, LeaveRemove, MayHandle, OwnNames, MembershipOverWs
<1>2. CASE JoinVerify(t) \/ JoinFind(t) \/ JoinAdd(t) \/ JoinSet(t) \/ LeaveTake(t)
    BY <1>2, TaskFacts DEF JoinVerify, JoinFind, JoinAdd, JoinSet, LeaveTake, Memberships,
        HttpKeepsOut
<1> QED
    BY <1>1, <1>2

LEMMA JoinMemberships ==
    ASSUME NEW t \in Tasks, OwnNames, Typed, Memberships,
           \/ \E n \in Names : BeginJoin(t, n)
           \/ JoinVerify(t) \/ JoinFind(t) \/ JoinAdd(t) \/ JoinSet(t)
    PROVE  Memberships'
<1> USE DEF registry, members, KeepLocals, Goto, Answer
<1>1. PICK u \in Users : t = Ws(u) /\ u = t[1]
    BY JoinLeaveByWs
<1>2. /\ \A s \in Tasks : s # Ws(u) => pc'[s] = pc[s] /\ found'[s] = found[s]
      /\ \A v \in Users : v # u => userRoom'[v] = userRoom[v]
      /\ \A v \in Users, r \in Rooms : v # u => (v \in roomUsers'[r] <=> v \in roomUsers[r])
    BY <1>1 DEF BeginJoin, JoinVerify, JoinFind, JoinAdd, JoinSet, Typed, TypeOK
<1>3. MembershipOf(u)
    BY DEF Memberships, MembershipConsistent
<1>4. MembershipOf(u)'
    <2>1. CASE \E n \in Names : BeginJoin(t, n)
        BY <1>1, <1>3, <2>1, SentinelAssumption DEF BeginJoin, MayHandle, MembershipOf, Opening,
            Typed, TypeOK
    <2>2. CASE JoinVerify(t) \/ JoinFind(t)
        BY <1>1, <1>3, <2>2, SentinelAssumption DEF JoinVerify, JoinFind, MembershipOf, Opening,
            Typed, TypeOK
    <2>3. CASE JoinAdd(t)
        BY <1>1, <1>3, <2>3 DEF JoinAdd, MembershipOf, Opening, Typed, TypeOK
    <2>4. CASE JoinSet(t)
        BY <1>1, <1>3, <2>4 DEF JoinSet, MembershipOf, Opening, Typed, TypeOK
    <2> QED
        BY <2>1, <2>2, <2>3, <2>4
<1> QED
    BY <1>2, <1>4, OwnStep

LEMMA LeaveMemberships ==
    ASSUME NEW t \in Tasks, OwnNames, Typed, Memberships,
           (\E n \in Names : LeaveRemove(t, n)) \/ LeaveTake(t)
    PROVE  Memberships'
<1> USE DEF registry, members, KeepLocals, Goto, Answer
<1>1. PICK u \in Users : t = Ws(u) /\ u = t[1]
    BY JoinLeaveByWs
<1>2. /\ \A s \in Tasks : s # Ws(u) => pc'[s] = pc[s] /\ found'[s] = found[s]
      /\ \A v \in Users : v # u => userRoom'[v] = userRoom[v]
      /\ \A v \in Users, r \in Rooms : v # u => (v \in roomUsers'[r] <=> v \in roomUsers[r])
    <2>1. CASE \E n \in Names : LeaveRemove(t, n)
        <3>1. /\ \A s \in Tasks : s # Ws(u) => pc'[s] = pc[s] /\ found'[s] = found[s]
              /\ userRoom' = userRoom
            BY <1>1, <2>1 DEF LeaveRemove, Typed, TypeOK
        <3>2. roomUsers' = roomUsers \/ RemoveUser(userRoom[u], u)
            BY <1>1, <2>1 DEF LeaveRemove
        <3>3. \A v \in Users, q \in Rooms : v # u => (v \in roomUsers'[q] <=> v \in roomUsers[q])
            BY <3>2 DEF RemoveUser, Typed, TypeOK
        <3> QED
            BY <3>1, <3>3
    <2>2. CASE LeaveTake(t)
        BY <1>1, <2>2 DEF LeaveTake, Typed, TypeOK
    <2> QED
        BY <2>1, <2>2
<1>3. MembershipOf(u)
    BY DEF Memberships, MembershipConsistent
<1>4. MembershipOf(u)'
    <2>1. CASE \E n \in Names : LeaveRemove(t, n)
        <3>1. pc[Ws(u)] = "idle" /\ pc'[Ws(u)] = "take"
            BY <1>1, <2>1, TaskFacts DEF LeaveRemove, MayHandle, Typed, TypeOK
        <3>2. \A r \in Rooms : u \in roomUsers[r] <=> r = userRoom[u]
            BY <1>3, <3>1 DEF MembershipOf, Opening
        <3>3. IF userRoom[u] # NoRoom
              THEN RemoveUser(userRoom[u], u)
              ELSE UNCHANGED roomUsers
            BY <1>1, <2>1 DEF LeaveRemove, OwnNames
        <3>4. \A r \in Rooms : u \notin roomUsers'[r]
            BY <3>2, <3>3, LeftRoom, SentinelAssumption DEF Typed, TypeOK
        <3> QED
            BY <3>1, <3>4 DEF MembershipOf, Opening
    <2>2. CASE LeaveTake(t)
        BY <1>1, <1>3, <2>2, SentinelAssumption DEF LeaveTake, MembershipOf, Opening, Typed, TypeOK
    <2> QED
        BY <2>1, <2>2
<1> QED
    BY <1>2, <1>4, OwnStep

LEMMA NextMemberships ==
    ASSUME OwnNames
    PROVE  Typed /\ Memberships /\ [Next]_vars => Memberships'
<1> SUFFICES ASSUME Typed, Memberships, [Next]_vars PROVE Memberships'
    OBVIOUS
<1>1. ASSUME NEW u \in Users, Accept(u) \/ Register(u) \/ Disconnect(u) \/ Cleanup(u)
      PROVE  Memberships'
    BY <1>1, ConnectionMemberships
<1>2. ASSUME NEW t \in Tasks, Request(t)
      PROVE  Memberships'
    BY <1>2, JoinMemberships, LeaveMemberships, QuietActions DEF Request
<1>3. ASSUME NEW t \in Tasks, Continue(t)
      PROVE  Memberships'
    BY <1>3, JoinMemberships, LeaveMemberships, QuietActions DEF Continue
<1>4. CASE UNCHANGED vars
    BY <1>4 DEF vars, Memberships, MembershipConsistent, MembershipOf, HttpKeepsOut
<1> QED
    BY <1>1, <1>2, <1>3, <1>4 DEF Next

(* Room.users and User.inner.room agree for every connection whenever it is
   between two messages, however many connections join, leave, close, edit,
   create, rename and delete at once. *)
THEOREM MembershipAgrees ==
    ASSUME OwnNames
    PROVE  Spec => []MembershipConsistent
<1>1. Init => Memberships
    BY InitMemberships
<1>2. Typed /\ Memberships /\ [Next]_vars => Memberships'
    BY NextMemberships
<1>3. Memberships => MembershipConsistent
    BY DEF Memberships
<1> QED
    BY <1>1, <1>2, <1>3, AlwaysTyped, PTL DEF Spec

(* Nobody is a member of two rooms. *)
THEOREM InOneRoom ==
    ASSUME OwnNames
    PROVE  Spec => []OneRoom
<1>1. MembershipConsistent /\ TypeOK => OneRoom
    BY DEF MembershipConsistent, MembershipOf, OneRoom
<1> QED
    BY <1>1, MembershipAgrees, TypeCorrect, PTL

(* Only the removal of a room's last user unloads its edited map. *)
LEMMA UnloadedWhenEmpty ==
    ASSUME Typed, [Next]_vars, NEW r \in Rooms, map[r] = "dirty", map'[r] = "unloaded"
    PROVE  roomUsers'[r] = {}
<1>1. ASSUME NEW s \in Rooms, NEW u \in Users, RemoveUser(s, u)
      PROVE  roomUsers'[r] = {}
    BY <1>1 DEF RemoveUser, Typed, TypeOK
<1>2. ASSUME NEW u \in Users, Accept(u) \/ Register(u) \/ Disconnect(u) \/ Unregister(u)
      PROVE  FALSE
    BY <1>2 DEF Accept, Register, Disconnect, Unregister, members
<1>3. ASSUME NEW u \in Users, CloseRemove(u)
      PROVE  roomUsers'[r] = {}
    <2>1. userRoom[u] # NoRoom /\ RemoveUser(userRoom[u], u)
        BY <1>3 DEF CloseRemove
    <2>2. userRoom[u] \in Rooms
        BY <2>1 DEF Typed, TypeOK
    <2> QED
        BY <1>1, <2>1, <2>2
<1>4. ASSUME NEW t \in Tasks, NEW n \in Names, LeaveRemove(t, n)
      PROVE  roomUsers'[r] = {}
    <2>1. userRoom[t[1]] # NoRoom /\ RemoveUser(userRoom[t[1]], t[1])
        BY <1>4 DEF LeaveRemove
    <2>2. t[1] \in Users /\ userRoom[t[1]] \in Rooms
        BY <2>1, TaskFacts DEF Typed, TypeOK
    <2> QED
        BY <1>1, <2>1, <2>2
<1>5. ASSUME NEW t \in Tasks, EditMap(t) \/ SaveMap(t)
      PROVE  FALSE
    BY <1>5 DEF EditMap, SaveMap, Loaded, Typed, TypeOK
<1>6. ASSUME NEW t \in Tasks,
             \/ \E n \in Names : BeginJoin(t, n) \/ DeleteLookup(t, n) \/ EditConfig(t, n)
             \/ \E n \in Names, s \in Rooms : CreateCheck(t, n, s)
             \/ \E kind \in Kinds : BeginOnOwnMap(t, kind)
             \/ \E label \in {"edit", "save", "config"} : NotFound(t, label)
             \/ JoinVerify(t) \/ JoinFind(t) \/ JoinAdd(t) \/ JoinSet(t) \/ LeaveTake(t)
             \/ BroadcastEdit(t) \/ CreateInsert(t) \/ DeleteRemove(t)
      PROVE  FALSE
    <2>1. UNCHANGED map
        BY <1>6 DEF BeginJoin, DeleteLookup, EditConfig, CreateCheck, BeginOnOwnMap, NotFound,
            JoinVerify, JoinFind, JoinAdd, JoinSet, LeaveTake, BroadcastEdit, CreateInsert,
            DeleteRemove, members
    <2> QED
        BY <2>1
<1>7. CASE UNCHANGED vars
    BY <1>7 DEF vars
<1> QED
    BY <1>2, <1>3, <1>4, <1>5, <1>6, <1>7 DEF Next, Cleanup, Request, Continue

(* Unsaved work is never unloaded under a connected user that is in the room. *)
THEOREM WorkIsKept ==
    ASSUME OwnNames
    PROVE  Spec => WorkKept
<1>1. Typed /\ Memberships' /\ [Next]_vars =>
          [\A r \in Rooms : map[r] = "dirty" /\ map'[r] = "unloaded" =>
              \A u \in Users : ~ Sits(u, r)']_vars
    <2> SUFFICES ASSUME Typed, Memberships', [Next]_vars,
                        NEW r \in Rooms, map[r] = "dirty", map'[r] = "unloaded",
                        NEW u \in Users, Sits(u, r)'
                 PROVE  FALSE
        OBVIOUS
    <2>1. roomUsers'[r] = {}
        BY UnloadedWhenEmpty
    <2>2. MembershipOf(u)'
        BY DEF Memberships, MembershipConsistent
    <2>3. u \in roomUsers'[r]
        BY <2>2, SentinelAssumption DEF MembershipOf, Sits, Opening, Closing
    <2> QED
        BY <2>1, <2>3
<1>2. Spec => []Memberships
    BY InitMemberships, NextMemberships, AlwaysTyped, PTL DEF Spec
<1> QED
    BY <1>1, <1>2, AlwaysTyped, PTL DEF Spec, WorkKept

-----------------------------------------------------------------------------
(* Broadcasts, when the requests that decide or use the user's room come by
   websocket and no room changes its name. *)

OneWay == HttpKinds \cap {"join", "leave", "edit"} = {} /\ ~ Renames

(* The websocket task is the only one that moves its user and edits for it. *)
HttpLooksOn ==
    \A u \in Users :
        pc[Http(u)] \notin {"lookup", "find", "add", "set", "take", "edit", "cast"}

(* The table leads from a name to a room of that name. *)
TableNamesRooms == \A n \in Names : rooms[n] # NoRoom => name[rooms[n]] = n

(* A room object that create_map is still filling is known to nobody else. *)
NewRoomsPrivate ==
    \A t \in Tasks : pc[t] = "create" =>
        /\ found[t] \in Rooms /\ name[found[t]] = arg[t]
        /\ \A n \in Names : rooms[n] # found[t]
        /\ \A u \in Users : userRoom[u] # found[t]
        /\ \A s \in Tasks : s # t => found[s] # found[t]

(* An edit goes by the name of the user's room from its look-up to the broadcast. *)
EditsNameTheirRoom ==
    \A u \in Users : pc[Ws(u)] \in {"edit", "cast"} =>
        userRoom[u] # NoRoom /\ arg[Ws(u)] = name[userRoom[u]]

Casting == HttpLooksOn /\ TableNamesRooms /\ NewRoomsPrivate /\ EditsNameTheirRoom
              /\ BroadcastWhereEdited

LEMMA InitCasting == Init => Casting
<1> SUFFICES ASSUME Init PROVE Casting
    OBVIOUS
<1>1. \A n \in Names : rooms[n] # NoRoom => name[rooms[n]] = n
    BY InitialAssumption DEF Init
<1> QED
    BY <1>1, TaskFacts DEF Init, Casting, HttpLooksOn, TableNamesRooms, NewRoomsPrivate,
        EditsNameTheirRoom, BroadcastWhereEdited

(* A step of t that leaves the table, the names and the users where they are,
   starts neither a creation nor an edit, and learns of a room by the table only. *)
LooksOn(t) ==
    /\ rooms' = rooms /\ name' = name /\ userRoom' = userRoom
    /\ \A s \in Tasks : s # t => pc'[s] = pc[s] /\ arg'[s] = arg[s] /\ found'[s] = found[s]
    /\ pc'[t] \notin {"create", "edit", "cast"}
    /\ found'[t] \in {found[t], NoRoom} \cup {rooms[n] : n \in Names}

LEMMA LookingOn ==
    ASSUME NEW t \in Tasks, Typed, Casting, LooksOn(t), HttpLooksOn'
    PROVE  Casting'
<1>1. TableNamesRooms'
    BY DEF Casting, TableNamesRooms, LooksOn
<1>2. ASSUME NEW s \in Tasks, pc'[s] = "create"
      PROVE  /\ found'[s] \in Rooms /\ name'[found'[s]] = arg'[s]
             /\ \A n \in Names : rooms'[n] # found'[s]
             /\ \A u \in Users : userRoom'[u] # found'[s]
             /\ \A o \in Tasks : o # s => found'[o] # found'[s]
    <2>1. s # t /\ pc[s] = "create" /\ found'[s] = found[s] /\ arg'[s] = arg[s]
        BY <1>2 DEF LooksOn
    <2>2. /\ found[s] \in Rooms /\ name[found[s]] = arg[s]
          /\ \A n \in Names : rooms[n] # found[s]
          /\ \A u \in Users : userRoom[u] # found[s]
          /\ \A o \in Tasks : o # s => found[o] # found[s]
        BY <2>1 DEF Casting, NewRoomsPrivate
    <2>3. ASSUME NEW o \in Tasks, o # s
          PROVE  found'[o] # found[s]
        BY <2>1, <2>2, <2>3, SentinelAssumption DEF LooksOn
    <2> QED
        BY <2>1, <2>2, <2>3 DEF LooksOn
<1>3. EditsNameTheirRoom'
    BY TaskFacts DEF Casting, EditsNameTheirRoom, LooksOn
<1>4. BroadcastWhereEdited'
    BY DEF Casting, BroadcastWhereEdited, LooksOn
<1> QED
    BY <1>1, <1>2, <1>3, <1>4 DEF Casting, NewRoomsPrivate

LEMMA ConnectionCasting ==
    ASSUME NEW u \in Users, Typed, Casting,
           Accept(u) \/ Register(u) \/ Disconnect(u) \/ Cleanup(u)
    PROVE  Casting'
<1>1. LooksOn(Ws(u))
    BY TaskFacts DEF LooksOn, Accept, Register, Disconnect, Cleanup, CloseRemove, Unregister,
        registry, members, KeepLocals, Goto, Typed, TypeOK
<1>2. HttpLooksOn'
    BY <1>1, TaskFacts DEF LooksOn, Casting, HttpLooksOn
<1> QED
    BY <1>1, <1>2, TaskFacts, LookingOn

(* A request over HTTP does not get to the labels of HttpLooksOn. *)
LEMMA HttpKeepsLookingOn ==
    ASSUME NEW t \in Tasks, OneWay, Typed, Casting, Request(t) \/ Continue(t)
    PROVE  HttpLooksOn'
<1> USE DEF KeepLocals, Goto, Answer, MayHandle, OneWay
<1>1. ASSUME NEW u \in Users, t = Http(u)
      PROVE  pc'[t] \notin {"lookup", "find", "add", "set", "take", "edit", "cast"}
    <2>1. pc[t] \notin {"lookup", "find", "add", "set", "take", "edit", "cast"} /\ t[2] = "http"
        BY <1>1, TaskFacts DEF Casting, HttpLooksOn
    <2>2. CASE Request(t)
        BY <2>1, <2>2 DEF Request, BeginJoin, LeaveRemove, DeleteLookup, CreateCheck,
            BeginOnOwnMap, Typed, TypeOK
    <2>3. CASE Continue(t)
        BY <2>1, <2>3 DEF Continue, JoinVerify, JoinFind, JoinAdd, JoinSet, LeaveTake, NotFound,
            EditMap, BroadcastEdit, SaveMap, EditConfig, CreateInsert, DeleteRemove, Typed, TypeOK
    <2> QED
        BY <2>2, <2>3
<1>2. \A s \in Tasks : s # t => pc'[s] = pc[s]
    <2>1. CASE Request(t)
        BY <2>1 DEF Request, BeginJoin, LeaveRemove, DeleteLookup, CreateCheck, BeginOnOwnMap,
            Typed, TypeOK
    <2>2. CASE Continue(t)
        BY <2>2 DEF Continue, JoinVerify, JoinFind, JoinAdd, JoinSet, LeaveTake, NotFound,
            EditMap, BroadcastEdit, SaveMap, EditConfig, CreateInsert, DeleteRemove, Typed, TypeOK
    <2> QED
        BY <2>1, <2>2
<1> QED
    BY <1>1, <1>2, TaskFacts DEF Casting, HttpLooksOn

(* Most handlers look on. *)
LEMMA LookingActions ==
    ASSUME NEW t \in Tasks, OneWay, Typed, Casting, HttpLooksOn',
           \/ \E n \in Names : BeginJoin(t, n) \/ LeaveRemove(t, n) \/ DeleteLookup(t, n)
           \/ \E n \in Names : EditConfig(t, n)
           \/ \E label \in {"edit", "save", "config"} : NotFound(t, label)
           \/ JoinVerify(t) \/ JoinFind(t) \/ JoinAdd(t) \/ BroadcastEdit(t) \/ SaveMap(t)
    PROVE  Casting'
<1> USE DEF KeepLocals, Goto, Answer, MayHandle, registry, members
<1>1. CASE \E n \in Names : BeginJoin(t, n) \/ LeaveRemove(t, n) \/ DeleteLookup(t, n)
    <2>1. LooksOn(t)
        BY <1>1 DEF LooksOn, BeginJoin, LeaveRemove, DeleteLookup, Typed, TypeOK
    <2> QED
        BY <2>1, LookingOn
<1>2. CASE \E n \in Names : EditConfig(t, n)
    <2>1. PICK n \in Names : EditConfig(t, n)
        BY <1>2
    <2>2. name' = name
        BY <2>1 DEF EditConfig, OneWay, Typed, TypeOK
    <2>3. LooksOn(t)
        BY <2>1, <2>2 DEF LooksOn, EditConfig, Typed, TypeOK
    <2> QED
        BY <2>3, LookingOn
<1>3. CASE \E label \in {"edit", "save", "config"} : NotFound(t, label)
    <2>1. LooksOn(t)
        BY <1>3 DEF LooksOn, NotFound, Typed, TypeOK
    <2> QED
        BY <2>1, LookingOn
<1>4. CASE JoinVerify(t) \/ JoinFind(t)
    <2>1. arg[t] \in Names
        BY <1>4 DEF JoinVerify, JoinFind, Typed, ReachedRoomsNamed, Handling
    <2>2. LooksOn(t)
        BY <1>4, <2>1 DEF LooksOn, JoinVerify, JoinFind, Typed, TypeOK
    <2> QED
        BY <2>2, LookingOn
<1>5. CASE JoinAdd(t) \/ BroadcastEdit(t) \/ SaveMap(t)
    <2>1. LooksOn(t)
        BY <1>5 DEF LooksOn, JoinAdd, BroadcastEdit, SaveMap, Typed, TypeOK
    <2> QED
        BY <2>1, LookingOn
<1> QED
    BY <1>1, <1>2, <1>3, <1>4, <1>5

(* The user's room is set and taken by its websocket task, which is not casting. *)
LEMMA MovingActions ==
    ASSUME NEW t \in Tasks, OneWay, Typed, Casting, HttpLooksOn', JoinSet(t) \/ LeaveTake(t)
    PROVE  Casting'
<1> USE DEF KeepLocals, Goto, Answer, registry, members
<1>1. /\ pc[t] \in {"set", "take"} /\ pc'[t] = "idle" /\ found'[t] = NoRoom
      /\ \A s \in Tasks : s # t => pc'[s] = pc[s] /\ arg'[s] = arg[s] /\ found'[s] = found[s]
      /\ rooms' = rooms /\ name' = name
      /\ \A u \in Users : u # t[1] => userRoom'[u] = userRoom[u]
      /\ userRoom'[t[1]] \in {found[t], NoRoom}
    BY TaskFacts DEF JoinSet, LeaveTake, Typed, TypeOK
<1>2. PICK u \in Users : t = Ws(u) /\ u = t[1]
    BY <1>1, TaskFacts DEF Casting, HttpLooksOn
<1>3. TableNamesRooms'
    BY <1>1 DEF Casting, TableNamesRooms
<1>4. NewRoomsPrivate'
    <2> SUFFICES ASSUME NEW s \in Tasks, pc'[s] = "create"
                 PROVE  /\ found'[s] \in Rooms /\ name'[found'[s]] = arg'[s]
                        /\ \A n \in Names : rooms'[n] # found'[s]
                        /\ \A v \in Users : userRoom'[v] # found'[s]
                        /\ \A o \in Tasks : o # s => found'[o] # found'[s]
        BY DEF NewRoomsPrivate
    <2>1. s # t /\ pc[s] = "create" /\ found'[s] = found[s] /\ arg'[s] = arg[s]
        BY <1>1
    <2>2. /\ found[s] \in Rooms /\ name[found[s]] = arg[s]
          /\ \A n \in Names : rooms[n] # found[s]
          /\ \A v \in Users : userRoom[v] # found[s]
          /\ \A o \in Tasks : o # s => found[o] # found[s]
        BY <2>1 DEF Casting, NewRoomsPrivate
    <2> QED
        BY <1>1, <2>1, <2>2, SentinelAssumption
<1>5. EditsNameTheirRoom'
    BY <1>1, <1>2, TaskFacts DEF Casting, EditsNameTheirRoom
<1>6. BroadcastWhereEdited'
    BY <1>1, <1>2, TaskFacts DEF Casting, BroadcastWhereEdited, HttpLooksOn
<1> QED
    BY <1>3, <1>4, <1>5, <1>6 DEF Casting

(* The edit finds the user's room under its name, if the table still has it. *)
LEMMA EditingActions ==
    ASSUME NEW t \in Tasks, OneWay, Typed, Casting, HttpLooksOn',
           (\E kind \in Kinds : BeginOnOwnMap(t, kind)) \/ EditMap(t)
    PROVE  Casting'
<1> USE DEF KeepLocals, Goto, Answer, MayHandle, registry, members
<1>1. /\ \A s \in Tasks : s # t => pc'[s] = pc[s] /\ arg'[s] = arg[s] /\ found'[s] = found[s]
      /\ rooms' = rooms /\ name' = name /\ userRoom' = userRoom
      /\ pc'[t] \in {"idle", "edit", "save", "config", "cast"}
    BY DEF BeginOnOwnMap, EditMap, Typed, TypeOK
<1>2. found'[t] \in {found[t], NoRoom} \cup {rooms[n] : n \in Names}
    <2>1. CASE \E kind \in Kinds : BeginOnOwnMap(t, kind)
        BY <2>1 DEF BeginOnOwnMap
    <2>2. CASE EditMap(t)
        <3>1. arg[t] \in Names
            BY <2>2 DEF EditMap, Typed, ReachedRoomsNamed, Handling
        <3> QED
            BY <2>2, <3>1 DEF EditMap, Typed, TypeOK
    <2> QED
        BY <2>1, <2>2
<1>3. TableNamesRooms'
    BY <1>1 DEF Casting, TableNamesRooms
<1>4. NewRoomsPrivate'
    <2> SUFFICES ASSUME NEW s \in Tasks, pc'[s] = "create"
                 PROVE  /\ found'[s] \in Rooms /\ name'[found'[s]] = arg'[s]
                        /\ \A n \in Names : rooms'[n] # found'[s]
                        /\ \A v \in Users : userRoom'[v] # found'[s]
                        /\ \A o \in Tasks : o # s => found'[o] # found'[s]
        BY DEF NewRoomsPrivate
    <2>1. s # t /\ pc[s] = "create" /\ found'[s] = found[s] /\ arg'[s] = arg[s]
        BY <1>1
    <2>2. /\ found[s] \in Rooms /\ name[found[s]] = arg[s]
          /\ \A n \in Names : rooms[n] # found[s]
          /\ \A v \in Users : userRoom[v] # found[s]
          /\ \A o \in Tasks : o # s => found[o] # found[s]
        BY <2>1 DEF Casting, NewRoomsPrivate
    <2>3. found'[t] # found[s]
        BY <1>2, <2>1, <2>2, SentinelAssumption
    <2> QED
        BY <1>1, <2>1, <2>2, <2>3
<1>5. EditsNameTheirRoom'
    <2> SUFFICES ASSUME NEW u \in Users, pc'[Ws(u)] \in {"edit", "cast"}
                 PROVE  userRoom[u] # NoRoom /\ arg'[Ws(u)] = name[userRoom[u]]
        BY <1>1 DEF EditsNameTheirRoom
    <2>1. CASE t = Ws(u)
        <3>1. CASE \E kind \in Kinds : BeginOnOwnMap(t, kind)
            BY <2>1, <3>1, TaskFacts DEF BeginOnOwnMap, Typed, TypeOK
        <3>2. CASE EditMap(t)
            <4>1. pc[t] = "edit" /\ arg'[t] = arg[t]
                BY <2>1, <3>2 DEF EditMap, Typed, TypeOK
            <4> QED
                BY <2>1, <4>1, TaskFacts DEF Casting, EditsNameTheirRoom
        <3> QED
            BY <3>1, <3>2
    <2>2. CASE t # Ws(u)
        BY <1>1, <2>2, TaskFacts DEF Casting, EditsNameTheirRoom
    <2> QED
        BY <2>1, <2>2
<1>6. BroadcastWhereEdited'
    <2> SUFFICES ASSUME NEW s \in Tasks, pc'[s] = "cast", NEW n \in Names, rooms[n] = userRoom[s[1]]
                 PROVE  userRoom[s[1]] = found'[s]
        BY <1>1 DEF BroadcastWhereEdited
    <2>1. CASE s # t
        BY <1>1, <2>1 DEF Casting, BroadcastWhereEdited
    <2>2. CASE s = t
        <3>1. EditMap(t) /\ pc[t] = "edit" /\ found'[t] = rooms[arg[t]]
            BY <2>2 DEF BeginOnOwnMap, EditMap, Typed, TypeOK
        <3>2. PICK u \in Users : t = Ws(u) /\ u = t[1]
            BY <3>1, TaskFacts DEF Casting, HttpLooksOn
        <3>3. userRoom[u] # NoRoom /\ arg[t] = name[userRoom[u]]
            BY <3>1, <3>2 DEF Casting, EditsNameTheirRoom
        <3>4. name[userRoom[u]] = n
            BY <2>2, <3>2, <3>3 DEF Casting, TableNamesRooms
        <3> QED
            BY <2>2, <3>1, <3>2, <3>3, <3>4
    <2> QED
        BY <2>1, <2>2
<1> QED
    BY <1>3, <1>4, <1>5, <1>6 DEF Casting

(* A new room enters the table under its own name, and as nobody's room. *)
LEMMA TableActions ==
    ASSUME NEW t \in Tasks, OneWay, Typed, Casting, HttpLooksOn',
           \/ \E n \in Names, r \in Rooms : CreateCheck(t, n, r)
           \/ CreateInsert(t) \/ DeleteRemove(t)
    PROVE  Casting'
<1> USE DEF KeepLocals, Goto, Answer, MayHandle, registry, members
<1>0. /\ \A s \in Tasks : s # t => pc'[s] = pc[s] /\ arg'[s] = arg[s] /\ found'[s] = found[s]
      /\ userRoom' = userRoom
    BY DEF CreateCheck, CreateInsert, DeleteRemove, Typed, TypeOK
<1>1. ASSUME NEW n \in Names, NEW r \in Rooms, CreateCheck(t, n, r)
      PROVE  Casting'
    <2>1. /\ pc'[t] = "create" /\ arg'[t] = n /\ found'[t] = r
          /\ rooms' = rooms /\ name' = [name EXCEPT ![r] = n] /\ name[r] = NoName
          /\ name \in [Rooms -> Names \cup {NoName}]
        BY <1>1 DEF CreateCheck, Typed, TypeOK
    <2>2. /\ \A m \in Names : rooms[m] # r
          /\ \A u \in Users : userRoom[u] # r
          /\ \A s \in Tasks : found[s] # r
        BY <2>1, SentinelAssumption DEF Typed, TypeOK, ReachedRoomsNamed
    <2>3. TableNamesRooms'
        BY <2>1, <2>2 DEF Casting, TableNamesRooms, Typed, TypeOK
    <2>4. NewRoomsPrivate'
        <3> SUFFICES ASSUME NEW s \in Tasks, pc'[s] = "create"
                     PROVE  /\ found'[s] \in Rooms /\ name'[found'[s]] = arg'[s]
                            /\ \A m \in Names : rooms'[m] # found'[s]
                            /\ \A v \in Users : userRoom'[v] # found'[s]
                            /\ \A o \in Tasks : o # s => found'[o] # found'[s]
            BY DEF NewRoomsPrivate
        <3>1. CASE s = t
            BY <1>0, <2>1, <2>2, <3>1
        <3>2. CASE s # t
            <4>1. /\ found[s] \in Rooms /\ name[found[s]] = arg[s]
                  /\ \A m \in Names : rooms[m] # found[s]
                  /\ \A v \in Users : userRoom[v] # found[s]
                  /\ \A o \in Tasks : o # s => found[o] # found[s]
                BY <1>0, <3>2 DEF Casting, NewRoomsPrivate
            <4> QED
                BY <1>0, <2>1, <2>2, <3>2, <4>1
        <3> QED
            BY <3>1, <3>2
    <2>5. EditsNameTheirRoom'
        BY <1>0, <2>1, <2>2, TaskFacts DEF Casting, EditsNameTheirRoom, Typed, TypeOK
    <2>6. BroadcastWhereEdited'
        BY <1>0, <2>1 DEF Casting, BroadcastWhereEdited
    <2> QED
        BY <2>3, <2>4, <2>5, <2>6 DEF Casting
<1>2. CASE CreateInsert(t) \/ DeleteRemove(t)
    <2>1. pc'[t] = "idle" /\ found'[t] = NoRoom /\ name' = name
        BY <1>2 DEF CreateInsert, DeleteRemove, Typed, TypeOK
    <2>2. ASSUME NEW m \in Names
          PROVE  \/ rooms'[m] \in {rooms[m], NoRoom}
                 \/ pc[t] = "create" /\ rooms'[m] = found[t] /\ m = arg[t]
        BY <1>2 DEF CreateInsert, DeleteRemove, Typed, TypeOK
    <2>3. TableNamesRooms'
        BY <2>1, <2>2 DEF Casting, TableNamesRooms, NewRoomsPrivate
    <2>4. NewRoomsPrivate'
        <3> SUFFICES ASSUME NEW s \in Tasks, pc'[s] = "create"
                     PROVE  /\ found'[s] \in Rooms /\ name'[found'[s]] = arg'[s]
                            /\ \A m \in Names : rooms'[m] # found'[s]
                            /\ \A v \in Users : userRoom'[v] # found'[s]
                            /\ \A o \in Tasks : o # s => found'[o] # found'[s]
            BY DEF NewRoomsPrivate
        <3>1. s # t /\ pc[s] = "create" /\ found'[s] = found[s] /\ arg'[s] = arg[s]
            BY <1>0, <2>1
        <3>2. /\ found[s] \in Rooms /\ name[found[s]] = arg[s]
              /\ \A m \in Names : rooms[m] # found[s]
              /\ \A v \in Users : userRoom[v] # found[s]
              /\ \A o \in Tasks : o # s => found[o] # found[s]
            BY <3>1 DEF Casting, NewRoomsPrivate
        <3>3. \A m \in Names : rooms'[m] # found[s]
            BY <2>2, <3>1, <3>2, SentinelAssumption
        <3> QED
            BY <1>0, <2>1, <3>1, <3>2, <3>3, SentinelAssumption
    <2>5. EditsNameTheirRoom'
        BY <1>0, <2>1, TaskFacts DEF Casting, EditsNameTheirRoom
    <2>6. BroadcastWhereEdited'
        <3> SUFFICES ASSUME NEW s \in Tasks, pc'[s] = "cast",
                            NEW m \in Names, rooms'[m] = userRoom[s[1]]
                     PROVE  userRoom[s[1]] = found'[s]
            BY <1>0 DEF BroadcastWhereEdited
        <3>1. s # t /\ pc[s] = "cast" /\ found'[s] = found[s] /\ s[1] \in Users
            BY <1>0, <2>1, TaskFacts
        <3>2. rooms'[m] # NoRoom => rooms[m] = userRoom[s[1]]
            BY <2>2, <3>1 DEF Casting, NewRoomsPrivate
        <3>3. rooms'[m] # NoRoom
            BY <3>1, TaskFacts DEF Casting, EditsNameTheirRoom, HttpLooksOn
        <3> QED
            BY <3>1, <3>2, <3>3 DEF Casting, BroadcastWhereEdited
    <2> QED
        BY <2>3, <2>4, <2>5, <2>6 DEF Casting
<1> QED
    BY <1>1, <1>2

LEMMA NextCasting ==
    ASSUME OneWay
    PROVE  Typed /\ Casting /\ [Next]_vars => Casting'
<1> SUFFICES ASSUME Typed, Casting, [Next]_vars PROVE Casting'
    OBVIOUS
<1>1. ASSUME NEW u \in Users, Accept(u) \/ Register(u) \/ Disconnect(u) \/ Cleanup(u)
      PROVE  Casting'
    BY <1>1, ConnectionCasting
<1>2. ASSUME NEW t \in Tasks, Request(t) \/ Continue(t)
      PROVE  Casting'
    <2>1. HttpLooksOn'
        BY <1>2, HttpKeepsLookingOn
    <2> QED
        BY <1>2, <2>1, LookingActions, MovingActions, EditingActions, TableActions
            DEF Request, Continue
<1>3. CASE UNCHANGED vars
    BY <1>3 DEF vars, Casting, HttpLooksOn, TableNamesRooms, NewRoomsPrivate,
        EditsNameTheirRoom, BroadcastWhereEdited
<1> QED
    BY <1>1, <1>2, <1>3 DEF Next

(* An accepted edit is broadcast in the room whose map it changed, although the
   handler finds that map by its name and the room through the user, unless the
   table has lost the room meanwhile. *)
THEOREM BroadcastsWhereEdited ==
    ASSUME OneWay
    PROVE  Spec => []BroadcastWhereEdited
<1>1. Spec => []Casting
    BY InitCasting, NextCasting, AlwaysTyped, PTL DEF Spec
<1> QED
    BY <1>1, PTL DEF Casting

-----------------------------------------------------------------------------
(* What the handlers implement: joins, leaves and closed connections as if they
   were done at once. *)

(* Place tells of every user in which room's list it is. *)
PlaceRight ==
    /\ Place \in [Users -> Rooms \cup {NoRoom}]
    /\ \A u \in Users, r \in Rooms : u \in roomUsers[r] <=> Place[u] = r

LEMMA PlacesRight == Typed /\ Memberships => PlaceRight
<1> SUFFICES ASSUME Typed, Memberships PROVE PlaceRight
    OBVIOUS
<1>1. ASSUME NEW u \in Users
      PROVE  /\ Place[u] \in Rooms \cup {NoRoom}
             /\ \A r \in Rooms : u \in roomUsers[r] <=> Place[u] = r
    <2>1. PICK q \in Rooms \cup {NoRoom} : \A r \in Rooms : u \in roomUsers[r] <=> r = q
        <3>1. MembershipOf(u) /\ userRoom[u] \in Rooms \cup {NoRoom}
                /\ found[Ws(u)] \in Rooms \cup {NoRoom}
            BY TaskFacts DEF Memberships, MembershipConsistent, Typed, TypeOK
        <3> QED
            BY <3>1, SentinelAssumption DEF MembershipOf, Opening
    <2>2. Place[u] = IF \E r \in Rooms : u \in roomUsers[r]
                     THEN CHOOSE r \in Rooms : u \in roomUsers[r]
                     ELSE NoRoom
        BY DEF Place
    <2> QED
        BY <2>1, <2>2, SentinelAssumption
<1>2. Place = [u \in Users |-> Place[u]]
    BY DEF Place
<1> QED
    BY <1>1, <1>2 DEF PlaceRight

(* A user that no list takes in or out stays where it is. *)
LEMMA PlaceStays ==
    ASSUME PlaceRight, PlaceRight', NEW u \in Users,
           \A r \in Rooms : u \in roomUsers'[r] <=> u \in roomUsers[r]
    PROVE  Place'[u] = Place[u]
BY SentinelAssumption DEF PlaceRight

LEMMA PlacesStay ==
    ASSUME PlaceRight, PlaceRight', roomUsers' = roomUsers
    PROVE  Place' = Place
<1>1. \A u \in Users : Place'[u] = Place[u]
    BY PlaceStays
<1> QED
    BY <1>1 DEF PlaceRight

(* remove_user, called for the user's room: the user is nowhere, and the map
   goes if nobody else is there. *)
LEMMA RemovedIsEmptied ==
    ASSUME Typed, PlaceRight, PlaceRight', NEW u \in Users, NEW r \in Rooms,
           Place[u] = r, RemoveUser(r, u)
    PROVE  /\ Place' = [Place EXCEPT ![u] = NoRoom]
           /\ map' = Promise!Emptied(u)
<1>1. \A v \in Users, q \in Rooms :
          v \in roomUsers'[q] <=> v \in roomUsers[q] /\ ~ (v = u /\ q = r)
    BY DEF RemoveUser, Typed, TypeOK
<1>2. \A v \in Users \ {u} : Place'[v] = Place[v]
    BY <1>1, PlaceStays
<1>3. Place'[u] = NoRoom
    BY <1>1 DEF PlaceRight
<1>4. Place' = [Place EXCEPT ![u] = NoRoom]
    BY <1>2, <1>3 DEF PlaceRight
<1>5. roomUsers[r] \subseteq {u} <=> ~ \E v \in Users \ {u} : Place[v] = Place[u]
    BY DEF PlaceRight, Typed, TypeOK
<1>6. map' = [map EXCEPT ![r] = IF roomUsers[r] \subseteq {u} THEN "unloaded" ELSE map[r]]
    BY DEF RemoveUser
<1>7. map = [map EXCEPT ![r] = map[r]]
    BY DEF Typed, TypeOK
<1>8. map' = Promise!Emptied(u)
    <2>1. CASE roomUsers[r] \subseteq {u}
        BY <1>5, <1>6, <2>1, SentinelAssumption DEF Promise!Emptied
    <2>2. CASE ~ roomUsers[r] \subseteq {u}
        BY <1>5, <1>6, <1>7, <2>2 DEF Promise!Emptied
    <2> QED
        BY <2>1, <2>2
<1> QED
    BY <1>4, <1>8

PromiseStep == Promise!Next \/ UNCHANGED <<Present, Place, map>>

LEMMA ConnectionKeepsPromise ==
    ASSUME NEW u \in Users, Typed, Memberships, PlaceRight, PlaceRight',
           Accept(u) \/ Register(u) \/ Disconnect(u) \/ Cleanup(u)
    PROVE  PromiseStep
<1> USE DEF registry, members, KeepLocals, Goto
<1>1. \A v \in Users : v # u => pc'[Ws(v)] = pc[Ws(v)]
    BY TaskFacts DEF Accept, Register, Disconnect, Cleanup, CloseRemove, Unregister, Typed, TypeOK
<1>2. MembershipOf(u)
    BY DEF Memberships, MembershipConsistent
<1>3. CASE Accept(u) \/ Disconnect(u) \/ Unregister(u)
    <2>1. roomUsers' = roomUsers /\ map' = map
        BY <1>3 DEF Accept, Disconnect, Unregister
    <2>2. \/ pc[Ws(u)] = "off" /\ pc'[Ws(u)] \in {"counted", "closed"}
          \/ pc[Ws(u)] = "idle" /\ pc'[Ws(u)] = "closing"
          \/ pc[Ws(u)] = "removed" /\ pc'[Ws(u)] = "closed"
        BY <1>3, TaskFacts DEF Accept, Disconnect, Unregister, Typed, TypeOK
    <2>3. Present' = Present
        BY <1>1, <2>2 DEF Present, Opening
    <2> QED
        BY <2>1, <2>3, PlacesStay DEF PromiseStep
<1>4. CASE Register(u)
    <2>1. roomUsers' = roomUsers /\ map' = map
        BY <1>4 DEF Register
    <2>2. pc[Ws(u)] = "counted" /\ pc'[Ws(u)] = "idle"
        BY <1>4, TaskFacts DEF Register, Typed, TypeOK
    <2>3. Present' = Present \cup {u} /\ u \notin Present
        BY <1>1, <2>2 DEF Present, Opening
    <2>4. Place[u] = NoRoom
        BY <1>2, <2>2 DEF MembershipOf, Opening, PlaceRight
    <2>5. Promise!Come(u)
        BY <2>1, <2>3, <2>4, PlacesStay DEF Promise!Come
    <2> QED
        BY <2>5 DEF PromiseStep, Promise!Next
<1>5. CASE CloseRemove(u)
    <2>1. pc[Ws(u)] = "closing" /\ pc'[Ws(u)] = "removed"
        BY <1>5, TaskFacts DEF CloseRemove, Typed, TypeOK
    <2>2. Present' = Present \ {u} /\ u \in Present
        BY <1>1, <2>1 DEF Present, Opening
    <2>3. Place[u] = userRoom[u]
        BY <1>2, <2>1, SentinelAssumption DEF MembershipOf, Opening, PlaceRight, Typed, TypeOK
    <2>4. CASE userRoom[u] = NoRoom
        <3>1. roomUsers' = roomUsers /\ map' = map
            BY <1>5, <2>4 DEF CloseRemove
        <3>2. Place' = Place
            BY <3>1, PlacesStay
        <3>3. Place = [Place EXCEPT ![u] = NoRoom]
            BY <2>3, <2>4 DEF PlaceRight
        <3>4. map = Promise!Emptied(u)
            BY <2>3, <2>4 DEF Promise!Emptied
        <3>5. Promise!Go(u)
            BY <2>2, <3>1, <3>2, <3>3, <3>4 DEF Promise!Go
        <3> QED
            BY <3>5 DEF PromiseStep, Promise!Next
    <2>5. CASE userRoom[u] # NoRoom
        <3>1. RemoveUser(userRoom[u], u) /\ userRoom[u] \in Rooms
            BY <1>5, <2>5 DEF CloseRemove, Typed, TypeOK
        <3>2. Promise!Go(u)
            BY <2>2, <2>3, <3>1, RemovedIsEmptied DEF Promise!Go
        <3> QED
            BY <3>2 DEF PromiseStep, Promise!Next
    <2> QED
        BY <2>4, <2>5
<1> QED
    BY <1>3, <1>4, <1>5 DEF Cleanup

(* A task that goes on at a label where its user is served keeps the user present. *)
LEMMA ServedStays ==
    ASSUME NEW t \in Tasks, Typed,
           \A s \in Tasks : s # t => pc'[s] = pc[s],
           pc[t] \in {"idle"} \cup Handling, pc'[t] \in {"idle"} \cup Handling
    PROVE  Present' = Present
<1>1. \A u \in Users : \/ pc'[Ws(u)] = pc[Ws(u)]
                       \/ /\ pc[Ws(u)] \in {"idle"} \cup Handling
                          /\ pc'[Ws(u)] \in {"idle"} \cup Handling
    BY TaskFacts
<1> QED
    BY <1>1 DEF Present, Handling, Opening

LEMMA HandlersServe ==
    ASSUME NEW t \in Tasks, Typed, Request(t) \/ Continue(t)
    PROVE  Present' = Present
<1> USE DEF Goto, Answer, MayHandle, Handling, Typed, TypeOK
<1>1. CASE Request(t)
    <2>1. /\ \A s \in Tasks : s # t => pc'[s] = pc[s]
          /\ pc[t] \in {"idle"} \cup Handling
          /\ pc'[t] \in {"idle"} \cup Handling
        BY <1>1 DEF Request, BeginJoin, LeaveRemove, DeleteLookup, CreateCheck, BeginOnOwnMap
    <2> QED
        BY <2>1, ServedStays
<1>2. CASE Continue(t)
    <2>1. /\ \A s \in Tasks : s # t => pc'[s] = pc[s]
          /\ pc[t] \in {"idle"} \cup Handling
          /\ pc'[t] \in {"idle"} \cup Handling
        <3>1. CASE JoinVerify(t) \/ JoinFind(t) \/ JoinAdd(t) \/ JoinSet(t) \/ LeaveTake(t)
            BY <3>1 DEF JoinVerify, JoinFind, JoinAdd, JoinSet, LeaveTake
        <3>2. CASE (\E label \in {"edit", "save", "config"} : NotFound(t, label)) \/ EditMap(t)
                     \/ BroadcastEdit(t) \/ SaveMap(t)
            BY <3>2 DEF NotFound, EditMap, BroadcastEdit, SaveMap
        <3>3. CASE (\E n \in Names : EditConfig(t, n)) \/ CreateInsert(t) \/ DeleteRemove(t)
            BY <3>3 DEF EditConfig, CreateInsert, DeleteRemove
        <3> QED
            BY <1>2, <3>1, <3>2, <3>3 DEF Continue
    <2> QED
        BY <2>1, ServedStays
<1> QED
    BY <1>1, <1>2

LEMMA HandlersKeepPromise ==
    ASSUME OwnNames, NEW t \in Tasks, Typed, Memberships, PlaceRight, PlaceRight',
           Request(t) \/ Continue(t)
    PROVE  PromiseStep
<1> USE DEF registry, members
<1>1. Present' = Present
    BY HandlersServe
<1>2. CASE \/ \E n \in Names : BeginJoin(t, n) \/ DeleteLookup(t, n) \/ EditConfig(t, n)
           \/ \E n \in Names, r \in Rooms : CreateCheck(t, n, r)
           \/ \E kind \in Kinds : BeginOnOwnMap(t, kind)
           \/ \E label \in {"edit", "save", "config"} : NotFound(t, label)
           \/ JoinVerify(t) \/ JoinFind(t) \/ JoinSet(t) \/ LeaveTake(t)
           \/ BroadcastEdit(t) \/ CreateInsert(t) \/ DeleteRemove(t)
    <2>1. roomUsers' = roomUsers /\ map' = map
        BY <1>2 DEF BeginJoin, DeleteLookup, EditConfig, CreateCheck, BeginOnOwnMap, NotFound,
            JoinVerify, JoinFind, JoinSet, LeaveTake, BroadcastEdit, CreateInsert, DeleteRemove
    <2> QED
        BY <1>1, <2>1, PlacesStay DEF PromiseStep
<1>3. CASE EditMap(t) \/ SaveMap(t)
    <2>1. /\ roomUsers' = roomUsers
          /\ rooms[arg[t]] \in Rooms
          /\ \E content \in {"clean", "dirty"} : map' = [map EXCEPT ![rooms[arg[t]]] = content]
        <3>1. arg[t] \in Names /\ rooms[arg[t]] \in Rooms /\ roomUsers' = roomUsers
            BY <1>3 DEF EditMap, SaveMap, Typed, TypeOK, ReachedRoomsNamed, Handling
        <3>2. Loaded(rooms[arg[t]]) \in {"clean", "dirty"}
            BY <3>1 DEF Loaded, Typed, TypeOK
        <3> QED
            BY <1>3, <3>1, <3>2 DEF EditMap, SaveMap
    <2>2. Promise!Work(rooms[arg[t]])
        BY <1>1, <2>1, PlacesStay DEF Promise!Work
    <2> QED
        BY <2>1, <2>2 DEF PromiseStep, Promise!Next
<1>4. CASE JoinAdd(t)
    <2>1. PICK u \in Users : t = Ws(u) /\ u = t[1]
        BY <1>4, JoinLeaveByWs
    <2>2. /\ pc[Ws(u)] = "add" /\ found[t] \in Rooms \cup {NoRoom} /\ map' = map
          /\ roomUsers' = [roomUsers EXCEPT ![found[t]] = roomUsers[found[t]] \cup {u}]
        BY <1>4, <2>1 DEF JoinAdd, Typed, TypeOK
    <2>3. CASE found[t] = NoRoom
        <3>1. roomUsers' = roomUsers
            BY <2>2, <2>3, SentinelAssumption DEF Typed, TypeOK
        <3> QED
            BY <1>1, <2>2, <3>1, PlacesStay DEF PromiseStep
    <2>4. CASE found[t] \in Rooms
        <3>1. \A v \in Users, q \in Rooms :
                  v \in roomUsers'[q] <=> v \in roomUsers[q] \/ (v = u /\ q = found[t])
            BY <2>2, <2>4 DEF Typed, TypeOK
        <3>2. u \in Present /\ Place[u] = NoRoom
            BY <2>2 DEF Present, Opening, Memberships, MembershipConsistent, MembershipOf,
                PlaceRight
        <3>3. \A v \in Users \ {u} : Place'[v] = Place[v]
            BY <3>1, PlaceStays
        <3>4. Place'[u] = found[t]
            BY <2>4, <3>1 DEF PlaceRight
        <3>5. Place' = [Place EXCEPT ![u] = found[t]]
            BY <3>3, <3>4 DEF PlaceRight
        <3>6. Promise!Enter(u, found[t])
            BY <1>1, <2>2, <3>2, <3>5 DEF Promise!Enter
        <3> QED
            BY <2>4, <3>6 DEF PromiseStep, Promise!Next
    <2> QED
        BY <2>2, <2>3, <2>4
<1>5. ASSUME NEW n \in Names, LeaveRemove(t, n)
      PROVE  PromiseStep
    <2>1. PICK u \in Users : t = Ws(u) /\ u = t[1]
        BY <1>5, JoinLeaveByWs
    <2>2. /\ pc[Ws(u)] = "idle"
          /\ IF userRoom[u] # NoRoom
             THEN RemoveUser(userRoom[u], u)
             ELSE UNCHANGED <<roomUsers, map>>
        BY <1>5, <2>1 DEF LeaveRemove, MayHandle, OwnNames
    <2>3. Place[u] = userRoom[u] /\ u \in Present
        BY <2>2, SentinelAssumption DEF Memberships, MembershipConsistent, MembershipOf, Opening,
            PlaceRight, Present, Typed, TypeOK
    <2>4. CASE userRoom[u] = NoRoom
        BY <1>1, <2>2, <2>4, PlacesStay DEF PromiseStep
    <2>5. CASE userRoom[u] # NoRoom
        <3>1. userRoom[u] \in Rooms
            BY <2>5 DEF Typed, TypeOK
        <3>2. Promise!Leave(u)
            BY <1>1, <2>2, <2>3, <2>5, <3>1, RemovedIsEmptied DEF Promise!Leave
        <3> QED
            BY <3>2 DEF PromiseStep, Promise!Next
    <2> QED
        BY <2>4, <2>5
<1> QED
    BY <1>2, <1>3, <1>4, <1>5 DEF Request, Continue

LEMMA InitKeepsPromise == Init => Promise!Init
<1> SUFFICES ASSUME Init PROVE Promise!Init
    OBVIOUS
<1>1. Present = {}
    BY TaskFacts DEF Init, Present, Opening
<1>2. Place = [u \in Users |-> NoRoom]
    BY DEF Init, Place
<1> QED
    BY <1>1, <1>2 DEF Init, Promise!Init

(* The handlers, which take their locks one by one, do what the server promises
   of requests done at once: whoever joins, leaves and closes in between, a user
   goes from room to room through the door only, and a map is taken out of
   memory by the going of the last user of its room, at once and never else. *)
THEOREM SessionImplementsOccupancy ==
    ASSUME OwnNames
    PROVE  Spec => ImplementsOccupancy
<1>1. Init => Promise!Init
    BY InitKeepsPromise
<1>2. Typed /\ Memberships /\ Typed' /\ Memberships' /\ [Next]_vars =>
          [Promise!Next]_(Promise!promise)
    <2> SUFFICES ASSUME Typed, Memberships, Typed', Memberships', [Next]_vars
                 PROVE  PromiseStep
        BY DEF PromiseStep, Promise!promise
    <2>1. PlaceRight
        BY PlacesRight
    <2>2. PlaceRight'
        BY PlacesRight, PTL
    <2>3. ASSUME NEW u \in Users, Accept(u) \/ Register(u) \/ Disconnect(u) \/ Cleanup(u)
          PROVE  PromiseStep
        BY <2>1, <2>2, <2>3, ConnectionKeepsPromise
    <2>4. ASSUME NEW t \in Tasks, Request(t) \/ Continue(t)
          PROVE  PromiseStep
        BY <2>1, <2>2, <2>4, HandlersKeepPromise
    <2>5. CASE UNCHANGED vars
        BY <2>5 DEF vars, PromiseStep, Present, Place
    <2> QED
        BY <2>3, <2>4, <2>5 DEF Next
<1>3. Spec => []Memberships
    BY InitMemberships, NextMemberships, AlwaysTyped, PTL DEF Spec
<1> QED
    BY <1>1, <1>2, <1>3, AlwaysTyped, PTL DEF Spec, ImplementsOccupancy, Promise!Spec
=============================================================================
