------------------------------ MODULE Occupancy ------------------------------
(***************************************************************************)
(* What the server promises about its rooms, with every request done at    *)
(* once: who is there, who is in which room, and what becomes of the maps  *)
(* in memory.  A user is in one room at most and moves to another only     *)
(* through the door; a map goes out of memory, with the work on it that    *)
(* was not saved, when the last user of its room goes, and then always.    *)
(* Session shows that its handlers, which take their locks one by one,     *)
(* implement it.                                                           *)
(***************************************************************************)
CONSTANTS Users, Rooms, NoRoom

VARIABLES
    present,    \* the users whose connections are served
    place,      \* the room each user is in, or NoRoom
    memory      \* the map of each room: not loaded, as on disk, or edited since

promise == <<present, place, memory>>

(* The room of a user who goes is emptied, if nobody else is in it. *)
Emptied(u) ==
    IF place[u] = NoRoom \/ \E v \in Users \ {u} : place[v] = place[u]
    THEN memory
    ELSE [memory EXCEPT ![place[u]] = "unloaded"]

Come(u) ==
    /\ u \notin present /\ place[u] = NoRoom
    /\ present' = present \cup {u}
    /\ UNCHANGED <<place, memory>>

Go(u) ==
    /\ u \in present
    /\ present' = present \ {u}
    /\ place' = [place EXCEPT ![u] = NoRoom]
    /\ memory' = Emptied(u)

Enter(u, r) ==
    /\ u \in present /\ place[u] = NoRoom
    /\ place' = [place EXCEPT ![u] = r]
    /\ UNCHANGED <<present, memory>>

Leave(u) ==
    /\ u \in present /\ place[u] # NoRoom
    /\ place' = [place EXCEPT ![u] = NoRoom]
    /\ memory' = Emptied(u)
    /\ UNCHANGED present

(* The map is loaded, edited or saved, by users whose room may be another: a *)
(* map that was deleted leaves its name to the next.                         *)
Work(r) ==
    /\ \E content \in {"clean", "dirty"} : memory' = [memory EXCEPT ![r] = content]
    /\ UNCHANGED <<present, place>>

Init ==
    /\ present = {}
    /\ place = [u \in Users |-> NoRoom]
    /\ memory = [r \in Rooms |-> "unloaded"]

Next ==
    \/ \E u \in Users : Come(u) \/ Go(u) \/ Leave(u)
    \/ \E u \in Users, r \in Rooms : Enter(u, r)
    \/ \E r \in Rooms : Work(r)

Spec == Init /\ [][Next]_promise
==============================================================================
