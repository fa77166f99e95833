------------------------------- MODULE Collab -------------------------------
(***************************************************************************)
(* Clients that edit one map together.  A client predicts that the server  *)
(* will accept its request and applies it at once; the server applies the  *)
(* requests it accepts, sends each to the other clients and answers the    *)
(* one that asked.  What a client's map must do when an answer or another  *)
(* client's operation contradicts the prediction is the work of the class  *)
(* History, which also keeps the user's undo and redo list.                *)
(*                                                                         *)
(* A request sets one part of the map (a cell) to a value, the same for a  *)
(* layer's properties, a quad or a rectangle of tiles; to delete a part is *)
(* to set it to a value in Untracked, as the client has no reverse for it. *)
(* A message handler of the client runs to its end before the next one, so *)
(* each is one action.  A handler of the server is three: the operation    *)
(* under the room's lock, the broadcast under another lock, the answer.    *)
(***************************************************************************)
EXTENDS Naturals, Sequences, FiniteSets, SequencesExt

CONSTANTS
    Clients,        \* the users in the room
    Cells, Values,  \* the parts of the map, and what they may hold
    Blank,          \* what every part holds at first
    Untracked,      \* values whose setting History cannot reverse
    Refusable,      \* the <<cell, value>> requests the server may refuse
    Writes,         \* the <<client, cell>> pairs such that the client edits the cell
    Undoers,        \* the clients whose users press undo and redo
    Workers,        \* handlers the server runs at once (tokio's worker threads)
    MaxHistory,     \* 100 in the code
    MaxInFlight,    \* bounds the requests of a client that wait for their answers
    MaxSends,       \* bounds the requests each client sends
    MaxNotices      \* bounds the times the users are told of a visit or a save

ASSUME ValueAssumption == Blank \in Values /\ Untracked \subseteq Values
ASSUME RefusalAssumption == Refusable \subseteq Cells \X Values
ASSUME ClientAssumption == IsFiniteSet(Clients)
ASSUME WriterAssumption == Writes \subseteq Clients \X Cells /\ Undoers \subseteq Clients
ASSUME BoundAssumption ==
    /\ Workers \in Nat \ {0} /\ MaxHistory \in Nat \ {0}
    /\ MaxInFlight \in Nat \ {0} /\ MaxSends \in [Clients -> Nat] /\ MaxNotices \in Nat

VARIABLES
    doc,        \* the room's map
    client,     \* each client's map, History and number of packets sent
    toServer,   \* each client's requests on the way; the first may be in its handler
    toClient,   \* each client's answers and broadcasts on the way
    stage,      \* where the handler of each client's first request is
    notices     \* how often the users have been told of a visit or a save

vars == <<doc, client, toServer, toClient, stage, notices>>

Doc == [Cells -> Values]
Request == [id : Nat, cell : Cells, val : Values]
Operation == [id : Nat, cell : Cells, val : Values, old : Values]
Client == [doc : Doc, pending : Seq(Operation), history : Seq(Operation),
           index : Nat, skip : Nat, sent : Nat]
Message ==
    [kind : {"resp"}, id : Nat, ok : BOOLEAN]
    \cup [kind : {"op"}, cell : Cells, val : Values]
    \cup [kind : {"note"}]
Stages == {"waiting", "applied", "refused", "cast"}

TypeOK ==
    /\ doc \in Doc
    /\ client \in [Clients -> Client]
    /\ toServer \in [Clients -> Seq(Request)]
    /\ toClient \in [Clients -> Seq(Message)]
    /\ stage \in [Clients -> Stages]
    /\ notices \in Nat
    /\ \A c \in Clients :
          /\ Len(client[c].history) <= MaxHistory
          /\ client[c].index <= Len(client[c].history)
          /\ stage[c] # "waiting" => toServer[c] # <<>>

Init ==
    /\ doc = [x \in Cells |-> Blank]
    /\ client = [c \in Clients |->
                   [doc |-> doc, pending |-> <<>>, history |-> <<>>,
                    index |-> 0, skip |-> 0, sent |-> 0]]
    /\ toServer = [c \in Clients |-> <<>>]
    /\ toClient = [c \in Clients |-> <<>>]
    /\ stage = [c \in Clients |-> "waiting"]
    /\ notices = 0

-----------------------------------------------------------------------------
(* History: what a client k does to itself *)

Forward(op) == <<op.cell, op.val>>
Backward(op) == <<op.cell, op.old>>
Forwards(ops) == [i \in DOMAIN ops |-> Forward(ops[i])]
Backwards(ops) == Reverse([i \in DOMAIN ops |-> Backward(ops[i])])

(* The dispatch of a list of operations to the listeners that edit the map:
   each part ends up with what was written to it last. *)
Applied(d, writes) ==
    [x \in Cells |->
        LET hits == {i \in DOMAIN writes : writes[i][1] = x}
        IN  IF hits = {} THEN d[x]
            ELSE writes[CHOOSE i \in hits : \A j \in hits : j <= i][2]]

(* Mutant: an operation appended after an undo leaves what was undone. *)
RememberedAfter(k, op) ==
    IF k.skip > 0 THEN [k EXCEPT !.skip = @ - 1]
    ELSE LET list == Append(k.history, op)
             kept == IF Len(list) > MaxHistory THEN Tail(list) ELSE list
         IN  [k EXCEPT !.history = kept, !.index = Len(kept)]

(* An operation becomes the last of the list, and drops what was undone. *)
Remembered(k, op) ==
    IF k.skip > 0 THEN [k EXCEPT !.skip = @ - 1]
    ELSE LET list == Append(SubSeq(k.history, 1, k.index), op)
             kept == IF Len(list) > MaxHistory THEN Tail(list) ELSE list
         IN  [k EXCEPT !.history = kept, !.index = Len(kept)]

(* query: History.send takes down the reverse of the request, if it has one,
   and the prediction is dispatched. *)
Queried(k, x, v) ==
    LET op == [id |-> k.sent + 1, cell |-> x, val |-> v, old |-> k.doc[x]]
        tracked == Remembered([k EXCEPT !.pending = Append(@, op)], op)
    IN  [(IF v \in Untracked THEN k ELSE tracked) EXCEPT
            !.sent = @ + 1, !.doc[x] = v]

(* An operation leaves the undo list. *)
Unlisted(k, id) ==
    LET spots == {i \in DOMAIN k.history : k.history[i].id = id}
        spot == CHOOSE i \in spots : \A j \in spots : i <= j
    IN  IF spots = {} THEN k
        ELSE [k EXCEPT !.history = RemoveAt(@, spot),
                       !.index = IF spot <= @ THEN @ - 1 ELSE @]

(* History.resp on an error: all predictions are taken back, newest first, and
   all but the refused one made again. *)
Refused(k) ==
    LET n == Len(k.pending)
    IN  [Unlisted(k, k.pending[1].id) EXCEPT
            !.doc = Applied(@, Backwards(k.pending) \o Forwards(Tail(k.pending))),
            !.pending = Tail(@),
            !.skip = @ + n + (n - 1)]

(* Mutant: a prediction that came true stays pending. *)
AnsweredTwice(k, id, ok) ==
    IF k.pending = <<>> \/ k.pending[1].id # id THEN k
    ELSE IF ok THEN k
    ELSE Refused(k)

(* History.resp: only the first pending request can be answered. *)
Answered(k, id, ok) ==
    IF k.pending = <<>> \/ k.pending[1].id # id THEN k
    ELSE IF ok THEN [k EXCEPT !.pending = Tail(@)]
    ELSE Refused(k)

(* What a broadcast writes to the map of the client that is told: an edit sets
   a part, a notice (users, saved) nothing. *)
Told(m) == IF m.kind = "op" THEN << <<m.cell, m.val>> >> ELSE <<>>

(* Mutant: the first prediction, no longer pending, is not made again. *)
OvertakenShort(k, told) ==
    LET cleared == [k EXCEPT !.history = <<>>, !.index = 0]
        n == Len(k.pending)
    IN  IF n = 0 THEN [cleared EXCEPT !.doc = Applied(@, told)]
        ELSE [cleared EXCEPT
                 !.doc = Applied(Applied(Applied(@, Backwards(k.pending)), told),
                                 Forwards(Tail(k.pending))),
                 !.pending = Tail(@),
                 !.skip = @ + n + 1 + n]

(* History.recv, on every broadcast, an edit or not: the undo list is cleared,
   and what is told goes before the predictions, which are taken back and made
   again; the first is no longer pending after that. *)
Overtaken(k, told) ==
    LET cleared == [k EXCEPT !.history = <<>>, !.index = 0]
        n == Len(k.pending)
    IN  IF n = 0 THEN [cleared EXCEPT !.doc = Applied(@, told)]
        ELSE [cleared EXCEPT
                 !.doc = Applied(Applied(Applied(@, Backwards(k.pending)), told),
                                 Forwards(k.pending)),
                 !.pending = Tail(@),
                 !.skip = @ + n + 1 + n]

-----------------------------------------------------------------------------
(* Clients *)

Unanswered(c) ==
    Len(toServer[c]) + Len(SelectSeq(toClient[c], LAMBDA m : m.kind = "resp"))

(* Client c, which is now k or has just moved in its history, sends a request. *)
Query(c, k, x, v) ==
    /\ k.sent < MaxSends[c] /\ Unanswered(c) < MaxInFlight
    /\ client' = [client EXCEPT ![c] = Queried(k, x, v)]
    /\ toServer' = [toServer EXCEPT ![c] = Append(@, [id |-> k.sent + 1, cell |-> x, val |-> v])]
    /\ UNCHANGED <<doc, toClient, stage, notices>>

Edit(c, x, v) ==
    /\ <<c, x>> \in Writes
    /\ Query(c, client[c], x, v)

Undo(c) ==
    /\ c \in Undoers /\ client[c].index > 0
    /\ LET k == client[c]
           op == k.history[k.index]
       IN  Query(c, [k EXCEPT !.index = @ - 1, !.skip = @ + 1], op.cell, op.old)

Redo(c) ==
    /\ c \in Undoers /\ client[c].index < Len(client[c].history)
    /\ LET k == client[c]
           op == k.history[k.index + 1]
       IN  Query(c, [k EXCEPT !.index = @ + 1, !.skip = @ + 1], op.cell, op.val)

(* handleWsMessage *)
Receive(c) ==
    /\ toClient[c] # <<>>
    /\ LET m == Head(toClient[c])
       IN  client' = [client EXCEPT ![c] =
                        IF m.kind = "resp" THEN Answered(@, m.id, m.ok)
                        ELSE Overtaken(@, Told(m))]
    /\ toClient' = [toClient EXCEPT ![c] = Tail(@)]
    /\ UNCHANGED <<doc, toServer, stage, notices>>

-----------------------------------------------------------------------------
(* The server *)

Busy == {c \in Clients : stage[c] # "waiting"}

(* A handler starts, and do_request accepts or refuses the request. *)
Apply(c) ==
    /\ stage[c] = "waiting" /\ toServer[c] # <<>>
    /\ Cardinality(Busy) < Workers
    /\ LET r == Head(toServer[c])
       IN  \/ /\ doc' = [doc EXCEPT ![r.cell] = r.val]
              /\ stage' = [stage EXCEPT ![c] = "applied"]
           \/ /\ <<r.cell, r.val>> \in Refusable
              /\ stage' = [stage EXCEPT ![c] = "refused"]
              /\ UNCHANGED doc
    /\ UNCHANGED <<client, toServer, toClient, notices>>

(* Mutant: refused requests are sent to the others too. *)
CastRefused(c) ==
    /\ stage[c] \in {"applied", "refused"}
    /\ LET r == Head(toServer[c])
           m == [kind |-> "op", cell |-> r.cell, val |-> r.val]
       IN  toClient' = [d \in Clients |-> IF d = c THEN toClient[d] ELSE Append(toClient[d], m)]
    /\ stage' = [stage EXCEPT ![c] = "cast"]
    /\ UNCHANGED <<doc, client, toServer, notices>>

(* do_broadcast, broadcast_to_others *)
Cast(c) ==
    /\ stage[c] = "applied"
    /\ LET r == Head(toServer[c])
           m == [kind |-> "op", cell |-> r.cell, val |-> r.val]
       IN  toClient' = [d \in Clients |-> IF d = c THEN toClient[d] ELSE Append(toClient[d], m)]
    /\ stage' = [stage EXCEPT ![c] = "cast"]
    /\ UNCHANGED <<doc, client, toServer, notices>>

(* user.send of the response; the handler ends. *)
Answer(c) ==
    /\ stage[c] \in {"cast", "refused"}
    /\ LET m == [kind |-> "resp", id |-> Head(toServer[c]).id, ok |-> stage[c] = "cast"]
       IN  toClient' = [toClient EXCEPT ![c] = Append(@, m)]
    /\ toServer' = [toServer EXCEPT ![c] = Tail(@)]
    /\ stage' = [stage EXCEPT ![c] = "waiting"]
    /\ UNCHANGED <<doc, client, notices>>

(* Users are told of something that is no edit. *)
Notify(users) ==
    /\ notices < MaxNotices
    /\ notices' = notices + 1
    /\ toClient' = [d \in Clients |->
                      IF d \in users THEN Append(toClient[d], [kind |-> "note"]) ELSE toClient[d]]
    /\ UNCHANGED <<doc, client, toServer, stage>>

(* Client c saves the map; its answer is to nothing History waits for. *)
Save(c) == Notify(Clients \ {c})

(* Some other user joins, leaves or is cut off. *)
Visit == Notify(Clients)

Next ==
    \/ \E c \in Clients :
          \/ \E x \in Cells, v \in Values : Edit(c, x, v)
          \/ Undo(c) \/ Redo(c)
          \/ Receive(c)
          \/ Apply(c) \/ Cast(c) \/ Answer(c)
          \/ Save(c)
    \/ Visit

Spec == Init /\ [][Next]_vars

(* Handlers that started finish, no handler waits for a worker for ever, and
   both ends read their sockets.  Nobody has to edit. *)
Fairness ==
    \A c \in Clients :
        SF_vars(Apply(c)) /\ WF_vars(Cast(c)) /\ WF_vars(Answer(c)) /\ WF_vars(Receive(c))

FairSpec == Spec /\ Fairness

-----------------------------------------------------------------------------
(* Properties *)

(* Nothing is on its way, and no handler runs. *)
Quiet == \A c \in Clients : toServer[c] = <<>> /\ toClient[c] = <<>>

(* Once all messages have arrived, every client shows the room's map: whatever
   was predicted wrongly has been put right. *)
Converges == Quiet => \A c \in Clients : client[c].doc = doc

OnItsWay(c, x) == {i \in DOMAIN toClient[c] :
                        toClient[c][i].kind = "op" /\ toClient[c][i].cell = x}
AboutToCast(x) == {d \in Clients : stage[d] = "applied" /\ Head(toServer[d]).cell = x}

(* What the client will hold of a part once the broadcasts on their way, and
   the one about to be sent, are applied in their order. *)
Expected(c, x) ==
    IF AboutToCast(x) # {} THEN Head(toServer[CHOOSE d \in AboutToCast(x) : TRUE]).val
    ELSE IF OnItsWay(c, x) # {}
         THEN toClient[c][CHOOSE i \in OnItsWay(c, x) : \A j \in OnItsWay(c, x) : j <= i].val
    ELSE client[c].doc[x]

(* Of the parts of the map it does not write itself a client misses nothing
   and undoes nothing: it is only late.  The broadcasts on their way lead its
   map to the room's, so their order is the order of the room's edits. *)
WatchersFollow ==
    \A c \in Clients, x \in Cells : <<c, x>> \notin Writes => Expected(c, x) = doc[x]

(* "response must be for the 1st pending request" (history.ts): an answer meets
   the first of the pending requests or, if a broadcast dropped it, none. *)
AnswersInOrder ==
    \A c \in Clients :
        toClient[c] # <<>> /\ Head(toClient[c]).kind = "resp" =>
            \A i \in DOMAIN client[c].pending :
                client[c].pending[i].id = Head(toClient[c]).id => i = 1

(* The map that the first n operations of the list h make of a map. *)
Walked(base, h, n) == Applied(base, Forwards(SubSeq(h, 1, n)))

(* The list h accounts for the map d: its first n operations make d, and each
   has taken down as its reverse what it found. *)
Explains(base, h, n, d) ==
    /\ d = Walked(base, h, n)
    /\ \A i \in 1 .. Len(h) : h[i].old = Walked(base, h, i - 1)[h[i].cell]

(* If nothing is refused and everything has a reverse, every client's undo list
   accounts for the map it shows, from some map on: undo and redo walk along the
   list and lose nothing, whatever others edit, save or visit meanwhile, and
   however many edits the marks left by that keep off the list. *)
HistoryExplains ==
    \A c \in Clients :
        \E base \in Doc : Explains(base, client[c].history, client[c].index, client[c].doc)

(* Undo takes back what the user sees of the last listed edit, and nothing that
   came after it; redo makes it again where undo has left the part. *)
UndoMeetsItsEdit ==
    [][\A c \in Clients :
          LET k == client[c]
          IN  /\ Undo(c) => k.doc[k.history[k.index].cell] = k.history[k.index].val
              /\ Redo(c) => k.doc[k.history[k.index + 1].cell] = k.history[k.index + 1].old]_vars

(* "tracks all undo/redo-able requests" (history.ts): an edit that has a reverse
   is the last of the list, where undo finds it. *)
EditsListed ==
    [][\A c \in Clients, x \in Cells, v \in Values \ Untracked :
          Edit(c, x, v) =>
              /\ client'[c].index > 0
              /\ client'[c].history[client'[c].index] = Last(client'[c].pending)]_vars

(* A prediction does not stay in doubt: every client's pending requests are
   confirmed or taken back in the end. *)
Settles == \A c \in Clients : client[c].pending # <<>> ~> client[c].pending = <<>>

=============================================================================
