------------------------------- MODULE QuadsView -------------------------------
(***************************************************************************)
(* The view of a quads layer: quads dragged by their points, edges or as a *)
(* whole, the menu of a quad, the requests these send, the operations of   *)
(* other users that arrive meanwhile, and the buffers the layer is drawn   *)
(* from.  A quad is five points (four corners and the centre), a colour    *)
(* per corner and a position envelope.                                     *)
(*                                                                         *)
(* The points of the view are the points of the map, so a drag moves them  *)
(* in the map.  The quad as it was before the drag is kept, and put back   *)
(* in the map just before the edit is sent, because the history takes the  *)
(* reverse of the edit from the map.                                       *)
(***************************************************************************)
EXTENDS Pending, FiniteSets

CONSTANTS
    MaxQuads,      \* bound on the quads of the layer
    MaxCalls,      \* bound on the requests on their way
    MaxSteps,      \* bound on the operations of a behaviour
    IndexRange,    \* how many vertices an index can name (2^16 in the code)
    Full,          \* the largest colour (255)
    Width,         \* half the width of a new quad
    Grips,         \* the sequences of points a drag can hold
    Moves,         \* where the pointer goes, from where it was pressed
    Typed,         \* the numbers typed into the menu
    InitialQuads,  \* the layer when the view opens
    OthersQuads,   \* the quads other users send
    EnvPoints,     \* the points the position envelope goes through: x, y, quarter turns
    Disturbed,     \* TRUE: others may change the quad that is held, or renumber it,
                   \* and any number of requests may be crossed
    AnyRefusal,    \* TRUE: any request may be refused
    Outside,       \* TRUE: the button may be released outside the view
    Unsets         \* TRUE: the envelope of a quad may be taken away again

NoEnv == 0
Env   == 1
Undef == -1      \* what choosing "None" stores

Point == [x : Int, y : Int]
Quad  == [points : [1..5 -> Point], colors : [1..4 -> 0..Full], env : {NoEnv, Env, Undef}]

ASSUME QuadAssumption ==
    /\ Full \in Nat /\ Width \in Nat /\ IndexRange \in Nat \ {0}
    /\ InitialQuads \in Seq(Quad) /\ Len(InitialQuads) <= MaxQuads
    /\ OthersQuads \subseteq Quad
    /\ \A quad \in Range(InitialQuads) \cup OthersQuads : quad.env # Undef
ASSUME PointerAssumption ==
    /\ Grips \subseteq Seq(1..5) /\ Moves \subseteq Point /\ Typed \subseteq Int
    /\ EnvPoints \subseteq [x : Int, y : Int, turn : 0..3]
ASSUME BoundAssumption ==
    /\ MaxQuads \in Nat /\ MaxCalls \in Nat /\ MaxSteps \in Nat
    /\ {Disturbed, AnyRefusal, Outside, Unsets} \subseteq BOOLEAN

VARIABLES
    quads,   \* the quads of the client's map
    doc,     \* the quads of the server's map
    view,    \* what is held: a drag or the menu, of which quad, and the quad before
    now,     \* the current point of the envelope
    drawn,   \* the buffers
    calls,   \* the requests that are not answered
    steps    \* operations so far

vars == <<quads, doc, view, now, drawn, calls, steps>>
-----------------------------------------------------------------------------
(* Operations.                                                             *)

Edit(q, quad) == [kind |-> "edit", q |-> q, quad |-> quad]
Create(quad)  == [kind |-> "create", quad |-> quad]
Delete(q)     == [kind |-> "delete", q |-> q]
Message(quad) == [quad EXCEPT !.env = IF @ = Undef THEN NoEnv ELSE @]

Possible(qs, op) == IF op.kind = "create" THEN TRUE ELSE op.q \in DOMAIN qs

Stored(qs, op) ==
    CASE op.kind = "create" -> Append(qs, op.quad)
      [] op.kind = "edit"   -> [qs EXCEPT ![op.q] = op.quad]
      [] op.kind = "delete" -> RemoveAt(qs, op.q)

\* The client looks for the envelopes of an edit under names it does not
\* have: they stay as they are.
Handle(qs, op) ==
    IF ~Possible(qs, op) THEN qs
    ELSE IF op.kind = "edit" THEN [qs EXCEPT ![op.q] = [op.quad EXCEPT !.env = qs[op.q].env]]
    ELSE Stored(qs, op)
Handled(qs, ops) == FoldLeft(Handle, qs, ops)

Undoing(qs, op) ==
    CASE op.kind = "create" -> Delete(Len(qs) + 1)
      [] op.kind = "edit"   -> Edit(op.q, qs[op.q])
      [] op.kind = "delete" -> [kind |-> "none"]
-----------------------------------------------------------------------------
(* The buffers: four vertices a quad, in the order the triangles want.     *)

Plus(p, d)  == [x |-> p.x + d.x, y |-> p.y + d.y]
Minus(p, d) == [x |-> p.x - d.x, y |-> p.y - d.y]
Turned(p, k) ==
    CASE k = 0 -> p
      [] k = 1 -> [x |-> -p.y, y |-> p.x]
      [] k = 2 -> [x |-> -p.x, y |-> -p.y]
      [] k = 3 -> [x |-> p.y, y |-> -p.x]

Around4 == <<1, 3, 4, 2>>
Placed(quad, c, point) ==
    IF quad.env = Env
    THEN Plus(Plus(Turned(Minus(quad.points[c], quad.points[5]), point.turn),
                   quad.points[5]), point)
    ELSE quad.points[c]
MakeVertices(quad, point) == [k \in 1..4 |-> Placed(quad, Around4[k], point)]
MakeColors(quad) == [k \in 1..4 |-> quad.colors[Around4[k]]]

MakeIndicesThree(t) == [k \in 1..6 |-> <<0, 1, 2, 0, 2, 3>>[k] + t * 3]
MakeIndices(t) == [k \in 1..6 |-> (<<0, 1, 2, 0, 2, 3>>[k] + t * 4) % IndexRange]

RecomputeEnvelope(b, qs, point) ==
    [b EXCEPT !.vertices = FlattenSeq([q \in DOMAIN qs |-> MakeVertices(qs[q], point)]),
              !.colors = FlattenSeq([q \in DOMAIN qs |-> MakeColors(qs[q])])]
InitBuffers(qs, point) ==
    RecomputeEnvelope([vertices |-> <<>>, colors |-> <<>>,
                       indices |-> FlattenSeq([q \in DOMAIN qs |-> MakeIndices(q - 1)])],
                      qs, point)

\* Every operation on a quad ends with new buffers.
Show(qs) == quads' = qs /\ drawn' = InitBuffers(qs, now)
-----------------------------------------------------------------------------
(* Requests.                                                               *)

Idle == [mode |-> "none", q |-> 0]
Held == view.q
Holding(q) == view.mode # "none" /\ Held = q
Step == steps < MaxSteps /\ steps' = steps + 1

Call(qs, op, by) ==
    [op |-> op, reverse |-> Undoing(qs, op), sent |-> op, by |-> by,
     tracked |-> op.kind # "delete"]

Query(qs, op, by) ==
    /\ Len(calls) < MaxCalls
    /\ calls' = Append(calls, Call(qs, op, by))
    /\ Show(Handle(qs, op))

\* The edit is the quad as it now is in the map, where the quad as it was is
\* put back before the request is made.
SendOnly(qs, v, done, by) ==
    LET edit == Edit(v.q, Message(qs[v.q]))
    IN  Query(qs, edit, by) /\ view' = [done EXCEPT !.last = edit]
OnChange(qs, v, done, by) ==
    LET edit   == Edit(v.q, Message(qs[v.q]))
        before == Handle(qs, v.last)
    IN  IF qs[v.q].env = Undef
        THEN \* the reverse asks the name of no envelope: nothing is sent
             Show(before) /\ view' = [v EXCEPT !.last = edit] /\ UNCHANGED calls
        ELSE Query(before, edit, by) /\ view' = [done EXCEPT !.last = edit]
-----------------------------------------------------------------------------
(* Dragging.                                                               *)

Zero == [x |-> 0, y |-> 0]
Hold(mode, q) ==
    [mode |-> mode, q |-> q, last |-> Edit(q, Message(quads[q])), grip |-> <<>>, moved |-> Zero]

\* The normal of an edge that is held.
Normal(points, grip) ==
    LET a == points[grip[1]]
        b == points[grip[2]]
    IN  [x |-> a.y - b.y, y |-> b.x - a.x]
Dot(a, b) == (a.x * b.x) + (a.y * b.y)

\* An edge moves along its normal only.
Projected(points, grip, d) ==
    IF Len(grip) # 2 THEN d
    ELSE LET n == Normal(points, grip)
         IN  [x |-> (n.x * Dot(d, n)) \div Dot(n, n), y |-> (n.y * Dot(d, n)) \div Dot(n, n)]

Shifted(points, grip, By(_)) ==
    [p \in 1..5 |-> IF p \in Range(grip) THEN By(points[p]) ELSE points[p]]

OnMouseDown(q, grip) ==
    /\ Step
    /\ view.mode = "none" \/ (Outside /\ view.mode = "drag")
    /\ q \in DOMAIN quads
    /\ Len(grip) = 2 => Normal(quads[q].points, grip) # Zero
    /\ view' = [Hold("drag", q) EXCEPT !.grip = grip]
    /\ UNCHANGED <<quads, doc, now, drawn, calls>>

FromLastMove(points, v, d) ==
    LET moved == Projected(points, v.grip, d)
    IN  [points |-> Shifted(points, v.grip, LAMBDA p : Plus(p, moved)), moved |-> moved]
\* The points go back to where they were pressed, then to the pointer.
Dragged(points, v, d) ==
    LET start == Shifted(points, v.grip, LAMBDA p : Minus(p, v.moved))
        moved == Projected(start, v.grip, d)
    IN  [points |-> Shifted(start, v.grip, LAMBDA p : Plus(p, moved)), moved |-> moved]

OnMouseMove(d) ==
    /\ view.mode = "drag" /\ Held \in DOMAIN quads
    /\ LET new == Dragged(quads[Held].points, view, d)
       IN  /\ view' = [view EXCEPT !.moved = new.moved]
           /\ Show([quads EXCEPT ![Held].points = new.points])
    /\ UNCHANGED <<doc, now, calls, steps>>

OnMouseUp ==
    /\ view.mode = "drag" /\ Held \in DOMAIN quads
    /\ OnChange(quads, view, [view EXCEPT !.mode = "none"], "points")
    /\ UNCHANGED <<doc, now, steps>>
-----------------------------------------------------------------------------
(* The menu covers the view while it is open.                              *)

ShowCM(q) ==
    /\ Step
    /\ view.mode = "none" /\ q \in DOMAIN quads
    /\ view' = Hold("menu", q)
    /\ UNCHANGED <<quads, doc, now, drawn, calls>>

HideCM ==
    /\ view.mode = "menu"
    /\ view' = Idle
    /\ UNCHANGED <<quads, doc, now, drawn, calls, steps>>

Menu == Step /\ view.mode = "menu" /\ Held \in DOMAIN quads /\ UNCHANGED <<doc, now>>
Changed(quad, v, by) == OnChange([quads EXCEPT ![Held] = quad], v, v, by)

OnEditPos(p, x) ==
    /\ Menu
    /\ \/ Changed([quads[Held] EXCEPT !.points[p].x = x], view, "points")
       \/ Changed([quads[Held] EXCEPT !.points[p].y = x], view, "points")

ClampOpacity(a) == IF a < 0 THEN 0 ELSE IF a > Full THEN Full ELSE a

\* The colours are changed in the array that the kept quad shares.
OnEditColor(p, a) ==
    /\ Menu
    /\ p \in 1..4
    /\ LET colors == [quads[Held].colors EXCEPT ![p] = ClampOpacity(a)]
       IN  Changed([quads[Held] EXCEPT !.colors = colors],
                   [view EXCEPT !.last.quad.colors = colors], "colors")

OnEditPosEnv(e) ==
    /\ Menu
    /\ e # NoEnv
    /\ Changed([quads[Held] EXCEPT !.env = e], view, "envelope")

Mean4(a, b, c, d) == (a + b + c + d + 2) \div 4      \* Math.round
OnRecenter ==
    /\ Menu
    /\ LET p == quads[Held].points
       IN  Changed([quads[Held] EXCEPT !.points[5] =
                        [x |-> Mean4(p[1].x, p[2].x, p[3].x, p[4].x),
                         y |-> Mean4(p[1].y, p[2].y, p[3].y, p[4].y)]], view, "points")

At(x, y) == [x |-> x, y |-> y]
NewQuad(c) ==
    [points |-> <<At(c.x - Width, c.y - Width), At(c.x + Width, c.y - Width),
                  At(c.x - Width, c.y + Width), At(c.x + Width, c.y + Width), c>>,
     colors |-> <<Full, Full, Full, Full>>, env |-> NoEnv]

CreateQuad ==
    /\ Step
    /\ Len(quads) < MaxQuads
    /\ Query(quads, Create(NewQuad(Zero)), "create")
    /\ view' = IF view.mode = "menu" THEN Idle ELSE view
    /\ UNCHANGED <<doc, now>>

OnDuplicate ==
    /\ Menu
    /\ Len(quads) < MaxQuads
    /\ Query(quads, Create([Message(quads[Held]) EXCEPT !.points =
                              [p \in 1..5 |-> Plus(@[p], At(1, 1))]]), "create")
    /\ view' = Idle

OnDelete ==
    /\ Menu
    /\ Query(quads, Delete(Held), "delete")
    /\ view' = Idle
-----------------------------------------------------------------------------
(* Messages of the server.  It handles requests in the order of the        *)
(* answers and of the broadcasts, so its map changes here.                 *)

Accepted ==
    /\ calls # <<>>
    /\ Possible(doc, Head(calls).sent)
    /\ doc' = Stored(doc, Head(calls).sent)
    /\ calls' = Tail(calls)
    /\ UNCHANGED <<quads, view, now, drawn, steps>>

\* The refusals that the reverse of the request makes good.
MadeGood(c) ==
    /\ Len(calls) = 1 /\ c.tracked
    /\ c.by \in {"points", "create"}
    /\ ~Holding(IF c.op.kind = "create" THEN Len(quads) ELSE c.op.q)

Refused ==
    /\ calls # <<>>
    /\ AnyRefusal \/ ~Possible(doc, Head(calls).sent) \/ MadeGood(Head(calls))
    /\ calls' = Tail(calls)
    /\ Show(Handled(quads, AfterRefusal(calls)))
    /\ UNCHANGED <<doc, view, now, steps>>

\* While nothing is held, another user's operation crosses one request at most
\* (none if it renumbers the quads); the quad that is held is left alone.
LeftAlone(op) ==
    IF view.mode = "none"
    THEN /\ Len(calls) <= 1 /\ (calls # <<>> => calls[1].tracked)
         /\ op.kind = "delete" => calls = <<>>
    ELSE /\ calls = <<>>
         /\ op.kind = "edit" => op.q # Held
         /\ op.kind = "delete" => op.q > Held

Others(op) ==
    /\ Step
    /\ Possible(doc, op)
    /\ Disturbed \/ LeftAlone(op)
    /\ doc' = Stored(doc, op)
    /\ Show(Handled(quads, Around(calls, op)))
    /\ calls' = FirstForgotten(calls)
    /\ UNCHANGED <<view, now>>

OthersCreate(quad) == Len(doc) < MaxQuads /\ Len(quads) < MaxQuads /\ Others(Create(quad))
OthersEdit(q, quad) ==
    q \in DOMAIN doc /\ Others(Edit(q, [quad EXCEPT !.env = doc[q].env]))
OthersDelete(q) == Others(Delete(q))

\* Each frame the envelope moves on, and vertices and colours are made again.
UpdateEnvelopes(point) ==
    /\ point # now
    /\ now' = point
    /\ drawn' = RecomputeEnvelope(drawn, quads, point)
    /\ UNCHANGED <<quads, doc, view, calls, steps>>
-----------------------------------------------------------------------------
Init ==
    /\ quads = InitialQuads /\ doc = InitialQuads
    /\ view = Idle
    /\ now \in EnvPoints
    /\ drawn = InitBuffers(InitialQuads, now)
    /\ calls = <<>>
    /\ steps = 0

InTheMenu ==
    \/ \E p \in 1..5, x \in Typed : OnEditPos(p, x) \/ OnEditColor(p, x)
    \/ \E e \in {Env} \cup (IF Unsets THEN {Undef} ELSE {}) : OnEditPosEnv(e)
    \/ OnRecenter
    \/ OnDuplicate
    \/ OnDelete
    \/ HideCM

FromOthers ==
    \/ \E quad \in OthersQuads : OthersCreate(quad) \/ \E q \in 1..MaxQuads : OthersEdit(q, quad)
    \/ \E q \in 1..MaxQuads : OthersDelete(q)

Next ==
    \/ \E q \in 1..MaxQuads : ShowCM(q) \/ \E grip \in Grips : OnMouseDown(q, grip)
    \/ \E d \in Moves : OnMouseMove(d)
    \/ OnMouseUp
    \/ InTheMenu
    \/ CreateQuad
    \/ FromOthers
    \/ Accepted
    \/ Refused
    \/ \E point \in EnvPoints : UpdateEnvelopes(point)

Spec == Init /\ [][Next]_vars
-----------------------------------------------------------------------------
\* Every quad the server has or is sent has five points and colours in range,
\* and what is held is a quad of the map.
TypeOK ==
    /\ quads \in Seq(Quad) /\ doc \in Seq(Quad)
    /\ \A q \in DOMAIN doc : doc[q].env # Undef
    /\ view.mode \in {"none", "drag", "menu"}
    /\ view.mode # "none" => Held \in DOMAIN quads

\* During a drag the points that are held are where they were when the button
\* was pressed, moved by one and the same vector, however often the pointer
\* moved since, an edge only along its normal, and nothing else of the quad
\* has changed.
DragFromStart ==
    view.mode = "drag" =>
        LET start == view.last.quad
        IN  /\ quads[Held].points =
                   Shifted(start.points, view.grip, LAMBDA p : Plus(p, view.moved))
            /\ quads[Held].colors = start.colors
            /\ Len(view.grip) = 2 =>
                   LET n == Normal(start.points, view.grip)
                       m == view.moved
                   IN  (m.x * n.y) - (m.y * n.x) \in (-Dot(n, n))..Dot(n, n)

\* With no request on its way the client's quads are the server's, but for the
\* quad that is being dragged: whether requests were accepted or refused.
SameQuads ==
    /\ TypeOK
    /\ calls = <<>> =>
          /\ Len(quads) = Len(doc)
          /\ \A q \in DOMAIN doc : quads[q] = doc[q] \/ (view.mode = "drag" /\ q = Held)

Corner(k) ==
    LET v == drawn.indices[k] + 1 IN <<drawn.vertices[v], drawn.colors[v]>>

\* Each quad is drawn by the two triangles at the sides of one diagonal, each
\* corner in its colour and where its envelope now has it.
DrawnIsMap ==
    \A q \in DOMAIN quads :
        LET At4(c) == <<Placed(quads[q], c, now), quads[q].colors[c]>>
            k == 6 * (q - 1)
        IN  /\ {Corner(k + 1), Corner(k + 2), Corner(k + 3)} = {At4(1), At4(3), At4(4)}
            /\ {Corner(k + 4), Corner(k + 5), Corner(k + 6)} = {At4(1), At4(2), At4(4)}
=============================================================================
