------------------------------- MODULE Envelopes -------------------------------
(***************************************************************************)
(* The envelope editor of the client: the list of envelopes of the map,    *)
(* the one the panel shows, the synchronised copy of its points that the   *)
(* user drags and types into, the requests this sends, and the operations  *)
(* of other users that arrive meanwhile.  A point is a time, a value (one  *)
(* channel stands for all of them) and the curve to the next point.        *)
(*                                                                         *)
(* Svelte recomputes the panel's variables once per message, after all the *)
(* operations the message dispatches; Refresh is that moment.              *)
(***************************************************************************)
EXTENDS Pending, FiniteSets, FiniteSetsExt

CONSTANTS
    MaxEnvelopes,   \* bound on the envelopes of the map
    MaxPoints,      \* bound on the points of an envelope
    MaxCalls,       \* bound on the requests on their way
    MaxSteps,       \* bound on the operations of a behaviour
    Times,          \* the times the pointer and the fields reach
    Values,         \* the values they reach
    Full,           \* the largest value of a colour channel (1024 in the code)
    Curves,         \* the curves chosen
    OthersPoints,   \* the point lists that other users send
    AnyDelete,      \* FALSE: other users delete only envelopes after the one shown and after
                    \* those that requests on their way are about, and a deletion of the
                    \* user is answered before anything else happens
    AnyRefusal,     \* TRUE: the server may refuse any request, not only a creation or a name
    Crossings       \* FALSE: one operation of others crosses a request, if it is the
                    \* only one on its way

Types  == {"color", "position"}
Shapes == {"step", "linear", "slow", "fast", "smooth"}
NoEnv  == 0
NoPart == <<[time |-> -1]>>             \* an edit that does not set the points

InOrder(pts) == \A k \in 2..Len(pts) : pts[k - 1].time <= pts[k].time
Point  == [time : Nat, value : Int, curve : Shapes]
Points == {pts \in Seq(Point) : InOrder(pts)}

ASSUME PointsAssumption ==
    /\ Full \in Nat /\ Times \subseteq Int /\ Values \subseteq Int /\ Curves \subseteq Shapes
    /\ \A pts \in OthersPoints : pts \in Seq(Point) /\ InOrder(pts)
ASSUME BoundAssumption ==
    /\ MaxEnvelopes \in Nat /\ MaxPoints \in Nat /\ MaxCalls \in Nat /\ MaxSteps \in Nat
    /\ {AnyDelete, AnyRefusal, Crossings} \subseteq BOOLEAN

VARIABLES
    envs,    \* the envelopes of the map, in order, by identity
    objs,    \* what each envelope object made so far holds: its type and its points
    ed,      \* the panel: index e, envelope shown, its points and the drag
    calls,   \* the requests that are not answered
    steps    \* operations so far

vars == <<envs, objs, ed, calls, steps>>
-----------------------------------------------------------------------------
(* The value of an envelope at a time, as a fraction.                      *)

Cube(n) == n * n * n
ApplyCurve(n, d, curve) ==
    CASE curve = "step"   -> [num |-> 0, den |-> 1]
      [] curve = "linear" -> [num |-> n, den |-> d]
      [] curve = "slow"   -> [num |-> Cube(n), den |-> Cube(d)]
      [] curve = "fast"   -> [num |-> Cube(d) - Cube(d - n), den |-> Cube(d)]
      [] curve = "smooth" -> [num |-> n * n * (3 * d - 2 * n), den |-> Cube(d)]

Interpolate(from, to, f) ==
    [num |-> (from * (f.den - f.num)) + (to * f.num), den |-> f.den]

\* Time wraps between the first and the last point.
WrapFromZero(points, t) ==
    LET duration == Last(points).time - Head(points).time
    IN  IF duration = 0 THEN Head(points).time ELSE t % duration
Wrap(points, t) ==
    LET first    == Head(points).time
        duration == Last(points).time - first
    IN  IF duration = 0 THEN first ELSE first + ((t - first) % duration)

ComputePoint(points, t) ==
    IF points = <<>> THEN [num |-> 0, den |-> 1]
    ELSE LET time == Wrap(points, t)
             next == SelectInSeq(points, LAMBDA p : p.time > time)
         IN  IF next <= 1 THEN [num |-> Head(points).value, den |-> 1]
             ELSE LET p1 == points[next - 1]
                      p2 == points[next]
                  IN  Interpolate(p1.value, p2.value,
                          ApplyCurve(time - p1.time, p2.time - p1.time, p1.curve))

Floor(f) == f.num \div f.den
-----------------------------------------------------------------------------
(* Operations on the list of envelopes, as they are dispatched.            *)

Clamp(n, low, high) == Min({Max({low, n}), high})

\* Colour channels are clamped where they are set, the others are not.
SetValue(point, type, v) ==
    [point EXCEPT !.value = IF type = "color" THEN Clamp(v, 0, Full) ELSE v]

Create(t)    == [kind |-> "create", type |-> t]
Delete(i)    == [kind |-> "delete", e |-> i]
Edit(i, pts) == [kind |-> "edit", e |-> i, points |-> pts]

SetsPoints(op) == op.kind = "edit" /\ op.points # NoPart

Undoing(op) ==
    CASE op.kind = "create" -> Delete(Len(envs) + 1)
      [] op.kind = "edit"   ->
            Edit(op.e, IF op.points = NoPart \/ op.e \notin DOMAIN envs
                       THEN NoPart ELSE objs[envs[op.e]].points)
      [] op.kind = "delete" -> [kind |-> "none"]

InUse(s)  == Range(s.envs) \cup {s.ed.env}
FreeId(s) == Min((1..(Max(InUse(s)) + 1)) \ InUse(s))

With(made, id, obj) ==
    [i \in {id} \cup DOMAIN made |-> IF i = id THEN obj ELSE made[i]]

\* RenderMap's part: the priority listener.
ApplyToMap(s, op) ==
    CASE op.kind = "create" ->
            [s EXCEPT !.envs = Append(@, FreeId(s)),
                      !.objs = With(@, FreeId(s), [type |-> op.type, points |-> <<>>])]
      [] op.kind = "edit" ->
            IF SetsPoints(op) /\ op.e \in DOMAIN s.envs
            THEN [s EXCEPT !.objs[s.envs[op.e]].points = op.points]
            ELSE s
      [] op.kind = "delete" ->
            IF op.e \in DOMAIN s.envs THEN [s EXCEPT !.envs = RemoveAt(@, op.e)] ELSE s

\* The listener of the synchronised points.  Only its subscribers learn the
\* new points; the value the store keeps for itself does not change.
ApplyToPointsAnyEnv(s, op) ==
    IF SetsPoints(op) /\ s.ed.env # NoEnv
    THEN [s EXCEPT !.ed.points = op.points, !.ed.shared = FALSE, !.ed.moved = FALSE]
    ELSE s
ApplyToPoints(s, op) ==
    IF SetsPoints(op) /\ s.ed.env # NoEnv /\ op.e = s.ed.at
    THEN [s EXCEPT !.ed.points = op.points, !.ed.shared = FALSE, !.ed.moved = FALSE]
    ELSE s

Choose(s, i) == [s EXCEPT !.ed.e = i, !.dirty = @ \/ i # s.ed.e]

OnSync(s) ==
    CASE s.ed.env # NoEnv /\ s.envs = <<>> -> Choose(s, 0)
      [] s.ed.env # NoEnv /\ s.envs # <<>> /\ s.ed.env \notin Range(s.envs) ->
            Choose(s, Len(s.envs))
      [] s.ed.env = NoEnv /\ s.envs # <<>> -> Choose(s, 1)
      [] OTHER -> s

Handle(s, op) == OnSync(ApplyToPoints(ApplyToMap(s, op), op))

\* What depends on the index is recomputed when the index was assigned: the
\* envelope shown, and a new store with a copy of its points.
Refresh(s) ==
    IF ~s.dirty THEN s
    ELSE IF s.ed.e = 0 THEN [s EXCEPT !.ed.env = NoEnv]
    ELSE LET pts == s.objs[s.envs[s.ed.e]].points
         IN  [s EXCEPT !.ed.env = s.envs[s.ed.e], !.ed.at = s.ed.e, !.ed.points = pts,
                       !.ed.val = pts, !.ed.shared = TRUE, !.ed.moved = FALSE]

Now == [envs |-> envs, objs |-> objs, ed |-> ed, dirty |-> FALSE]

\* A request whose store was replaced restores nothing any more.
Forget(call) ==
    IF call.then.kind = "restore" THEN [call EXCEPT !.then = [kind |-> "none"]] ELSE call

Become(s, cs) ==
    LET r == Refresh(s)
    IN  /\ envs' = r.envs
        /\ objs' = r.objs
        /\ ed' = r.ed
        /\ calls' = IF s.dirty THEN [k \in DOMAIN cs |-> Forget(cs[k])] ELSE cs
-----------------------------------------------------------------------------
(* Requests: the prediction is dispatched at once.                         *)

Deleting == \E k \in DOMAIN calls : calls[k].op.kind = "delete"
Quiet == AnyDelete \/ ~Deleting
Step == Quiet /\ steps < MaxSteps /\ steps' = steps + 1

Query(s, op, then) ==
    /\ Len(calls) < MaxCalls
    /\ Become(Handle(s, op),
              Append(calls, [op |-> op, reverse |-> Undoing(op), then |-> then,
                             tracked |-> op.kind # "delete"]))

\* sync.sync($syncPoints) after the points were changed in place.
SyncPoints(s, pts) ==
    LET before == IF ed.shared THEN pts ELSE ed.val
    IN  /\ Len(pts) <= MaxPoints
        /\ Query([s EXCEPT !.ed.val = pts], Edit(ed.e, pts),
                 [kind |-> "restore", val |-> IF AnyRefusal THEN before ELSE <<>>])

ChooseEnvelope(i) ==
    /\ Step
    /\ ed.env # NoEnv /\ i \in DOMAIN envs /\ i # ed.e
    /\ Become(Choose(Now, i), calls)

OnRename ==
    /\ Step
    /\ ed.env # NoEnv
    /\ \E i \in DOMAIN envs : envs[i] = ed.env /\ Query(Now, Edit(i, NoPart), [kind |-> "none"])

OnNewEnv(t) ==
    /\ Step
    /\ Len(envs) < MaxEnvelopes
    /\ Query(Now, Create(t), [kind |-> "newest"])

\* That the envelope is in use, by a quad or a layer, is decided elsewhere.
OnDelete ==
    /\ Step
    /\ AnyDelete \/ calls = <<>>
    /\ ed.env # NoEnv
    /\ \E i \in DOMAIN envs :
          envs[i] = ed.env /\ Query(Now, Delete(i), [kind |-> "before", e |-> i])

OnMouseDown(j) ==
    /\ Step
    /\ ed.env # NoEnv /\ ed.drag = 0 /\ j \in DOMAIN ed.points
    /\ ed' = [ed EXCEPT !.drag = j]
    /\ UNCHANGED <<envs, objs, calls>>

\* Another button on a point lets the drag go and sends nothing.
OnOtherButton ==
    /\ ed.drag # 0
    /\ ed' = [ed EXCEPT !.drag = 0]
    /\ UNCHANGED <<envs, objs, calls, steps>>

AnyTime(j, t) == Max({0, t})

\* The new time of point j stays between its neighbours' times.
Between(j, t) ==
    LET n    == Len(ed.points)
        low  == IF j = 1 THEN 0 ELSE ed.points[j - 1].time
        high == Min({Max({0, t})} \cup (IF j = n THEN {} ELSE {ed.points[j + 1].time}))
    IN  Max({low, high})

ShownType == objs[ed.env].type

Locally(pts) ==
    [ed EXCEPT !.points = pts, !.val = IF ed.shared THEN pts ELSE @, !.moved = TRUE]

OnMouseMove(t, v) ==
    /\ ed.env # NoEnv /\ ed.drag \in DOMAIN ed.points
    /\ ed' = Locally([ed.points EXCEPT ![ed.drag] =
                        SetValue([@ EXCEPT !.time = Between(ed.drag, t)], ShownType, v)])
    /\ ed' # ed
    /\ UNCHANGED <<envs, objs, calls, steps>>

OnMouseUp ==
    /\ Quiet
    /\ ed.drag # 0
    /\ IF ed.env = NoEnv
       THEN ed' = [ed EXCEPT !.drag = 0] /\ UNCHANGED <<envs, objs, calls>>
       ELSE SyncPoints([Now EXCEPT !.ed.drag = 0], ed.points)
    /\ UNCHANGED steps

OnEditValue(j, v) ==
    /\ Step
    /\ ed.env # NoEnv /\ j \in DOMAIN ed.points
    /\ SyncPoints(Now, [ed.points EXCEPT ![j] = SetValue(@, ShownType, v)])

OnEditTime(j, t) ==
    /\ Step
    /\ ed.env # NoEnv /\ j \in DOMAIN ed.points
    /\ SyncPoints(Now, [ed.points EXCEPT ![j].time = Between(j, t)])

OnDeletePoint(j) ==
    /\ Step
    /\ ed.env # NoEnv /\ j \in DOMAIN ed.points
    /\ SyncPoints(Now, RemoveAt(ed.points, j))

OnEditCurve(j, c) ==
    /\ Step
    /\ ed.env # NoEnv /\ j \in DOMAIN ed.points
    /\ SyncPoints(Now, [ed.points EXCEPT ![j].curve = c])

\* The value of a new point is that of the envelope in the map at that time.
AddPoint(t) ==
    LET after == SelectInSeq(ed.points, LAMBDA p : p.time >= t)
        at    == IF after = 0 THEN Len(ed.points) + 1 ELSE after
        value == Floor(ComputePoint(objs[ed.env].points, t))
    IN  /\ Step
        /\ ed.env # NoEnv /\ t >= 0
        /\ after # 0 => ed.points[after].time # t
        /\ SyncPoints(Now, InsertAt(ed.points, at,
              SetValue([time |-> t, value |-> 0, curve |-> "linear"], ShownType, value)))
-----------------------------------------------------------------------------
(* Messages of the server.                                                 *)

Handled(ops) == FoldLeft(Handle, Now, ops)

\* The code after the await: on success, and when the request is refused.
Continue(s, then) ==
    CASE then.kind = "newest" -> Choose(s, Len(s.envs))
      [] then.kind = "before" -> Choose(s, then.e - 1)
      [] OTHER -> s
Restore(s, then) ==
    IF then.kind = "restore"
    THEN [s EXCEPT !.ed.points = then.val, !.ed.val = then.val, !.ed.shared = TRUE]
    ELSE s

Accepted ==
    /\ calls # <<>>
    /\ Become(Continue(Now, Head(calls).then), Tail(calls))
    /\ UNCHANGED steps

Refused ==
    /\ calls # <<>>
    /\ LET c == Head(calls)
       IN  /\ AnyRefusal \/ ~(SetsPoints(c.op) \/ c.op.kind = "delete")
           /\ Become(Restore(Handled(AfterRefusal(calls)), c.then), Tail(calls))
    /\ UNCHANGED steps

Others(op) ==
    /\ Step
    /\ Crossings \/ calls = <<>> \/ (Len(calls) = 1 /\ calls[1].tracked)
    /\ Become(Handled(Around(calls, op)), FirstForgotten(calls))

OthersCreate(t) == Len(envs) < MaxEnvelopes /\ Others(Create(t))
OthersEdit(i, pts) == i \in DOMAIN envs /\ Others(Edit(i, pts))
OthersDelete(i) ==
    /\ i \in DOMAIN envs
    /\ AnyDelete \/ i > ed.e
    /\ AnyDelete \/ \A k \in DOMAIN calls : calls[k].op.kind = "edit" => i > calls[k].op.e
    /\ Others(Delete(i))
-----------------------------------------------------------------------------
Panel(e, env, pts) ==
    [e |-> e, env |-> env, at |-> e, points |-> pts, val |-> pts, shared |-> TRUE,
     moved |-> FALSE, drag |-> 0]

\* The panel opens on the last envelope of the map.
Init ==
    /\ envs \in {<<>>, <<1>>, <<1, 2>>}
    /\ \E t \in Types, pts \in OthersPoints :
          /\ objs = [i \in Range(envs) |-> IF i = 1 THEN [type |-> t, points |-> pts]
                                          ELSE [type |-> "color", points |-> <<>>]]
          /\ ed = IF envs = <<>> THEN Panel(0, NoEnv, <<>>)
                  ELSE Panel(Len(envs), Last(envs), objs[Last(envs)].points)
    /\ calls = <<>>
    /\ steps = 0

Editing ==
    \E j \in 1..MaxPoints :
        \/ OnMouseDown(j)
        \/ \E v \in Values : OnEditValue(j, v)
        \/ \E t \in Times : OnEditTime(j, t)
        \/ \E c \in Curves : OnEditCurve(j, c)
        \/ OnDeletePoint(j)

Dragging ==
    \/ \E t \in Times, v \in Values : OnMouseMove(t, v)
    \/ OnMouseUp
    \/ OnOtherButton

FromOthers ==
    \/ \E t \in Types : OthersCreate(t)
    \/ \E i \in 1..MaxEnvelopes :
          OthersDelete(i) \/ \E pts \in OthersPoints : OthersEdit(i, pts)

Next ==
    \/ Editing
    \/ Dragging
    \/ FromOthers
    \/ \E t \in Times : AddPoint(t)
    \/ \E t \in Types : OnNewEnv(t)
    \/ \E i \in 1..MaxEnvelopes : ChooseEnvelope(i)
    \/ OnRename
    \/ OnDelete
    \/ Accepted
    \/ Refused

Spec == Init /\ [][Next]_vars
-----------------------------------------------------------------------------
Fits(o) ==
    /\ o.type \in Types /\ o.points \in Seq(Point)
    /\ o.type = "color" => \A k \in DOMAIN o.points : o.points[k].value \in 0..Full

\* No channel of a color leaves its range in the map, whoever edits, drags or
\* types, and the envelopes are objects of their own.
TypeOK ==
    /\ IsInjective(envs) /\ Range(envs) \subseteq DOMAIN objs
    /\ \A i \in Range(envs) : Fits(objs[i])
    /\ ed.e \in 0..Len(envs) /\ ed.env \in {NoEnv} \cup DOMAIN objs

\* The points of every envelope, and of the one that is being dragged, are in
\* the order of their times, even when the points are replaced under the drag.
TimesInOrder ==
    /\ \A i \in Range(envs) : InOrder(objs[i].points)
    /\ ed.env # NoEnv => InOrder(ed.points)

\* The panel shows an envelope of the map, sends its edits to the index of
\* that envelope, and draws the points it has in the map: all but a drag that
\* has not been sent.  Not so while the envelope is being deleted.
ShownIsStored ==
    /\ TypeOK
    /\ ed.env # NoEnv /\ ~Deleting =>
          /\ ed.e \in DOMAIN envs /\ envs[ed.e] = ed.env /\ ed.at = ed.e
          /\ ~ed.moved => ed.points = objs[ed.env].points

\* The value of an envelope lies between the values of its points at every
\* time, and is the value of a point at the time of that point.
CurveMeetsPoints ==
    \A i \in Range(envs) :
        LET pts    == objs[i].points
            vals   == {pts[k].value : k \in DOMAIN pts}
        IN  pts # <<>> =>
              /\ \A t \in 0..(2 * Max(Times) + 1) :
                    LET f == ComputePoint(pts, t)
                    IN  Min(vals) * f.den <= f.num /\ f.num <= Max(vals) * f.den
              /\ \A k \in 2..Len(pts) : pts[k - 1].time < pts[k].time =>
                    LET f == ComputePoint(pts, pts[k - 1].time)
                    IN  f.num = pts[k - 1].value * f.den
=============================================================================
