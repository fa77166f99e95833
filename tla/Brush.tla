-------------------------------- MODULE Brush --------------------------------
(***************************************************************************)
(* The brush of the map editor: rectangles of tiles copied from the        *)
(* selected layers or picked from a tile set, turned and mirrored, and     *)
(* stamped, dragged, filled or erased with the mouse.                      *)
(*                                                                         *)
(* Every handler runs to its end, and Svelte then runs the reactive        *)
(* statements that depend on what it assigned: each action is a handler    *)
(* with those.  An edit is predicted as it is sent, so that the layer has  *)
(* it when the next is computed.  Tiles are objects that the layers of the *)
(* brush may share: layers with the same owner hold the same objects.      *)
(* There is one group, as treeView keeps a selection within a group.       *)
(***************************************************************************)
EXTENDS Tiles, TLC

CONSTANTS
    InitialLayers,  \* the group: each layer a record [kind, w, h, at]
    Positions,      \* where, in tiles, the mouse may be
    Picks,          \* the <<from, to>> drags over the picker's tile set
    Settings,       \* the <<property, input>> pairs the brush editor may get
    Moves,          \* the <<source, target>> of the moves of layers by other users
    MaxStrokes,     \* bound on the handlers that paint
    MaxChanges      \* bound on the handlers that do not

ASSUME BrushAssumption ==
    /\ Moves \subseteq (Nat \X Nat)
    /\ MaxStrokes \in Nat /\ MaxChanges \in Nat

VARIABLES
    layers,     \* the layers of the group, with their tiles
    selected,   \* the layers selected in the tree, the active one last
    brushState, \* "Empty", "Select", "Fill", "Erase" or "Paste"
    shiftKey,   \* whether shift was held when the mouse last moved
    mouseRange, \* the rectangle outlined under the mouse
    brushRange, \* the extent of the brush
    brush,      \* brushBuffer: the brush's layers, <<>> for null
    sent,       \* the edit/tiles requests of the last handler
    copied,     \* the brush as it was copied, picked, or adapted
    turned,     \* the turns and mirrorings since, composed: a matrix
    strokes, changes    \* counts for the bounds

vars == <<layers, selected, brushState, shiftKey, mouseRange, brushRange, brush, sent,
          copied, turned, strokes, changes>>

IsTiles(l) == layers[l].kind # "quads"
Active == Last(selected)
SelectedTileLayers == SelectSeq(selected, IsTiles)
CanPaint == (selected # <<>> /\ IsTiles(Active)) \/ Len(selected) > 1

CellsOf(layer) == (0 .. layer.w - 1) \X (0 .. layer.h - 1)
GetTile(layer, x, y) ==
    IF <<x, y>> \in CellsOf(layer) THEN layer.at[x, y] ELSE DefaultTile(layer.kind)

Dimensions(rows) == [start |-> Point(0, 0), end |-> Point(Width(rows) - 1, Height(rows) - 1)]
Extent(range) == <<range.end.x - range.start.x, range.end.y - range.start.y>>

(* The reactive statements on the state and the shift key, in their order. *)
Settled(state, shift) ==
    LET erasing == IF shift /\ state = "Select" THEN "Erase" ELSE state
    IN  IF ~shift /\ erasing = "Erase" THEN "Select" ELSE erasing

Identity == <<1, 0, 0, 1>>

Init ==
    /\ layers = InitialLayers
    /\ selected = <<1>>
    /\ brushState = "Empty"
    /\ shiftKey = FALSE
    /\ mouseRange = [start |-> Point(0, 0), end |-> Point(0, 0)]
    /\ brushRange = mouseRange
    /\ brush = <<>>
    /\ sent = <<>>
    /\ copied = <<>> /\ turned = Identity
    /\ strokes = 0 /\ changes = 0

-----------------------------------------------------------------------------
(* Painting *)

(* A tile takes the properties it has from the tile that is painted on it. *)
Differs(old, new) == \E key \in DOMAIN old \cap DOMAIN new : old[key] # new[key]
Painted(old, new) == [key \in DOMAIN old |-> IF key \in DOMAIN new THEN new[key] ELSE old[key]]

(* The part of a brush's layer at pos that lies on its target, as a request. *)
Stamp(pos, part) ==
    LET target == layers[part.layer]
        x0 == Clamp(pos.x, 0, target.w)
        y0 == Clamp(pos.y, 0, target.h)
        x1 == Clamp(pos.x + Width(part.rows), 0, target.w)
        y1 == Clamp(pos.y + Height(part.rows), 0, target.h)
    IN  [layer |-> part.layer, x |-> x0, y |-> y0, w |-> x1 - x0, h |-> y1 - y0,
         tiles |-> Truncate(part.rows, Point(x0 - pos.x, y0 - pos.y),
                                       Point(x1 - pos.x, y1 - pos.y))]

Covered(edit) == (edit.x .. edit.x + edit.w - 1) \X (edit.y .. edit.y + edit.h - 1)
TileOf(edit, c) == edit.tiles[c[2] - edit.y + 1][c[1] - edit.x + 1]

(* Mutant of IsChanged: everything is sent. *)
IsChangedAlways(all, edit) == TRUE

IsChanged(all, edit) ==
    \E c \in Covered(edit) : Differs(all[edit.layer].at[c], TileOf(edit, c))

EditTiles(all, edit) ==
    LET target == all[edit.layer] IN
    [all EXCEPT ![edit.layer].at = [c \in CellsOf(target) |->
        IF c \in Covered(edit) THEN Painted(@[c], TileOf(edit, c)) ELSE @[c]]]

PlaceLayer(done, pos, part) ==
    LET edit == Stamp(pos, part) IN
    IF IsChanged(done.layers, edit)
    THEN [layers |-> EditTiles(done.layers, edit), sent |-> Append(done.sent, edit)]
    ELSE done
PlaceTiles(done, pos, parts) ==
    FoldLeft(LAMBDA d, part : PlaceLayer(d, pos, part), done, parts)

Nothing == [layers |-> layers, sent |-> <<>>]
DrawLine(from, to, parts) ==
    FoldLeft(LAMBDA d, p : PlaceTiles(d, p, parts), Nothing, Bresenham(from, to))
Fill(range, parts) ==
    PlaceTiles(Nothing, range.start,
        [k \in DOMAIN parts |-> [parts[k] EXCEPT
            !.rows = Repeat(@, Extent(range)[1] + 1, Extent(range)[2] + 1)]])

Paint(done) ==
    /\ strokes < MaxStrokes
    /\ strokes' = strokes + 1 /\ UNCHANGED changes
    /\ layers' = done.layers
    /\ sent' = done.sent
DoNotPaint ==
    /\ sent' = <<>>
    /\ UNCHANGED <<layers, strokes>>

-----------------------------------------------------------------------------
(* Making a brush *)

FreshOwner(parts) == Min((1 .. Len(parts) + 1) \ {parts[k].owner : k \in DOMAIN parts})

MakeSelection(ll, range, Tile(_, _, _)) ==
    [k \in DOMAIN ll |->
        [layer |-> ll[k], owner |-> k,
         rows |-> Rows(range, LAMBDA x, y : Tile(ll[k], x, y))]]
MakeBoxSelection(ll, range) ==
    MakeSelection(ll, range, LAMBDA l, x, y : GetTile(layers[l], x, y))
MakeEmptySelection(ll, range) ==
    MakeSelection(ll, range, LAMBDA l, x, y : DefaultTile(layers[l].kind))

(* A layer the brush has not yet takes the brush's first, and shares its    *)
(* tiles when no conversion makes new ones.                                 *)
AdaptPart(all, first, l, others) ==
    [layer |-> l,
     owner |-> IF KeepsTile(first.rows[1][1], all[l].kind) THEN first.owner
               ELSE FreshOwner(others),
     rows |-> MapTiles(first.rows, LAMBDA tile : AdaptTile(tile, all[l].kind))]
AdaptBrushToLayers(all, parts, ll) ==
    FoldLeft(LAMBDA new, l :
        LET old == SelectSeq(parts, LAMBDA part : part.layer = l) IN
        Append(new, IF old # <<>> THEN old[1] ELSE AdaptPart(all, parts[1], l, parts \o new)),
        <<>>, ll)

Draw(parts) ==
    /\ brush' = parts
    /\ copied' = parts /\ turned' = Identity
KeepBrush == UNCHANGED <<brush, copied, turned>>

Change == /\ changes < MaxChanges
          /\ changes' = changes + 1

-----------------------------------------------------------------------------
(* The mouse *)

(* updateMouseRange: the range the handlers go on with. *)
UpdatedRange(state, range, extent, pos) ==
    IF state = "Paste"
    THEN [start |-> pos, end |-> Point(pos.x + extent[1], pos.y + extent[2])]
    ELSE [range EXCEPT !.end = pos]
Moved(pos) == UpdatedRange(brushState, mouseRange, Extent(brushRange), pos)

(* onMouseDown with the left button. *)
Press(pos, shift) ==
    /\ CanPaint
    /\ UNCHANGED <<selected, shiftKey>>
    /\ KeepBrush
    /\ \/ /\ brushState = "Empty"
          /\ mouseRange' = [start |-> pos, end |-> pos]
          /\ brushRange' = [brushRange EXCEPT !.start = pos]
          /\ brushState' = Settled(IF shift THEN "Erase" ELSE "Select", shiftKey)
          /\ DoNotPaint
          /\ Change
       \/ /\ brushState = "Paste" /\ ~shift
          /\ mouseRange' = Moved(pos)
          /\ Paint(PlaceTiles(Nothing, pos, brush))
          /\ UNCHANGED <<brushState, brushRange>>
       \/ /\ brushState = "Paste" /\ shift
          /\ mouseRange' = Moved(pos)
          /\ brushState' = "Fill"
          /\ UNCHANGED brushRange
          /\ DoNotPaint
          /\ Change

(* onMouseMove, with the left button held or not. *)
Move(pos, shift, held) ==
    /\ shiftKey' = shift
    /\ brushState' = Settled(brushState, shift)
    /\ mouseRange' = IF CanPaint THEN Moved(pos) ELSE mouseRange
    /\ mouseRange' # mouseRange \/ shiftKey' # shiftKey
    /\ IF CanPaint /\ held /\ brushState = "Paste"
       THEN Paint(DrawLine(mouseRange.start, pos, brush))
       ELSE DoNotPaint /\ Change
    /\ UNCHANGED <<selected, brushRange>>
    /\ KeepBrush

(* onMouseUp. *)
Release(pos) ==
    /\ SelectedTileLayers # <<>>
    /\ UNCHANGED <<selected, shiftKey>>
    /\ LET moved == Moved(pos) IN
       \/ /\ brushState = "Select"
          /\ LET range == NormalizeRange([brushRange EXCEPT !.end = moved.end]) IN
             /\ brushRange' = range
             /\ Draw(MakeBoxSelection(SelectedTileLayers, range))
             /\ mouseRange' = UpdatedRange("Paste", moved, Extent(range), pos)
          /\ brushState' = "Paste"
          /\ DoNotPaint
          /\ Change
       \/ /\ brushState = "Fill"
          /\ mouseRange' = moved
          /\ Paint(Fill(NormalizeRange(moved), brush))
          /\ brushState' = "Paste"
          /\ UNCHANGED brushRange
          /\ KeepBrush
       \/ /\ brushState = "Erase"
          /\ mouseRange' = moved
          /\ LET range == NormalizeRange(moved) IN
             Paint(Fill(range, MakeEmptySelection(SelectedTileLayers, range)))
          /\ brushState' = IF brush = <<>> THEN "Empty" ELSE "Paste"
          /\ UNCHANGED brushRange
          /\ KeepBrush

(* onContextMenu. *)
Drop ==
    /\ brushState # "Empty"
    /\ brushState' = "Empty"
    /\ Draw(<<>>)
    /\ DoNotPaint
    /\ Change
    /\ UNCHANGED <<selected, shiftKey, mouseRange, brushRange>>

-----------------------------------------------------------------------------
(* The tile picker, the brush editor and the tree *)

(* Mutant of Outline: the outline keeps the extent it had. *)
OutlineKept(rows) ==
    /\ UNCHANGED brushRange
    /\ mouseRange' = [mouseRange EXCEPT !.end =
                        Point(mouseRange.start.x + Extent(brushRange)[1],
                              mouseRange.start.y + Extent(brushRange)[2])]

Outline(rows) ==
    /\ brushRange' = Dimensions(rows)
    /\ mouseRange' = [mouseRange EXCEPT !.end =
                        Point(mouseRange.start.x + Width(rows) - 1,
                              mouseRange.start.y + Height(rows) - 1)]

(* onTilePick. *)
TilesPicked(rows) ==
    LET picked == << [layer |-> Active, owner |-> 1, rows |-> rows] >> IN
    /\ Draw(AdaptBrushToLayers(layers, picked, SelectedTileLayers))
    /\ brushState' = "Paste"
    /\ Outline(rows)

(* The tile picker's makeBoxSelection: tiles of a set of 16 by 16. *)
PickerSelection(kind, range) ==
    Rows(range, LAMBDA x, y : [DefaultTile(kind) EXCEPT !.id = 16 * y + x])

(* The picker's mouse handlers, from the button's press to its release. *)
Pick(from, to) ==
    /\ selected # <<>> /\ IsTiles(Active)
    /\ TilesPicked(PickerSelection(layers[Active].kind,
                                   NormalizeRange([start |-> from, end |-> to])))
    /\ DoNotPaint
    /\ Change
    /\ UNCHANGED <<selected, shiftKey>>

(* The handlers of the brush editor go over the tiles of every layer of the *)
(* brush, so that a tile that several layers share is changed several times. *)
Reworked(TileOp(_, _), RowsOp(_)) ==
    [k \in DOMAIN brush |->
        LET sharers == SelectSeq(brush, LAMBDA part : part.owner = brush[k].owner)
            rework(tile) ==
                FoldLeft(LAMBDA t, part : TileOp(layers[part.layer].kind, t), tile, sharers)
        IN  [brush[k] EXCEPT !.rows = RowsOp(MapTiles(@, rework))]]

Compose(m, n) ==    \* the matrix m after the matrix n
    <<m[1] * n[1] + m[2] * n[3], m[1] * n[2] + m[2] * n[4],
      m[3] * n[1] + m[4] * n[3], m[3] * n[2] + m[4] * n[4]>>

Rework(TileOp(_, _), RowsOp(_), matrix) ==
    /\ brush # <<>>
    /\ brush' = Reworked(TileOp, RowsOp)
    /\ Outline(brush'[1].rows)
    /\ turned' = Compose(matrix, turned)
    /\ DoNotPaint
    /\ Change
    /\ UNCHANGED <<selected, brushState, shiftKey, copied>>

FlipV == Rework(TileFlipV, RowsFlipV, <<1, 0, 0, -1>>)
FlipH == Rework(TileFlipH, RowsFlipH, <<-1, 0, 0, 1>>)
RotateCW == Rework(TileRotateCW, RowsRotateCW, <<0, -1, 1, 0>>)
RotateCCW == Rework(TileRotateCCW, RowsRotateCCW, <<0, 1, -1, 0>>)

(* The brush editor's inputs, when they hold a number. *)
InputValue(property, input) ==
    IF property = "angle" THEN input % 360 ELSE Clamp(input, 0, 255)

(* onSetProperty, whose inputs are shown for a brush of one layer. *)
SetProperty(property, input) ==
    /\ Len(brush) = 1
    /\ LET value == InputValue(property, input)
           set(tile) == IF property \in DOMAIN tile
                        THEN [tile EXCEPT ![property] = value] ELSE tile
       IN  Draw(<< [brush[1] EXCEPT !.rows = MapTiles(@, set)] >>)
    /\ Outline(brush[1].rows)
    /\ DoNotPaint
    /\ Change
    /\ UNCHANGED <<selected, brushState, shiftKey>>

(* onLayerSelectionChanged, when the selection is ll and the layers all. *)
SelectionChanged(all, ll) ==
    LET tileLayers == SelectSeq(ll, LAMBDA l : all[l].kind # "quads") IN
    IF brush = <<>> THEN KeepBrush /\ UNCHANGED brushState
    ELSE IF tileLayers = <<>> \/ all[Last(ll)].kind = "quads"
    THEN Draw(<<>>) /\ brushState' = "Empty"
    ELSE Draw(AdaptBrushToLayers(all, brush, tileLayers)) /\ UNCHANGED brushState

(* treeView's select: a click, and a click with shift. *)
Select(l, shift) ==
    LET others == SelectSeq(selected, LAMBDA k : k # l)
        ll == IF shift THEN Append(others, l) ELSE <<l>>
    IN  /\ ll # selected
        /\ selected' = ll
        /\ SelectionChanged(layers, ll)
        /\ DoNotPaint
        /\ Change
        /\ UNCHANGED <<shiftKey, mouseRange, brushRange>>

(* onReorderLayer: the active layer is found again, the others are not. *)
MoveLayer(src, tgt) ==
    LET order == [l \in DOMAIN layers |-> l]
        moved == InsertAt(RemoveAt(order, src), tgt, src)
        all == [l \in DOMAIN layers |-> layers[moved[l]]]
        ll == Append(Front(selected), CHOOSE l \in DOMAIN moved : moved[l] = Active)
    IN  /\ layers' = all
        /\ selected' = ll
        /\ SelectionChanged(all, ll)
        /\ sent' = <<>>
        /\ Change
        /\ UNCHANGED <<shiftKey, mouseRange, brushRange, strokes>>

-----------------------------------------------------------------------------
Next ==
    \/ \E pos \in Positions : \/ \E shift \in BOOLEAN : Press(pos, shift)
                              \/ \E shift, held \in BOOLEAN : Move(pos, shift, held)
                              \/ Release(pos)
    \/ Drop
    \/ \E drag \in Picks : Pick(drag[1], drag[2])
    \/ FlipV \/ FlipH \/ RotateCW \/ RotateCCW
    \/ \E s \in Settings : SetProperty(s[1], s[2])
    \/ \E l \in DOMAIN layers, shift \in BOOLEAN : Select(l, shift)
    \/ \E m \in Moves : MoveLayer(m[1], m[2])

Spec == Init /\ [][Next]_vars

-----------------------------------------------------------------------------
(* Properties *)

(* Types: the mouse handlers' state, and brushes whose layers are tiles      *)
(* layers of the group (mapEditor.svelte).                                   *)
TypeOK ==
    /\ brushState \in {"Empty", "Select", "Fill", "Erase", "Paste"}
    /\ shiftKey \in BOOLEAN
    /\ selected \in Seq(DOMAIN layers)
    /\ \A k \in DOMAIN brush : brush[k].layer \in DOMAIN layers /\ IsTiles(brush[k].layer)
    /\ strokes \in 0 .. MaxStrokes /\ changes \in 0 .. MaxChanges

Times(m, v) == Point(m[1] * v.x + m[2] * v.y, m[3] * v.x + m[4] * v.y)

(* Where on the screen the top of a tile's texture is; an arrow's tip.       *)
Facing(tile) ==
    IF "angle" \in DOMAIN tile
    THEN CASE tile.angle = 0 -> Point(1, 0)  [] tile.angle = 90 -> Point(0, 1)
           [] tile.angle = 180 -> Point(-1, 0) [] tile.angle = 270 -> Point(0, -1)
    ELSE LET top == {c \in 1 .. 4 : TexCoords(tile)[c].y = -1}
             sum(f(_)) == FoldSet(LAMBDA c, n : n + f(ScreenCorners[c]), 0, top)
         IN  Point(sum(LAMBDA c : c.x) \div 2, sum(LAMBDA c : c.y) \div 2)

CornerAt(tile, v) == TexCoords(tile)[CHOOSE c \in 1 .. 4 : ScreenCorners[c] = v]

(* old, turned and mirrored by matrix, looks like new on a layer of the kind. *)
LooksTurned(kind, old, new, matrix) ==
    /\ old.id = new.id
    /\ kind = "speedup" \/ Directional(kind, old) => Facing(new) = Times(matrix, Facing(old))
    /\ kind = "tiles" => \A c \in 1 .. 4 :
            CornerAt(new, Times(matrix, ScreenCorners[c])) = CornerAt(old, ScreenCorners[c])

(* However often a brush is turned and mirrored, it looks like the picture   *)
(* that was copied, turned and mirrored as a whole: each tile is where the   *)
(* operations carry it, its flags make the renderer show it turned the same  *)
(* way, and arrows and directional game tiles point where they should        *)
(* (editBrush.svelte against makeTexCoords of renderTilesLayer.ts).  Layers   *)
(* that share their tiles are left out: the tiles are turned once for each.  *)
SharesTiles(k) == \E m \in DOMAIN brush \ {k} : brush[m].owner = brush[k].owner
BrushTurned ==
    \A k \in {n \in DOMAIN brush : ~SharesTiles(n)} :
        LET old == copied[k].rows
            new == brush[k].rows
            centred(rows, i, j) == Point(2 * i - Width(rows) - 1, 2 * j - Height(rows) - 1)
        IN  \A j \in 1 .. Height(old), i \in 1 .. Width(old) :
                LET v == Times(turned, centred(old, i, j)) IN
                \E j2 \in 1 .. Height(new), i2 \in 1 .. Width(new) :
                    /\ centred(new, i2, j2) = v
                    /\ LooksTurned(layers[brush[k].layer].kind, old[j][i], new[j2][i2], turned)

WireKind(kind) ==
    IF kind \in FlagKinds THEN "tiles" ELSE IF kind = "tune" THEN "tele" ELSE kind

(* What a stroke sends is what the server can take: a rectangle that is not  *)
(* empty and lies on the layer, wherever the mouse was, with as many tiles   *)
(* as it has cells, each of the kind whose bytes the layer reads (placeTiles,*)
(* whose range is clamped at both ends, and adaptBrushToLayers).             *)
StrokesFit ==
    \A n \in DOMAIN sent :
        LET edit == sent[n]  target == layers[edit.layer] IN
        /\ Covered(edit) # {} /\ Covered(edit) \subseteq CellsOf(target)
        /\ Height(edit.tiles) = edit.h
        /\ \A j \in 1 .. edit.h : Len(edit.tiles[j]) = edit.w
        /\ \A c \in Covered(edit) : TileKind(TileOf(edit, c)) = WireKind(target.kind)

(* A drag leaves no gap and goes nowhere else: from any outline to any       *)
(* position, the points drawn start and end there, each touches the next,    *)
(* and none is farther than half a tile from the straight line (bresenham).  *)
LineIsDrawn ==
    \A pos \in Positions :
        LET p == mouseRange.start
            line == Bresenham(p, pos)
            dx == pos.x - p.x
            dy == pos.y - p.y
        IN  /\ line[1] = p /\ Last(line) = pos
            /\ \A n \in 1 .. Len(line) - 1 :
                Max({Abs(line[n + 1].x - line[n].x), Abs(line[n + 1].y - line[n].y)}) = 1
            /\ \A n \in DOMAIN line :
                2 * Abs(dx * (line[n].y - p.y) - dy * (line[n].x - p.x))
                    <= Max({Abs(dx), Abs(dy)})

(* The outline the user sees is the brush that a click would stamp: there is *)
(* a brush exactly in the states that paint with it, and its extent is that  *)
(* of every layer of it, through turns, picks, changes of the selection and  *)
(* interrupted selections (brushRange of mapEditor.svelte).                  *)
OutlineIsBrush ==
    /\ TypeOK
    /\ brush = <<>> <=> brushState \in {"Empty", "Select", "Erase"}
    /\ \A k \in DOMAIN brush :
        /\ Extent(brushRange) = <<Width(brush[k].rows) - 1, Height(brush[k].rows) - 1>>
        /\ brush[k].layer \in ToSet(SelectedTileLayers)
==============================================================================
