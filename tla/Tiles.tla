-------------------------------- MODULE Tiles --------------------------------
(***************************************************************************)
(* Tiles and rectangles of tiles, as the brush of the client's editor      *)
(* handles them: how a tile is turned and mirrored, how it is converted    *)
(* for a layer of another kind, and where its picture's corners come out   *)
(* on the screen.                                                          *)
(*                                                                         *)
(* A rectangle is a sequence of rows.  The flags of a tile are the set of  *)
(* those that are raised (OPAQUE, which no operation reads, is left out),  *)
(* angles are in degrees, and one property stands for each group of them   *)
(* the code treats alike: "force" for force and maxSpeed, "delay" for      *)
(* delay and the switch's number.                                          *)
(***************************************************************************)
EXTENDS Integers, Sequences, SequencesExt, FiniteSetsExt

VFlip == "VFLIP"
HFlip == "HFLIP"
Rotate == "ROTATE"
Flags == {VFlip, HFlip, Rotate}
BothFlips == {VFlip, HFlip}

Xor(s, t) == (s \ t) \cup (t \ s)

FlagKinds == {"tiles", "game", "front"}
DefaultTile(kind) ==
    CASE kind \in FlagKinds -> [id |-> 0, flags |-> {}]
      [] kind = "speedup" -> [id |-> 0, force |-> 50, angle |-> 0]
      [] kind = "switch" -> [id |-> 0, flags |-> {}, delay |-> 0]
      [] kind \in {"tele", "tune"} -> [id |-> 0, number |-> 0]

TileKind(tile) ==
    IF "force" \in DOMAIN tile THEN "speedup"
    ELSE IF "delay" \in DOMAIN tile THEN "switch"
    ELSE IF "flags" \in DOMAIN tile THEN "tiles" ELSE "tele"

(* A tile whose kind is not the layer's keeps its id only. *)
KeepsTile(tile, kind) == TileKind(tile) = kind
AdaptTile(tile, kind) ==
    IF KeepsTile(tile, kind) THEN tile ELSE [DefaultTile(kind) EXCEPT !.id = tile.id]

-----------------------------------------------------------------------------
(* Turning and mirroring a tile *)

Directional(kind, tile) ==
    \/ kind = "game" /\ tile.id \in {60, 61, 64, 65, 67, 224, 225}
    \/ kind = "switch" /\ tile.id \in {224, 225}

Raised(tile) == Rotate \in tile.flags
Toggle(tile, flags) == [tile EXCEPT !.flags = Xor(@, flags)]
TurnArrow(tile, angle) == [tile EXCEPT !.angle = angle % 360]

TileFlipV(kind, tile) ==
    CASE kind = "tiles" -> Toggle(tile, IF Raised(tile) THEN {VFlip} ELSE {HFlip})
      [] Directional(kind, tile) /\ ~Raised(tile) -> Toggle(tile, BothFlips)
      [] kind = "speedup" -> TurnArrow(tile, 360 - tile.angle)
      [] OTHER -> tile
TileFlipH(kind, tile) ==
    CASE kind = "tiles" -> Toggle(tile, IF Raised(tile) THEN {HFlip} ELSE {VFlip})
      [] Directional(kind, tile) /\ Raised(tile) -> Toggle(tile, BothFlips)
      [] kind = "speedup" -> TurnArrow(tile, 540 - tile.angle)
      [] OTHER -> tile
TileRotateCW(kind, tile) ==
    CASE kind = "tiles" \/ Directional(kind, tile) ->
            Toggle(tile, {Rotate} \cup IF Raised(tile) THEN BothFlips ELSE {})
      [] kind = "speedup" -> TurnArrow(tile, tile.angle + 90)
      [] OTHER -> tile
(* Mutant of TileRotateCCW: the flips change in the wrong half of the turns.  *)
TileRotateCCWSwapped(kind, tile) ==
    CASE kind = "tiles" \/ Directional(kind, tile) ->
            Toggle(tile, {Rotate} \cup IF Raised(tile) THEN BothFlips ELSE {})
      [] kind = "speedup" -> TurnArrow(tile, tile.angle + 270)
      [] OTHER -> tile

TileRotateCCW(kind, tile) ==
    CASE kind = "tiles" \/ Directional(kind, tile) ->
            Toggle(tile, {Rotate} \cup IF Raised(tile) THEN {} ELSE BothFlips)
      [] kind = "speedup" -> TurnArrow(tile, tile.angle + 270)
      [] OTHER -> tile

-----------------------------------------------------------------------------
(* Rectangles *)

Width(rows) == Len(rows[1])
Height(rows) == Len(rows)
MapTiles(rows, Op(_)) == [j \in DOMAIN rows |-> [i \in DOMAIN rows[j] |-> Op(rows[j][i])]]

RowsFlipV(rows) == Reverse(rows)
RowsFlipH(rows) == [j \in DOMAIN rows |-> Reverse(rows[j])]
RowsRotateCW(rows) ==
    [j \in 1 .. Width(rows) |->
        [i \in 1 .. Height(rows) |-> rows[Height(rows) + 1 - i][j]]]
RowsRotateCCW(rows) ==
    [j \in 1 .. Width(rows) |->
        [i \in 1 .. Height(rows) |-> rows[i][Width(rows) + 1 - j]]]

Rows(range, Tile(_, _)) ==
    [j \in 1 .. range.end.y - range.start.y + 1 |->
        [i \in 1 .. range.end.x - range.start.x + 1 |->
            Tile(range.start.x + i - 1, range.start.y + j - 1)]]

(* The part of rows between from, inclusive, and to, exclusive: positions are from 0. *)
Truncate(rows, from, to) ==
    [j \in 1 .. to.y - from.y |-> [i \in 1 .. to.x - from.x |-> rows[from.y + j][from.x + i]]]

Repeat(rows, w, h) ==
    [j \in 1 .. h |-> [i \in 1 .. w |->
        rows[((j - 1) % Height(rows)) + 1][((i - 1) % Width(rows)) + 1]]]

Point(px, py) == [x |-> px, y |-> py]
NormalizeRange(range) ==
    [start |-> Point(Min({range.start.x, range.end.x}), Min({range.start.y, range.end.y})),
     end |-> Point(Max({range.start.x, range.end.x}), Max({range.start.y, range.end.y}))]

Clamp(n, low, high) == Min({Max({low, n}), high})

Abs(n) == IF n < 0 THEN -n ELSE n
Sign(n) == IF n < 0 THEN -1 ELSE IF n = 0 THEN 0 ELSE 1

(* Mutant of Bresenham: the errors start at nothing. *)
BresenhamUnbiased(p, q) ==
    LET delta == <<q.x - p.x, q.y - p.y>>
        abs == <<Abs(delta[1]), Abs(delta[2])>>
        longest == Max({abs[1], abs[2]})
        advance(s, i) ==
            LET over == s.error[i] > 0 IN
            [s EXCEPT !.at[i] = IF over THEN @ + Sign(delta[i]) ELSE @,
                      !.error[i] = (IF over THEN @ - 2 * longest ELSE @) + 2 * abs[i]]
        states[n \in 0 .. longest] ==
            IF n = 0 THEN [at |-> <<p.x, p.y>>, error |-> <<0, 0>>]
            ELSE advance(advance(states[n - 1], 1), 2)
    IN  [n \in 1 .. longest + 1 |-> Point(states[n - 1].at[1], states[n - 1].at[2])]

(* bresenham: the error of each axis decides when it advances. *)
Bresenham(p, q) ==
    LET delta == <<q.x - p.x, q.y - p.y>>
        abs == <<Abs(delta[1]), Abs(delta[2])>>
        longest == Max({abs[1], abs[2]})
        advance(s, i) ==
            LET over == s.error[i] > 0 IN
            [s EXCEPT !.at[i] = IF over THEN @ + Sign(delta[i]) ELSE @,
                      !.error[i] = (IF over THEN @ - 2 * longest ELSE @) + 2 * abs[i]]
        states[n \in 0 .. longest] ==
            IF n = 0
            THEN [at |-> <<p.x, p.y>>,
                  error |-> <<2 * abs[1] - longest, 2 * abs[2] - longest>>]
            ELSE advance(advance(states[n - 1], 1), 2)
    IN  [n \in 1 .. longest + 1 |-> Point(states[n - 1].at[1], states[n - 1].at[2])]

-----------------------------------------------------------------------------
(* Pictures: directions are vectors whose y grows downwards. *)

(* makeTexCoords: which corner of the tile's texture each corner of the     *)
(* square on the screen shows, as the texture coordinates are permuted.     *)
ScreenCorners == <<Point(-1, -1), Point(-1, 1), Point(1, 1), Point(1, -1)>>
TexCoords(tile) ==
    LET hflip(ys) == IF HFlip \in tile.flags THEN <<ys[3], ys[4], ys[4], ys[3]>> ELSE ys
        vflip(xs) == IF VFlip \in tile.flags THEN <<xs[2], xs[4], xs[4], xs[2]>> ELSE xs
        ys == hflip(<<-1, 1, 1, -1>>)
        xs == vflip(<<-1, 1, 1, -1>>)
        ry == IF Raised(tile) THEN <<ys[2], ys[3], ys[4], ys[1]>> ELSE ys
        rx == IF Raised(tile) THEN <<xs[4], xs[3], xs[1], xs[2]>> ELSE xs
    IN  <<Point(rx[1], ry[1]), Point(rx[4], ry[2]), Point(rx[2], ry[3]), Point(rx[3], ry[4])>>
==============================================================================
