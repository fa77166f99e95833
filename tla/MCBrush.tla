------------------------------- MODULE MCBrush -------------------------------
(* Instances of Brush for TLC. *)
EXTENDS Brush

Sheet(layerKind, width, height, Tile(_, _)) ==
    [kind |-> layerKind, w |-> width, h |-> height,
     at |-> [c \in (0 .. width - 1) \X (0 .. height - 1) |-> Tile(c[1], c[2])]]

(* Tiles with every kind of orientation, next to each other. *)
SomeTiles == Sheet("tiles", 2, 1, LAMBDA x, y :
    [id |-> 1 + x, flags |-> IF x = 0 THEN {} ELSE {VFlip, Rotate}])
SomeGame == Sheet("game", 2, 2, LAMBDA x, y :
    [id |-> IF x = y THEN 60 ELSE x, flags |-> IF y = 0 THEN {} ELSE {Rotate}])
SomeSpeedups == Sheet("speedup", 2, 2, LAMBDA x, y :
    [id |-> 28 * y, force |-> 10, angle |-> 90 * x + 180 * y])
Quads == [kind |-> "quads"]
OtherTiles == Sheet("tiles", 1, 2, LAMBDA x, y : [id |-> 4, flags |-> {HFlip}])

Group == <<SomeTiles, OtherTiles, SomeSpeedups, SomeGame, Quads>>
SameKindMoves == {<<1, 2>>}
AllMoves == {<<1, 3>>, <<3, 1>>}

Corners == {Point(-1, 0), Point(1, 1), Point(3, 0)}
\* From tile 61 back to tile 60, a directional game tile.
TilePicks == {<<Point(13, 3), Point(12, 3)>>}
BrushSettings == {<<"force", 300>>, <<"angle", -90>>}
==============================================================================
