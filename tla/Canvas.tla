-------------------------------- MODULE Canvas --------------------------------
(***************************************************************************)
(* A tiles layer and what the client keeps on the graphics card to draw it *)
(* (gl/renderTilesLayer.ts, gl/texture.ts, twmap/tilesLayer.ts): a grid of *)
(* buffers, one for each chunk of the layer, filled once the texture is    *)
(* loaded and refilled when a tile of the chunk changes, and for some      *)
(* kinds of layer the numbers written over the tiles.                      *)
(*                                                                         *)
(* A handler, an arriving image and a frame each run to their end: they    *)
(* are the actions.  The tiles are a flat sequence, row by row, as in the  *)
(* code, and positions are from 0.  A tile has an id and its numbers; a    *)
(* buffer is the tiles that were put into it and the texture they were cut *)
(* from.  Other layers share the textures, and the frame draws them too.   *)
(***************************************************************************)
EXTENDS Integers, Sequences, FiniteSets, SequencesExt, FiniteSetsExt

CONSTANTS
    Images,         \* the images the layer may be drawn with
    PlainTiles,     \* tiles of a layer that is cut from an image of its own
    NumberedTiles,  \* tiles of other layers, with as many as two numbers each
    ChunkSize,      \* 64 in the code
    Smallest, Largest,  \* the sizes the layer may have
    ViewBoxes,      \* the ranges <<from, to>> of a coordinate that a view may show
    EarlyEdits      \* TRUE when tiles change before a loaded texture was drawn

ASSUME SizeAssumption ==
    /\ ChunkSize \in Nat \ {0}
    /\ Smallest \in Nat \ {0} /\ Largest \in Nat /\ Smallest <= Largest
    /\ ViewBoxes \subseteq Int \X Int
(* The tile that a new layer is made of is one of each. *)
ASSUME TileAssumption ==
    /\ PlainTiles \subseteq [id : Nat, numbers : {<<>>}]
    /\ [id |-> 0, numbers |-> <<>>] \in PlainTiles
    /\ NumberedTiles \subseteq [id : Nat, numbers : (0 .. 999) \X (0 .. 999)]
    /\ [id |-> 0, numbers |-> <<0, 0>>] \in NumberedTiles
ASSUME ChoiceAssumption == EarlyEdits \in BOOLEAN /\ Images # {}

VARIABLES
    lines,                  \* numbers of each tile, by the kind of the layer
    width, height, tiles,   \* AnyTilesLayer
    texture,                \* RenderAnyTilesLayer.texture
    buffers, initialized,   \* ... and its buffers, [y][x]
    text,                   \* textBuffer: the numbers, and where they stand
    visible,                \* the group and the layer are shown
    arrived, loaded,        \* images whose data is there; textures on the card
    fontLoaded

layer == <<lines, width, height, tiles>>
card == <<buffers, initialized, text>>
textures == <<arrived, loaded, fontLoaded>>
vars == <<layer, card, texture, textures, visible>>

Font == "font"
Sizes == Smallest .. Largest
(* Switches and speedups have two numbers, teleporters and tunes one.  Only *)
(* a layer without numbers has images to choose from.                      *)
Tile ==
    IF lines = 0 THEN PlainTiles
    ELSE {[t EXCEPT !.numbers = SubSeq(@, 1, lines)] : t \in NumberedTiles}
DefaultTile == [id |-> 0, numbers |-> [k \in 1 .. lines |-> 0]]
OwnImages == IF lines = 0 THEN Images ELSE {CHOOSE i \in Images : TRUE}

-----------------------------------------------------------------------------
(* The tiles: getTile, and growing and shrinking the flat sequence *)

GetTile(ts, w, x, y) == ts[y * w + x + 1]
Fresh(n) == [k \in 1 .. n |-> DefaultTile]
InsertAfter(ts, k, n) == SubSeq(ts, 1, k) \o Fresh(n) \o SubSeq(ts, k + 1, Len(ts))

(* Mutant of Widened: the rows are grown from the first. *)
WidenedForward(ts, w, h, more) ==
    FoldLeft(LAMBDA acc, y : InsertAfter(acc, y * w, more), ts, [y \in 1 .. h |-> y])

(* The rows grow from the last, so that those before keep their places. *)
Widened(ts, w, h, more) ==
    FoldLeft(LAMBDA acc, y : InsertAfter(acc, y * w, more), ts, [y \in 1 .. h |-> h + 1 - y])

SetWidth(ts, w, h, to) ==
    IF to < w
    THEN [k \in 1 .. (to * h) |-> GetTile(ts, w, (k - 1) % to, (k - 1) \div to)]
    ELSE Widened(ts, w, h, to - w)

SetHeight(ts, w, h, to) ==
    IF to < h THEN SubSeq(ts, 1, to * w) ELSE ts \o Fresh((to - h) * w)

-----------------------------------------------------------------------------
(* Buffers *)

Pending == [from |-> "nothing", tiles |-> {}]   \* tileCount is -1
CeilDiv(a, b) == -((-a) \div b)

CellsOf(w, h, cx, cy) ==
    {c \in (0 .. (w - 1)) \X (0 .. (h - 1)) :
        c[1] \div ChunkSize = cx /\ c[2] \div ChunkSize = cy}

(* initChunkBuffer: the tiles of the chunk that are not empty. *)
ChunkBuffer(cx, cy) ==
    [from |-> texture',
     tiles |-> {[at |-> c, tile |-> GetTile(tiles', width', c[1], c[2]).id] :
                   c \in {d \in CellsOf(width', height', cx, cy) :
                            GetTile(tiles', width', d[1], d[2]).id # 0}}]

(* createBuffers: one for each chunk, the last ones in part out of the layer. *)
Grid(filled) ==
    [cy \in 0 .. (CeilDiv(height', ChunkSize) - 1) |->
        [cx \in 0 .. (CeilDiv(width', ChunkSize) - 1) |->
            IF filled THEN ChunkBuffer(cx, cy) ELSE Pending]]

(* recompute: new buffers, filled at once if the texture is loaded. *)
Recompute ==
    IF texture' \in loaded
    THEN buffers' = Grid(TRUE) /\ initialized' = TRUE
    ELSE buffers' = Grid(FALSE) /\ initialized' = FALSE

(* One buffer filled makes the layer initialized, whatever the others are. *)
RecomputeChunk(x, y) ==
    IF texture \in loaded
    THEN LET cx == x \div ChunkSize
             cy == y \div ChunkSize
         IN /\ buffers' = [buffers EXCEPT ![cy][cx] = ChunkBuffer(cx, cy)]
            /\ initialized' = TRUE
    ELSE UNCHANGED <<buffers, initialized>>

(* Mutant of ChunksInView: the chunk the view ends in is not drawn. *)
ChunksInViewShort(from, to, count) ==
    Max({0, from \div ChunkSize}) .. (Min({count, to \div ChunkSize}) - 1)

(* Those that render draws, in one direction. *)
ChunksInView(from, to, count) ==
    Max({0, from \div ChunkSize}) .. (Min({count, CeilDiv(to, ChunkSize)}) - 1)

-----------------------------------------------------------------------------
(* Numbers over tiles *)

SplitNumber(n) == <<n \div 100, (n \div 10) % 10, n % 10>>
Clear == 10     \* the empty place of the font

(* Mutant of Digits: a zero after the first digit is taken for a leading one. *)
DigitsNonzero(n) ==
    LET split == SplitNumber(n)
    IN [k \in 1 .. 3 |-> IF split[k] # 0 \/ k = 3 THEN split[k] ELSE Clear]

(* makeNumberTexCoords: leading zeros are left clear, but for the last digit. *)
Digits(n) ==
    LET split == SplitNumber(n)
    IN [k \in 1 .. 3 |->
          IF k = 3 \/ \E j \in 1 .. k : split[j] # 0 THEN split[k] ELSE Clear]

(* The first number stands above, the second below.                        *)
TextAt(c, k) ==
    [at |-> c, line |-> k, digits |-> Digits(GetTile(tiles', width', c[1], c[2]).numbers[k])]

(* One text for each number of each tile that is not empty.                *)
Texts ==
    {TextAt(p[1], p[2]) : p \in {q \in ((0 .. (width' - 1)) \X (0 .. (height' - 1)))
                                       \X (1 .. lines) :
                                   GetTile(tiles', width', q[1][1], q[1][2]).id # 0}}

Rewrite == text' = Texts

-----------------------------------------------------------------------------
(* Edits *)

(* RenderMap.editTile: only a tile that changes is drawn again. *)
EditTile(x, y, tile) ==
    /\ x < width /\ y < height
    /\ EarlyEdits \/ initialized \/ texture \notin loaded
    /\ tile # GetTile(tiles, width, x, y)
    /\ tiles' = [tiles EXCEPT ![y * width + x + 1] = tile]
    /\ UNCHANGED <<lines, width, height, texture, textures, visible>>
    /\ RecomputeChunk(x, y)
    /\ Rewrite

Resize(w, h) ==
    /\ (w = width) # (h = height)
    /\ width' = w /\ height' = h
    /\ tiles' = IF w # width THEN SetWidth(tiles, width, height, w)
                ELSE SetHeight(tiles, width, height, h)
    /\ UNCHANGED <<lines, texture, textures, visible>>
    /\ Recompute
    /\ Rewrite

(* Mutant of ChangeImage: the buffers are kept. *)
ChangeImageOnly(i) ==
    /\ lines = 0
    /\ i # texture
    /\ texture' = i
    /\ UNCHANGED <<layer, card, textures, visible>>

(* editLayer names another image, or none: only layers without numbers have *)
(* an image of their own.                                                  *)
ChangeImage(i) ==
    /\ lines = 0
    /\ i # texture
    /\ texture' = i
    /\ UNCHANGED <<layer, textures, visible>>
    /\ Recompute
    /\ Rewrite

(* The automapper replaces the tiles of a row. *)
Automap(y, tile) ==
    /\ lines = 0 /\ y < height
    /\ tiles' = [k \in DOMAIN tiles |-> IF (k - 1) \div width = y THEN tile ELSE tiles[k]]
    /\ UNCHANGED <<lines, width, height, texture, textures, visible>>
    /\ Recompute
    /\ Rewrite

Show(v) ==
    /\ visible' = v
    /\ UNCHANGED <<layer, card, texture, textures>>

-----------------------------------------------------------------------------
(* Images and frames *)

(* img.onload; an image that cannot be read never arrives. *)
ImageArrives(i) ==
    /\ i \notin arrived
    /\ arrived' = arrived \cup {i}
    /\ UNCHANGED <<layer, card, texture, loaded, fontLoaded, visible>>

LoadFont == fontLoaded' = IF lines > 0 THEN Font \in arrived ELSE fontLoaded

(* Mutant of Frame: the texture is loaded and the layer left for another edit. *)
FrameLoads ==
    /\ loaded' = IF visible /\ ~initialized /\ texture \in arrived
                 THEN loaded \cup {texture} ELSE loaded
    /\ LoadFont
    /\ UNCHANGED <<layer, card, texture, arrived, visible>>

(* render: a layer that was not drawn yet loads its texture in one frame   *)
(* and fills its buffers in the next; a font is loaded whether the layer   *)
(* is visible or not.                                                      *)
Frame ==
    /\ UNCHANGED <<layer, texture, arrived, visible, text>>
    /\ IF visible /\ ~initialized
       THEN IF texture \in loaded
            THEN buffers' = Grid(TRUE) /\ initialized' = TRUE /\ UNCHANGED loaded
            ELSE /\ loaded' = loaded \cup ({texture} \cap arrived)
                 /\ UNCHANGED <<buffers, initialized>>
       ELSE UNCHANGED <<buffers, initialized, loaded>>
    /\ LoadFont

(* Another layer with this texture is drawn, and loads it. *)
OtherLayerDrawn(i) ==
    /\ i \in arrived \ loaded
    /\ loaded' = loaded \cup {i}
    /\ UNCHANGED <<layer, card, texture, arrived, fontLoaded, visible>>

-----------------------------------------------------------------------------
(* createLayer: as large as the game layer, and empty. *)
Init ==
    /\ lines \in 0 .. 2
    /\ width \in Sizes /\ height \in Sizes
    /\ tiles = Fresh(width * height)
    /\ texture \in OwnImages
    /\ buffers = [cy \in 0 .. (CeilDiv(height, ChunkSize) - 1) |->
                     [cx \in 0 .. (CeilDiv(width, ChunkSize) - 1) |-> Pending]]
    /\ initialized = FALSE /\ text = {}
    /\ visible = TRUE
    /\ arrived = {} /\ loaded = {} /\ fontLoaded = FALSE

Next ==
    \/ \E x, y \in 0 .. (Largest - 1), tile \in Tile : EditTile(x, y, tile)
    \/ \E w, h \in Sizes : Resize(w, h)
    \/ \E i \in OwnImages : ChangeImage(i) \/ OtherLayerDrawn(i)
    \/ \E i \in OwnImages \cup {Font} : ImageArrives(i)
    \/ \E y \in 0 .. (Largest - 1), tile \in Tile : Automap(y, tile)
    \/ \E v \in BOOLEAN : Show(v)
    \/ Frame

(* The browser asks for one frame after another. *)
Spec == Init /\ [][Next]_vars /\ WF_vars(Frame)

-----------------------------------------------------------------------------
(* Properties *)

TypeOK ==
    /\ width \in Sizes /\ height \in Sizes
    /\ tiles \in [1 .. (width * height) -> Tile]
    /\ texture \in Images
    /\ DOMAIN buffers = 0 .. (CeilDiv(height, ChunkSize) - 1)
    /\ \A cy \in DOMAIN buffers : DOMAIN buffers[cy] = 0 .. (CeilDiv(width, ChunkSize) - 1)
    /\ lines \in 0 .. 2 /\ {initialized, visible, fontLoaded} \subseteq BOOLEAN
    /\ loaded \subseteq arrived /\ arrived \subseteq Images \cup {Font}

(* What a buffer should hold. *)
Current(cx, cy) ==
    [from |-> texture,
     tiles |-> {[at |-> c, tile |-> GetTile(tiles, width, c[1], c[2]).id] :
                   c \in {d \in CellsOf(width, height, cx, cy) :
                            GetTile(tiles, width, d[1], d[2]).id # 0}}]

(* Every buffer that was filled shows the tiles the layer has now, cut from *)
(* the texture it has now: no edit, resize or change of image leaves a      *)
(* chunk as it was.  A layer that is drawn is drawn whole.                  *)
DrawnIsCurrent ==
    /\ TypeOK
    /\ \A cy \in DOMAIN buffers : \A cx \in DOMAIN buffers[cy] :
          buffers[cy][cx] \in (IF initialized THEN {} ELSE {Pending}) \cup {Current(cx, cy)}

(* The numbers over the tiles are theirs, whether they are shown or not: a *)
(* reader who skips what is clear reads the number of the tile.            *)
Place(digits) == [k \in 1 .. 3 |-> IF digits[k] = Clear THEN 0 ELSE digits[k]]
Clean(digits) ==
    \A k \in 1 .. 3 : digits[k] = Clear => k < 3 /\ \A j \in 1 .. k : digits[j] = Clear
NumbersRead ==
    /\ {<<t.at, t.line>> : t \in text} =
         {p \in ((0 .. (width - 1)) \X (0 .. (height - 1))) \X (1 .. lines) :
             GetTile(tiles, width, p[1][1], p[1][2]).id # 0}
    /\ \A t \in text :
         LET p == Place(t.digits)
         IN /\ Clean(t.digits)
            /\ 100 * p[1] + 10 * p[2] + p[3]
                 = GetTile(tiles, width, t.at[1], t.at[2]).numbers[t.line]

(* render walks over the chunks that touch the view: no tile in view is    *)
(* left out, however the view lies over the layer.                         *)
NoTileLeftOut ==
    \A h, v \in ViewBoxes : \A x \in 0 .. (width - 1), y \in 0 .. (height - 1) :
        (h[1] < x + 1 /\ x < h[2] /\ v[1] < y + 1 /\ y < v[2])
        => /\ x \div ChunkSize \in ChunksInView(h[1], h[2], Cardinality(DOMAIN buffers[0]))
           /\ y \div ChunkSize \in ChunksInView(v[1], v[2], Cardinality(DOMAIN buffers))

(* When the layer grows or shrinks, the tiles that stay keep their places, *)
(* and those that are new are empty.                                       *)
ResizeKeepsTiles ==
    [][<<width, height>>' # <<width, height>> =>
        \A x \in 0 .. (width' - 1), y \in 0 .. (height' - 1) :
            GetTile(tiles', width', x, y) =
                IF x < width /\ y < height THEN GetTile(tiles, width, x, y) ELSE DefaultTile]_vars

(* A visible layer whose image is there is drawn, unless it is hidden or   *)
(* its image changes first.                                                *)
Ready == visible /\ texture \in arrived
EventuallyDrawn == Ready ~> (initialized \/ ~Ready)
==============================================================================
