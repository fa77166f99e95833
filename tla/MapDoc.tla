------------------------------- MODULE MapDoc -------------------------------
(***************************************************************************)
(* The map a room holds, as the server edits it: images, envelopes, and    *)
(* groups of layers.  Layers and quads refer to images and envelopes by    *)
(* index, so that every operation that shifts indices has to repair every  *)
(* reference, and the layers that carry the game's physics obey rules of   *)
(* their own.                                                              *)
(*                                                                         *)
(* A handler holds the room's write lock from its first read of the map to *)
(* its last write, so each is one action; a refused request is no step,    *)
(* unless the handler changed something before it refused, or panicked.    *)
(* Indices are positions from 1 here, and 0 stands for a reference that is *)
(* None.  Names, colours, tiles, points and positions are left out.        *)
(***************************************************************************)
EXTENDS Naturals, Sequences, FiniteSets, SequencesExt

CONSTANTS
    TileImages, QuadImages, \* images whose size is, and is not, a multiple of 16
    ColorEnvs, PositionEnvs,
    PhysicsKinds,       \* kinds of physics layer besides the game layer
    MaxImages,          \* 64 in the code
    MaxEnvelopes, MaxGroups, MaxLayers, MaxQuads,   \* u16::MAX in the code
    Resizes,            \* the <<width, height>> requests ask for, 0 for None
    Smallest, Largest,  \* the sizes a layer may have: 2 and 10000 in the code
    BackwardMoves,      \* TRUE when images and envelopes are also moved to the front
    MovesPastEnd        \* TRUE when a move may name the position after the last

ASSUME BoundAssumption ==
    /\ {MaxImages, MaxEnvelopes, MaxGroups, MaxLayers, MaxQuads} \subseteq Nat
    /\ 0 < MaxGroups /\ Smallest \in Nat /\ Largest \in Nat /\ 0 < Smallest /\ Smallest <= Largest
ASSUME ResizeAssumption == Resizes \subseteq Nat \X Nat
ASSUME KindAssumption ==
    /\ TileImages \cap QuadImages = {} /\ ColorEnvs \cap PositionEnvs = {}
    /\ {"game", "tiles", "quads"} \cap PhysicsKinds = {}
ASSUME MoveAssumption == BackwardMoves \in BOOLEAN /\ MovesPastEnd \in BOOLEAN

VARIABLES
    images,     \* TwMap.images
    envelopes,  \* TwMap.envelopes
    groups      \* TwMap.groups: each is the sequence of its layers

vars == <<images, envelopes, groups>>

Images == TileImages \cup QuadImages
Envs == ColorEnvs \cup PositionEnvs
None == 0

PhysicsLayer(kind, w, h) == [kind |-> kind, w |-> w, h |-> h]
TilesLayer(w, h, i, e) == [kind |-> "tiles", w |-> w, h |-> h, image |-> i, env |-> e]
QuadsLayer(i, qs) == [kind |-> "quads", image |-> i, quads |-> qs]

Quad == [pos : Nat, color : Nat]
Layer ==
    [kind : {"game"} \cup PhysicsKinds, w : Nat, h : Nat]
    \cup [kind : {"tiles"}, w : Nat, h : Nat, image : Nat, env : Nat]
    \cup [kind : {"quads"}, image : Nat, quads : Seq(Quad)]

TypeOK ==
    /\ images \in Seq(Images) /\ Len(images) <= MaxImages
    /\ envelopes \in Seq(Envs) /\ Len(envelopes) <= MaxEnvelopes
    /\ groups \in Seq(Seq(Layer)) /\ Len(groups) <= MaxGroups

(* create_map, CreationMethod::Blank: a physics group with a game layer. *)
Init ==
    /\ images = <<>>
    /\ envelopes = <<>>
    /\ groups = << << PhysicsLayer("game", Smallest, Smallest) >> >>

-----------------------------------------------------------------------------
(* Reading the map *)

IsPhysics(layer) == layer.kind \in {"game"} \cup PhysicsKinds
IsPhysicsGroup(group) == \E l \in DOMAIN group : group[l].kind = "game"

Spots == UNION {{g} \X DOMAIN groups[g] : g \in DOMAIN groups}
At(spot) == groups[spot[1]][spot[2]]
GameLayer == At(CHOOSE spot \in Spots : At(spot).kind = "game")

HasImage(layer) == layer.kind \in {"tiles", "quads"}
ImageInUse(i) == \E s \in Spots : HasImage(At(s)) /\ At(s).image = i
EnvInUse(e) ==
    \E s \in Spots :
        \/ At(s).kind = "tiles" /\ At(s).env = e
        \/ At(s).kind = "quads" /\ \E q \in DOMAIN At(s).quads :
               At(s).quads[q].pos = e \/ At(s).quads[q].color = e

(* What requests may refer to: checks.rs, check_map. *)
TileImageRefs == {None} \cup {i \in DOMAIN images : images[i] \in TileImages}
ImageRefs == {None} \cup DOMAIN images
ColorRefs == {None} \cup {e \in DOMAIN envelopes : envelopes[e] \in ColorEnvs}
PositionRefs == {None} \cup {e \in DOMAIN envelopes : envelopes[e] \in PositionEnvs}

-----------------------------------------------------------------------------
(* Repairing references: twmap's edit_image_indices and edit_env_indices *)

WithImages(layer, f) ==
    IF HasImage(layer) THEN [layer EXCEPT !.image = f[@]] ELSE layer

WithEnvs(layer, f) ==
    CASE layer.kind = "tiles" -> [layer EXCEPT !.env = f[@]]
      [] layer.kind = "quads" ->
           [layer EXCEPT !.quads =
               [q \in DOMAIN @ |-> [pos |-> f[@[q].pos], color |-> f[@[q].color]]]]
      [] OTHER -> layer

ReindexImages(f) ==
    [g \in DOMAIN groups |-> [l \in DOMAIN groups[g] |-> WithImages(groups[g][l], f)]]
ReindexEnvs(f) ==
    [g \in DOMAIN groups |-> [l \in DOMAIN groups[g] |-> WithEnvs(groups[g][l], f)]]

(* Mutant: the element after the removed one keeps its index. *)
AfterRemovalLate(i, n) == [k \in 0 .. n |-> IF k > i + 1 THEN k - 1 ELSE k]

(* Where each index goes when the element i of n is removed. *)
AfterRemoval(i, n) == [k \in 0 .. n |-> IF k > i THEN k - 1 ELSE k]

(* Mutant: only the moved element gets a new index. *)
AfterMoveAlone(src, tgt, n) == [k \in 0 .. n |-> IF k = src THEN tgt ELSE k]

(* ... and when it moves from src to tgt, as move_image and move_envelope have
   it: elements a move towards the front pushes back are not considered. *)
AfterMove(src, tgt, n) ==
    [k \in 0 .. n |-> IF k = src THEN tgt
                      ELSE IF src < k /\ k <= tgt THEN k - 1
                      ELSE k]

(* Vec::remove then Vec::insert.  Removing past the end panics; so does
   inserting past the end, when the element is out of the vector already. *)
Moved(s, src, tgt) ==
    IF src > Len(s) THEN s
    ELSE IF tgt > Len(s) THEN RemoveAt(s, src)
    ELSE InsertAt(RemoveAt(s, src), tgt, s[src])

(* Positions the bound checks of the moves let through: "> len", from 0. *)
Movable(s) == 1 .. (IF MovesPastEnd THEN Len(s) + 1 ELSE Len(s))
RefMoves(s) == {m \in Movable(s) \X Movable(s) : BackwardMoves \/ m[1] <= m[2]}

-----------------------------------------------------------------------------
(* Images *)

PutImage(i) ==
    /\ Len(images) # MaxImages
    /\ i \notin Range(images)
    /\ images' = Append(images, i)
    /\ UNCHANGED <<envelopes, groups>>

DeleteImage(i) ==
    /\ i \in DOMAIN images
    /\ ~ ImageInUse(i)
    /\ images' = RemoveAt(images, i)
    /\ groups' = ReindexImages(AfterRemoval(i, Len(images)))
    /\ UNCHANGED envelopes

(* The references are repaired first, whatever becomes of the move. *)
MoveImage(src, tgt) ==
    /\ <<src, tgt>> \in RefMoves(images)
    /\ groups' = ReindexImages(AfterMove(src, tgt, Len(images)))
    /\ images' = Moved(images, src, tgt)
    /\ UNCHANGED envelopes

-----------------------------------------------------------------------------
(* Envelopes *)

PutEnvelope(e) ==
    /\ Len(envelopes) # MaxEnvelopes
    /\ e \notin Range(envelopes)
    /\ envelopes' = Append(envelopes, e)
    /\ UNCHANGED <<images, groups>>

DeleteEnvelope(e) ==
    /\ e \in DOMAIN envelopes
    /\ ~ EnvInUse(e)
    /\ envelopes' = RemoveAt(envelopes, e)
    /\ groups' = ReindexEnvs(AfterRemoval(e, Len(envelopes)))
    /\ UNCHANGED images

MoveEnvelope(src, tgt) ==
    /\ <<src, tgt>> \in RefMoves(envelopes)
    /\ groups' = ReindexEnvs(AfterMove(src, tgt, Len(envelopes)))
    /\ envelopes' = Moved(envelopes, src, tgt)
    /\ UNCHANGED images

-----------------------------------------------------------------------------
(* Groups *)

PutGroup ==
    /\ Len(groups) # MaxGroups
    /\ groups' = Append(groups, <<>>)
    /\ UNCHANGED <<images, envelopes>>

DeleteGroup(g) ==
    /\ g \in DOMAIN groups
    /\ ~ IsPhysicsGroup(groups[g])
    /\ groups' = RemoveAt(groups, g)
    /\ UNCHANGED <<images, envelopes>>

MoveGroup(src, tgt) ==
    /\ {src, tgt} \subseteq Movable(groups)
    /\ groups' = Moved(groups, src, tgt)
    /\ UNCHANGED <<images, envelopes>>

-----------------------------------------------------------------------------
(* Layers *)

HasGameLayer == \E s \in Spots : At(s).kind = "game"

NewLayer(g, layer) ==
    /\ Cardinality(Spots) # MaxLayers
    /\ g \in DOMAIN groups
    /\ groups' = [groups EXCEPT ![g] = Append(@, layer)]
    /\ UNCHANGED <<images, envelopes>>

(* put_layer: a map that lost its game layer makes it panic. *)
PutPhysics(g, kind) ==
    /\ HasGameLayer
    /\ NewLayer(g, PhysicsLayer(kind, GameLayer.w, GameLayer.h))
    /\ IsPhysicsGroup(groups[g])
    /\ \A l \in DOMAIN groups[g] : groups[g][l].kind # kind

PutTiles(g, i, e) ==
    /\ HasGameLayer
    /\ i \in TileImageRefs /\ e \in ColorRefs
    /\ NewLayer(g, TilesLayer(GameLayer.w, GameLayer.h, i, e))

PutQuads(g, i) ==
    /\ HasGameLayer
    /\ i \in ImageRefs
    /\ NewLayer(g, QuadsLayer(i, <<>>))

Fits(n) == n = 0 \/ n \in Smallest .. Largest
Resized(n, old) == IF n = 0 THEN old ELSE n

(* set_layer_width, then set_layer_height unless the width was refused. *)
Reshaped(layer, size) ==
    IF ~ Fits(size[1]) THEN layer
    ELSE IF ~ Fits(size[2]) THEN [layer EXCEPT !.w = Resized(size[1], @)]
    ELSE [layer EXCEPT !.w = Resized(size[1], @), !.h = Resized(size[2], @)]

(* Mutant: only the layer named in the request is resized. *)
EditPhysicsAlone(s, size) ==
    /\ s \in Spots /\ IsPhysics(At(s))
    /\ groups' = [groups EXCEPT ![s[1]][s[2]] = Reshaped(@, size)]
    /\ UNCHANGED <<images, envelopes>>

(* All physics layers of the group are resized; at the first that refuses the
   request fails and those after it keep their size. *)
EditPhysics(s, size) ==
    /\ s \in Spots /\ IsPhysics(At(s))
    /\ LET group == groups[s[1]]
           fits == Fits(size[1]) /\ Fits(size[2])
           reached == {l \in DOMAIN group :
                         fits \/ \A k \in 1 .. (l - 1) : ~ IsPhysics(group[k])}
       IN  groups' = [groups EXCEPT ![s[1]] =
                         [l \in DOMAIN @ |-> IF IsPhysics(@[l]) /\ l \in reached
                                             THEN Reshaped(@[l], size) ELSE @[l]]]
    /\ UNCHANGED <<images, envelopes>>

(* The references, checked first, are stored if the size was accepted; one
   the request does not name stays as it is. *)
EditTiles(s, size, i, e) ==
    /\ s \in Spots /\ At(s).kind = "tiles"
    /\ i \in TileImageRefs \cup {At(s).image}
    /\ e \in ColorRefs \cup {At(s).env}
    /\ groups' = [groups EXCEPT ![s[1]][s[2]] =
                     IF Fits(size[1]) /\ Fits(size[2])
                     THEN [Reshaped(@, size) EXCEPT !.image = i, !.env = e]
                     ELSE Reshaped(@, size)]
    /\ UNCHANGED <<images, envelopes>>

EditQuads(s, i) ==
    /\ s \in Spots /\ At(s).kind = "quads"
    /\ i \in ImageRefs
    /\ groups' = [groups EXCEPT ![s[1]][s[2]].image = i]
    /\ UNCHANGED <<images, envelopes>>

DeleteLayer(s) ==
    /\ s \in Spots /\ At(s).kind # "game"
    /\ groups' = [groups EXCEPT ![s[1]] = RemoveAt(@, s[2])]
    /\ UNCHANGED <<images, envelopes>>

MoveLayer(src, tgt) ==
    /\ src \in Spots /\ tgt[1] \in DOMAIN groups
    /\ IsPhysics(At(src)) => src[1] = tgt[1]
    /\ tgt[2] \in 1 .. (Len(groups[tgt[1]]) + (IF tgt[1] = src[1] THEN 0 ELSE 1))
    /\ LET taken == [groups EXCEPT ![src[1]] = RemoveAt(@, src[2])]
       IN  groups' = [taken EXCEPT ![tgt[1]] = InsertAt(@, tgt[2], At(src))]
    /\ UNCHANGED <<images, envelopes>>

-----------------------------------------------------------------------------
(* Quads *)

QuadSpots == {s \in Spots : At(s).kind = "quads"}

EditedQuads(s, quads) ==
    /\ groups' = [groups EXCEPT ![s[1]][s[2]].quads = quads]
    /\ UNCHANGED <<images, envelopes>>

PutQuad(s, p, c) ==
    /\ s \in QuadSpots /\ Len(At(s).quads) # MaxQuads
    /\ p \in PositionRefs /\ c \in ColorRefs
    /\ EditedQuads(s, Append(At(s).quads, [pos |-> p, color |-> c]))

EditQuad(s, q, p, c) ==
    /\ s \in QuadSpots /\ q \in DOMAIN At(s).quads
    /\ p \in PositionRefs /\ c \in ColorRefs
    /\ EditedQuads(s, [At(s).quads EXCEPT ![q] = [pos |-> p, color |-> c]])

DeleteQuad(s, q) ==
    /\ s \in QuadSpots /\ q \in DOMAIN At(s).quads
    /\ EditedQuads(s, RemoveAt(At(s).quads, q))

(* The bounds of src and tgt are checked, but the quad that moves is the one
   whose position is the number of the group; there may be none (a panic). *)
MoveQuad(s, src, tgt) ==
    /\ s \in QuadSpots /\ {src, tgt} \subseteq DOMAIN At(s).quads
    /\ s[1] \in DOMAIN At(s).quads
    /\ EditedQuads(s, InsertAt(RemoveAt(At(s).quads, s[1]), tgt, At(s).quads[s[1]]))

-----------------------------------------------------------------------------
Positions == (1 .. MaxGroups) \X (1 .. MaxLayers)

ImageStep ==
    \/ \E i \in Images : PutImage(i)
    \/ \E i \in 1 .. MaxImages : DeleteImage(i)
    \/ \E src, tgt \in 1 .. (MaxImages + 1) : MoveImage(src, tgt)
EnvelopeStep ==
    \/ \E e \in Envs : PutEnvelope(e)
    \/ \E e \in 1 .. MaxEnvelopes : DeleteEnvelope(e)
    \/ \E src, tgt \in 1 .. (MaxEnvelopes + 1) : MoveEnvelope(src, tgt)
GroupStep ==
    \/ PutGroup
    \/ \E g \in 1 .. MaxGroups : DeleteGroup(g)
    \/ \E src, tgt \in 1 .. (MaxGroups + 1) : MoveGroup(src, tgt)
LayerStep ==
    \/ \E g \in 1 .. MaxGroups, kind \in PhysicsKinds : PutPhysics(g, kind)
    \/ \E g \in 1 .. MaxGroups, i \in ImageRefs, e \in ColorRefs : PutTiles(g, i, e)
    \/ \E g \in 1 .. MaxGroups, i \in ImageRefs : PutQuads(g, i)
    \/ \E s \in Positions, size \in Resizes : EditPhysics(s, size)
    \/ \E s \in Positions, size \in Resizes \cup {<<0, 0>>}, i \in 0 .. MaxImages, e \in 0 .. MaxEnvelopes :
           EditTiles(s, size, i, e)
    \/ \E s \in Positions, i \in ImageRefs : EditQuads(s, i)
    \/ \E s \in Positions : DeleteLayer(s)
    \/ \E src, tgt \in Positions : MoveLayer(src, tgt)
QuadStep ==
    \/ \E s \in Positions, p \in PositionRefs, c \in ColorRefs : PutQuad(s, p, c)
    \/ \E s \in Positions, q \in 1 .. MaxQuads, p \in PositionRefs, c \in ColorRefs :
           EditQuad(s, q, p, c)
    \/ \E s \in Positions, q \in 1 .. MaxQuads : DeleteQuad(s, q)
    \/ \E s \in Positions, src, tgt \in 1 .. MaxQuads : MoveQuad(s, src, tgt)

Next == ImageStep \/ EnvelopeStep \/ GroupStep \/ LayerStep \/ QuadStep

Spec == Init /\ [][Next]_vars

-----------------------------------------------------------------------------
(* Properties *)

(* Whatever is deleted, moved and edited in between, every reference a layer
   or a quad holds leads to an object of the kind it needs: a tiles layer to
   an image that can be cut into tiles and to a colour envelope, a quads layer
   to an image, a quad to a position and a colour envelope. *)
RefsResolve ==
    \A s \in Spots :
        /\ At(s).kind = "tiles" =>
              At(s).image \in TileImageRefs /\ At(s).env \in ColorRefs
        /\ At(s).kind = "quads" =>
              /\ At(s).image \in ImageRefs
              /\ \A q \in DOMAIN At(s).quads :
                     /\ At(s).quads[q].pos \in PositionRefs
                     /\ At(s).quads[q].color \in ColorRefs

(* The map has one game layer, and one layer at most of each other kind of
   physics, all in the game layer's group and of the game layer's size: the
   client and put_layer find the physics layers by looking there, unwrap what
   they find, and give new layers the game layer's size. *)
PhysicsIntact ==
    /\ HasGameLayer
    /\ \A s, t \in Spots :
          IsPhysics(At(s)) /\ IsPhysics(At(t)) =>
              /\ s[1] = t[1]
              /\ At(s).kind = At(t).kind => s = t
              /\ At(s).w = At(t).w /\ At(s).h = At(t).h

ImageOf(i) == {images[k] : k \in {i} \cap DOMAIN images}
EnvOf(e) == {envelopes[k] : k \in {e} \cap DOMAIN envelopes}

(* Deleting and moving images and envelopes, which renumbers them, changes no
   picture: each layer still shows the image it showed, and each layer and quad
   is animated by the envelopes that animated it. *)
ReferentsKept ==
    [][images' # images \/ envelopes' # envelopes =>
          \A s \in Spots :
              /\ HasImage(At(s)) => ImageOf(At(s).image) = ImageOf(At(s).image)'
              /\ At(s).kind = "tiles" => EnvOf(At(s).env) = EnvOf(At(s).env)'
              /\ At(s).kind = "quads" =>
                    \A q \in DOMAIN At(s).quads :
                        /\ EnvOf(At(s).quads[q].pos) = EnvOf(At(s).quads[q].pos)'
                        /\ EnvOf(At(s).quads[q].color) = EnvOf(At(s).quads[q].color)']_vars

=============================================================================
