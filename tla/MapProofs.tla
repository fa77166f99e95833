------------------------------- MODULE MapProofs -------------------------------
(***************************************************************************)
(* Proofs about MapDoc and ClientMap, for maps and limits of any size.     *)
(*                                                                         *)
(* In the server's document, where every reference resolves is a matter of *)
(* types: the layers belong to a set that depends on the images and        *)
(* envelopes of the moment, and each operation leaves the lists of layers  *)
(* in the set of the next one.                                             *)
(*                                                                         *)
(* The server's document, the client's map and the tree it draws are three *)
(* lists of lists that go in step: the lists are equally long, and what    *)
(* stands at one place in the three of them belongs together.  What        *)
(* belongs together is the content of the second half: the client's layer  *)
(* refers to the objects that stand where the server's layer points, and   *)
(* is drawn with their textures.                                           *)
(***************************************************************************)
EXTENDS ClientMap, SeqFacts

(* Images and envelopes move backwards only, and no move names the position
   behind the last. *)
ForwardMoves == ~ BackwardMoves /\ ~ MovesPastEnd

-----------------------------------------------------------------------------
(* Lists *)

LEMMA FunctionIsSeq ==
    ASSUME NEW S, NEW n \in Nat, NEW f \in [1 .. n -> S]
    PROVE  f \in Seq(S) /\ Len(f) = n
<1>1. f \in Seq(S)
    BY SeqDef
<1>2. Len(f) \in Nat /\ DOMAIN f = 1 .. Len(f)
    BY <1>1, LenProperties
<1>3. 1 .. Len(f) = 1 .. n
    BY <1>2
<1> QED
    BY <1>1, <1>2, <1>3

LEMMA Listed ==
    ASSUME NEW S, NEW s \in Seq(S)
    PROVE  /\ Len(s) \in Nat /\ DOMAIN s = 1 .. Len(s)
           /\ \A j \in DOMAIN s : s[j] \in S
BY LenProperties, ElementOfSeq

(* Where the element j of a list came from when src has moved to tgt. *)
Origin(src, tgt, j) ==
    IF j = tgt THEN src
    ELSE IF j < tgt THEN IF j < src THEN j ELSE j + 1
    ELSE IF j - 1 < src THEN j - 1 ELSE j

LEMMA MovedWithin ==
    ASSUME NEW S, NEW s \in Seq(S), NEW src \in 1 .. Len(s), NEW tgt \in 1 .. Len(s)
    PROVE  /\ Moved(s, src, tgt) \in Seq(S)
           /\ Len(Moved(s, src, tgt)) = Len(s)
           /\ \A j \in 1 .. Len(s) : Moved(s, src, tgt)[j] = s[Origin(src, tgt, j)]
<1> DEFINE t == RemoveAt(s, src)
<1>0. Len(s) \in Nat /\ s[src] \in S /\ src \in Int /\ tgt \in Int
    BY Listed
<1>1. /\ t \in Seq(S) /\ Len(t) = Len(s) - 1
      /\ \A j \in 1 .. Len(s) - 1 : t[j] = IF j < src THEN s[j] ELSE s[j + 1]
    BY RemovedFrom
<1>2. Moved(s, src, tgt) = InsertAt(t, tgt, s[src])
    BY <1>0 DEF Moved
<1> HIDE DEF t
<1>3. tgt \in 1 .. Len(t) + 1
    BY <1>0, <1>1
<1>4. /\ InsertAt(t, tgt, s[src]) \in Seq(S)
      /\ Len(InsertAt(t, tgt, s[src])) = Len(t) + 1
      /\ \A j \in 1 .. Len(t) + 1 : InsertAt(t, tgt, s[src])[j] =
            IF j < tgt THEN t[j] ELSE IF j = tgt THEN s[src] ELSE t[j - 1]
    <2> DEFINE e == s[src]
    <2>1. /\ t \in Seq(S) /\ e \in S /\ tgt \in 1 .. Len(t) + 1
          /\ Len(t) \in Nat /\ tgt \in Int
        BY <1>0, <1>1, <1>3
    <2> HIDE DEF e
    <2>2. InsertAt(t, tgt, e) \in Seq(S) /\ Len(InsertAt(t, tgt, e)) = Len(t) + 1
        <3>1. InsertAt(t, tgt, e) \in Seq(S)
            BY <2>1, InsertedInto
        <3>2. Len(InsertAt(t, tgt, e)) = Len(t) + 1
            BY <2>1, InsertedInto
        <3> QED
            BY <3>1, <3>2
    <2>3. ASSUME NEW j \in 1 .. Len(t) + 1
          PROVE  InsertAt(t, tgt, e)[j] =
                    IF j < tgt THEN t[j] ELSE IF j = tgt THEN e ELSE t[j - 1]
        BY <2>1, InsertedInto
    <2> QED
        BY <2>2, <2>3 DEF e
<1>5. Len(t) + 1 = Len(s)
    BY <1>0, <1>1
<1>6. ASSUME NEW j \in 1 .. Len(s)
      PROVE  InsertAt(t, tgt, s[src])[j] = s[Origin(src, tgt, j)]
    <2>1. InsertAt(t, tgt, s[src])[j] =
            IF j < tgt THEN t[j] ELSE IF j = tgt THEN s[src] ELSE t[j - 1]
        BY <1>4, <1>5
    <2>2. CASE j = tgt
        BY <1>0, <2>1, <2>2 DEF Origin
    <2>3. CASE j < tgt
        <3>1. j \in 1 .. Len(s) - 1
            BY <1>0, <2>3
        <3>2. t[j] = IF j < src THEN s[j] ELSE s[j + 1]
            BY <1>1, <3>1
        <3> QED
            BY <1>0, <2>1, <2>3, <3>2 DEF Origin
    <2>4. CASE j > tgt
        <3>1. j - 1 \in 1 .. Len(s) - 1 /\ (j - 1) + 1 = j /\ ~ (j < tgt) /\ j # tgt
            BY <1>0, <2>4
        <3>2. t[j - 1] = IF j - 1 < src THEN s[j - 1] ELSE s[j]
            BY <1>1, <3>1
        <3> QED
            BY <2>1, <3>1, <3>2, Zenon DEF Origin
    <2> QED
        BY <1>0, <2>2, <2>3, <2>4
<1> QED
    BY <1>2, <1>4, <1>5, <1>6

(* An index other than the removed one leads, renumbered, to the same element. *)
LEMMA RemovalFollowed ==
    ASSUME NEW S, NEW s \in Seq(S), NEW i \in 1 .. Len(s)
    PROVE  LET f == AfterRemoval(i, Len(s))
           IN  /\ f[0] = 0
               /\ \A k \in 1 .. Len(s) :
                     k # i => f[k] \in 1 .. Len(s) - 1 /\ RemoveAt(s, i)[f[k]] = s[k]
<1> DEFINE f == AfterRemoval(i, Len(s))
<1>0. Len(s) \in Nat /\ i \in Int
    BY Listed
<1>1. \A j \in 1 .. Len(s) - 1 : RemoveAt(s, i)[j] = IF j < i THEN s[j] ELSE s[j + 1]
    BY RemovedFrom
<1>2. f[0] = 0
    BY <1>0 DEF AfterRemoval
<1>3. ASSUME NEW k \in 1 .. Len(s), k # i
      PROVE  f[k] \in 1 .. Len(s) - 1 /\ RemoveAt(s, i)[f[k]] = s[k]
    <2>1. f[k] = IF k > i THEN k - 1 ELSE k
        BY <1>0 DEF AfterRemoval
    <2>2. CASE k > i
        <3>1. f[k] = k - 1 /\ k - 1 \in 1 .. Len(s) - 1 /\ ~ (k - 1 < i) /\ (k - 1) + 1 = k
            BY <1>0, <2>1, <2>2
        <3>2. RemoveAt(s, i)[k - 1] = s[(k - 1) + 1]
            BY <1>1, <3>1
        <3> QED
            BY <3>1, <3>2
    <2>3. CASE ~ (k > i)
        BY <1>0, <1>1, <1>3, <2>1, <2>3
    <2> QED
        BY <2>2, <2>3
<1> QED
    BY <1>2, <1>3

(* When an element moves backwards, every index leads to the same element. *)
LEMMA MoveFollowed ==
    ASSUME NEW S, NEW s \in Seq(S), NEW src \in 1 .. Len(s), NEW tgt \in 1 .. Len(s), src <= tgt
    PROVE  LET f == AfterMove(src, tgt, Len(s))
           IN  /\ f[0] = 0
               /\ \A k \in 1 .. Len(s) :
                     f[k] \in 1 .. Len(s) /\ Moved(s, src, tgt)[f[k]] = s[k]
<1> DEFINE f == AfterMove(src, tgt, Len(s))
<1>0. Len(s) \in Nat /\ src \in Int /\ tgt \in Int
    BY Listed
<1>1. \A j \in 1 .. Len(s) : Moved(s, src, tgt)[j] = s[Origin(src, tgt, j)]
    BY MovedWithin
<1>2. f[0] = 0
    BY <1>0 DEF AfterMove
<1>3. ASSUME NEW k \in 1 .. Len(s)
      PROVE  f[k] \in 1 .. Len(s) /\ Moved(s, src, tgt)[f[k]] = s[k]
    <2>1. f[k] = IF k = src THEN tgt ELSE IF src < k /\ k <= tgt THEN k - 1 ELSE k
        BY <1>0 DEF AfterMove
    <2>2. f[k] \in 1 .. Len(s) /\ Origin(src, tgt, f[k]) = k
        BY <1>0, <2>1 DEF Origin
    <2> QED
        BY <1>1, <2>2
<1> QED
    BY <1>2, <1>3

-----------------------------------------------------------------------------
(* Sound layers: every reference resolves *)

SoundQuad == [pos : PositionRefs, color : ColorRefs]
Physical == [kind : {"game"} \cup PhysicsKinds, w : Nat, h : Nat]
SoundTiles == [kind : {"tiles"}, w : Nat, h : Nat, image : TileImageRefs, env : ColorRefs]
SoundQuads == [kind : {"quads"}, image : ImageRefs, quads : Seq(SoundQuad)]
Sound == Physical \cup SoundTiles \cup SoundQuads

SoundMap ==
    /\ images \in Seq(Images) /\ Len(images) <= MaxImages
    /\ envelopes \in Seq(Envs) /\ Len(envelopes) <= MaxEnvelopes
    /\ groups \in Seq(Seq(Sound)) /\ Len(groups) <= MaxGroups

LEMMA Kinds == {"game", "tiles", "quads"} \cap PhysicsKinds = {}
BY KindAssumption

LEMMA RefsAreNat ==
    ASSUME SoundMap
    PROVE  /\ TileImageRefs \subseteq ImageRefs /\ ImageRefs = 0 .. Len(images)
           /\ ColorRefs \subseteq 0 .. Len(envelopes) /\ PositionRefs \subseteq 0 .. Len(envelopes)
           /\ ImageRefs \subseteq Nat /\ ColorRefs \subseteq Nat /\ PositionRefs \subseteq Nat
<1>1. Len(images) \in Nat /\ DOMAIN images = 1 .. Len(images)
    BY Listed DEF SoundMap
<1>2. Len(envelopes) \in Nat /\ DOMAIN envelopes = 1 .. Len(envelopes)
    BY Listed DEF SoundMap
<1> QED
    BY <1>1, <1>2 DEF TileImageRefs, ImageRefs, ColorRefs, PositionRefs, None

LEMMA SoundTypes == SoundMap => TypeOK
<1> SUFFICES ASSUME SoundMap PROVE groups \in Seq(Seq(Layer))
    BY DEF SoundMap, TypeOK
<1>1. SoundQuad \subseteq Quad
    BY RefsAreNat DEF SoundQuad, Quad
<1>2. \A qs \in Seq(SoundQuad) : qs \in Seq(Quad)
    BY <1>1, SeqMonotonic
<1>3. TileImageRefs \subseteq Nat /\ ImageRefs \subseteq Nat /\ ColorRefs \subseteq Nat
    BY RefsAreNat
<1>4. Sound \subseteq Layer
    BY <1>2, <1>3 DEF Sound, Physical, SoundTiles, SoundQuads, Layer
<1>5. \A row \in Seq(Sound) : row \in Seq(Layer)
    BY <1>4, SeqMonotonic
<1>6. Seq(Sound) \subseteq Seq(Layer)
    BY <1>5
<1> QED
    BY <1>6, SeqMonotonic DEF SoundMap

LEMMA SpotsAre ==
    Spots = {s \in (DOMAIN groups) \X UNION {DOMAIN groups[g] : g \in DOMAIN groups} :
                s[2] \in DOMAIN groups[s[1]]}
BY DEF Spots

LEMMA SpotIn ==
    ASSUME SoundMap, NEW s \in Spots
    PROVE  /\ s[1] \in 1 .. Len(groups) /\ groups[s[1]] \in Seq(Sound)
           /\ s[2] \in 1 .. Len(groups[s[1]]) /\ At(s) \in Sound
           /\ s = <<s[1], s[2]>>
<1>1. s[1] \in DOMAIN groups /\ s[2] \in DOMAIN groups[s[1]] /\ s = <<s[1], s[2]>>
    BY SpotsAre
<1>2. s[1] \in 1 .. Len(groups) /\ groups[s[1]] \in Seq(Sound)
    BY <1>1, Listed DEF SoundMap
<1>3. s[2] \in 1 .. Len(groups[s[1]]) /\ groups[s[1]][s[2]] \in Sound
    BY <1>1, <1>2, Listed
<1> QED
    BY <1>1, <1>2, <1>3 DEF At

LEMMA InSpots ==
    ASSUME NEW g \in DOMAIN groups, NEW l \in DOMAIN groups[g]
    PROVE  <<g, l>> \in Spots /\ At(<<g, l>>) = groups[g][l]
BY DEF Spots, At

LEMMA SoundResolves == SoundMap => RefsResolve
<1> SUFFICES ASSUME SoundMap, NEW s \in Spots
             PROVE  /\ At(s).kind = "tiles" =>
                          At(s).image \in TileImageRefs /\ At(s).env \in ColorRefs
                    /\ At(s).kind = "quads" =>
                          /\ At(s).image \in ImageRefs
                          /\ \A q \in DOMAIN At(s).quads :
                                 /\ At(s).quads[q].pos \in PositionRefs
                                 /\ At(s).quads[q].color \in ColorRefs
    BY DEF RefsResolve
<1>1. At(s) \in Sound
    BY SpotIn
<1>2. CASE At(s) \in Physical
    BY <1>2, Kinds DEF Physical
<1>3. CASE At(s) \in SoundTiles
    BY <1>3 DEF SoundTiles
<1>4. CASE At(s) \in SoundQuads
    <2>1. At(s).kind = "quads" /\ At(s).image \in ImageRefs /\ At(s).quads \in Seq(SoundQuad)
        BY <1>4 DEF SoundQuads
    <2>2. \A q \in DOMAIN At(s).quads : At(s).quads[q] \in SoundQuad
        BY <2>1, Listed
    <2> QED
        BY <2>1, <2>2 DEF SoundQuad
<1> QED
    BY <1>1, <1>2, <1>3, <1>4 DEF Sound

LEMMA SoundInit == Init => SoundMap
<1> SUFFICES ASSUME Init PROVE SoundMap
    OBVIOUS
<1>1. <<>> \in Seq(Images) /\ <<>> \in Seq(Envs) /\ Len(<<>>) = 0
    BY EmptySeq
<1>2. PhysicsLayer("game", Smallest, Smallest) \in Sound
    BY BoundAssumption DEF PhysicsLayer, Sound, Physical
<1>3. << PhysicsLayer("game", Smallest, Smallest) >> \in Seq(Sound)
    BY <1>2
<1> QED
    BY <1>1, <1>3, BoundAssumption DEF Init, SoundMap

-----------------------------------------------------------------------------
(* Operations on groups, layers and quads leave the layers sound *)

LEMMA GroupsReplaced ==
    ASSUME SoundMap, UNCHANGED <<images, envelopes>>,
           groups' \in Seq(Seq(Sound)), Len(groups') <= MaxGroups
    PROVE  SoundMap'
<1>1. Sound' = Sound
    BY DEF Sound, Physical, SoundTiles, SoundQuads, SoundQuad,
           TileImageRefs, ImageRefs, ColorRefs, PositionRefs
<1> QED
    BY <1>1 DEF SoundMap

LEMMA RowReplaced ==
    ASSUME SoundMap, UNCHANGED <<images, envelopes>>,
           NEW g \in 1 .. Len(groups), NEW row \in Seq(Sound), groups' = [groups EXCEPT ![g] = row]
    PROVE  SoundMap'
<1>1. groups' \in Seq(Seq(Sound)) /\ Len(groups') = Len(groups)
    BY ExceptSeq DEF SoundMap
<1> QED
    BY <1>1, GroupsReplaced DEF SoundMap

LEMMA LayerReplaced ==
    ASSUME SoundMap, UNCHANGED <<images, envelopes>>, NEW s \in Spots, NEW layer \in Sound,
           groups' = [groups EXCEPT ![s[1]][s[2]] = layer]
    PROVE  SoundMap'
<1> DEFINE row == [groups[s[1]] EXCEPT ![s[2]] = layer]
<1>1. s[1] \in 1 .. Len(groups) /\ groups[s[1]] \in Seq(Sound) /\ s[2] \in 1 .. Len(groups[s[1]])
    BY SpotIn
<1>2. row \in Seq(Sound)
    BY <1>1, ExceptSeq
<1>3. groups' = [groups EXCEPT ![s[1]] = row]
    OBVIOUS
<1> HIDE DEF row
<1> QED
    BY <1>1, <1>2, <1>3, RowReplaced

LEMMA SoundGroupStep == SoundMap /\ GroupStep => SoundMap'
<1> SUFFICES ASSUME SoundMap, GroupStep PROVE SoundMap'
    OBVIOUS
<1>0. groups \in Seq(Seq(Sound)) /\ Len(groups) <= MaxGroups /\ Len(groups) \in Nat /\ MaxGroups \in Nat
      /\ DOMAIN groups = 1 .. Len(groups)
    BY Listed, BoundAssumption DEF SoundMap
<1>1. CASE PutGroup
    <2>1. <<>> \in Seq(Sound)
        BY EmptySeq
    <2>2. groups' \in Seq(Seq(Sound)) /\ Len(groups') = Len(groups) + 1
        BY <1>0, <1>1, <2>1, AppendProperties DEF PutGroup
    <2>3. Len(groups) + 1 <= MaxGroups
        <3>1. Len(groups) # MaxGroups /\ Len(groups) <= MaxGroups
            BY <1>0, <1>1 DEF PutGroup
        <3>2. Len(groups) \in Nat /\ MaxGroups \in Nat
            BY <1>0
        <3> QED
            BY <3>1, <3>2
    <2> QED
        BY <1>1, <2>2, <2>3, GroupsReplaced DEF PutGroup
<1>2. ASSUME NEW g \in 1 .. MaxGroups, DeleteGroup(g) PROVE SoundMap'
    <2>1. g \in 1 .. Len(groups) /\ groups' = RemoveAt(groups, g) /\ UNCHANGED <<images, envelopes>>
        BY <1>0, <1>2 DEF DeleteGroup
    <2>2. groups' \in Seq(Seq(Sound)) /\ Len(groups') = Len(groups) - 1
        BY <1>0, <2>1, RemovedFrom
    <2> QED
        BY <1>0, <2>1, <2>2, GroupsReplaced
<1>3. ASSUME NEW src \in 1 .. (MaxGroups + 1), NEW tgt \in 1 .. (MaxGroups + 1), MoveGroup(src, tgt)
      PROVE  SoundMap'
    <2>1. groups' = Moved(groups, src, tgt) /\ UNCHANGED <<images, envelopes>>
        BY <1>3 DEF MoveGroup
    <2>2. CASE src > Len(groups)
        BY <1>0, <2>1, <2>2, GroupsReplaced DEF Moved
    <2>3. CASE src <= Len(groups) /\ tgt > Len(groups)
        <3>1. groups' = RemoveAt(groups, src) /\ src \in 1 .. Len(groups)
            BY <1>0, <2>1, <2>3 DEF Moved
        <3>2. groups' \in Seq(Seq(Sound)) /\ Len(groups') = Len(groups) - 1
            BY <1>0, <3>1, RemovedFrom
        <3> QED
            BY <1>0, <2>1, <3>2, GroupsReplaced
    <2>4. CASE src <= Len(groups) /\ tgt <= Len(groups)
        <3>1. src \in 1 .. Len(groups) /\ tgt \in 1 .. Len(groups)
            BY <1>0, <2>4
        <3>2. groups' \in Seq(Seq(Sound)) /\ Len(groups') = Len(groups)
            BY <1>0, <2>1, <3>1, MovedWithin
        <3> QED
            BY <1>0, <2>1, <3>2, GroupsReplaced
    <2> QED
        BY <1>0, <2>2, <2>3, <2>4
<1> QED
    BY <1>1, <1>2, <1>3 DEF GroupStep

(* The size of a layer that a request reshapes is a number, as it was. *)
LEMMA WidthSet ==
    ASSUME NEW layer \in Physical \cup SoundTiles, NEW n \in Nat
    PROVE  LET new == [layer EXCEPT !.w = n]
           IN  /\ layer \in Physical => new \in Physical
               /\ layer \in SoundTiles => new \in SoundTiles
               /\ new.kind = layer.kind /\ new.w = n /\ new.h = layer.h
BY Kinds DEF Physical, SoundTiles

LEMMA HeightSet ==
    ASSUME NEW layer \in Physical \cup SoundTiles, NEW n \in Nat
    PROVE  LET new == [layer EXCEPT !.h = n]
           IN  /\ layer \in Physical => new \in Physical
               /\ layer \in SoundTiles => new \in SoundTiles
               /\ new.kind = layer.kind /\ new.w = layer.w /\ new.h = n
BY Kinds DEF Physical, SoundTiles

LEMMA ReshapedTypes ==
    ASSUME NEW layer \in Physical \cup SoundTiles, NEW size \in Nat \X Nat
    PROVE  /\ layer \in Physical => Reshaped(layer, size) \in Physical
           /\ layer \in SoundTiles => Reshaped(layer, size) \in SoundTiles
           /\ Reshaped(layer, size).kind = layer.kind
           /\ Reshaped(layer, size).w =
                  IF Fits(size[1]) THEN Resized(size[1], layer.w) ELSE layer.w
           /\ Reshaped(layer, size).h =
                  IF Fits(size[1]) /\ Fits(size[2]) THEN Resized(size[2], layer.h) ELSE layer.h
<1> DEFINE a == Resized(size[1], layer.w)
           b == Resized(size[2], layer.h)
           wide == [layer EXCEPT !.w = a]
<1>1. a \in Nat /\ b \in Nat
    BY DEF Resized, Physical, SoundTiles
<1>2. Reshaped(layer, size) =
          IF ~ Fits(size[1]) THEN layer
          ELSE IF ~ Fits(size[2]) THEN wide ELSE [wide EXCEPT !.h = b]
    BY DEF Reshaped
<1> HIDE DEF a, b
<1>3. /\ layer \in Physical => wide \in Physical
      /\ layer \in SoundTiles => wide \in SoundTiles
      /\ wide.kind = layer.kind /\ wide.w = a /\ wide.h = layer.h
    BY <1>1, WidthSet
<1> HIDE DEF wide
<1>4. /\ wide \in Physical => [wide EXCEPT !.h = b] \in Physical
      /\ wide \in SoundTiles => [wide EXCEPT !.h = b] \in SoundTiles
      /\ [wide EXCEPT !.h = b].kind = wide.kind
      /\ [wide EXCEPT !.h = b].w = wide.w /\ [wide EXCEPT !.h = b].h = b
    <2>1. wide \in Physical \cup SoundTiles
        BY <1>3
    <2> QED
        BY <1>1, <2>1, HeightSet
<1>5. CASE ~ Fits(size[1])
    BY <1>2, <1>5
<1>6. CASE Fits(size[1]) /\ ~ Fits(size[2])
    BY <1>2, <1>3, <1>6 DEF a
<1>7. CASE Fits(size[1]) /\ Fits(size[2])
    BY <1>2, <1>3, <1>4, <1>7 DEF a, b
<1> QED
    BY <1>5, <1>6, <1>7

LEMMA SoundKinds ==
    ASSUME NEW layer \in Sound
    PROVE  /\ IsPhysics(layer) <=> layer \in Physical
           /\ layer.kind = "tiles" <=> layer \in SoundTiles
           /\ layer.kind = "quads" <=> layer \in SoundQuads
BY Kinds DEF Sound, Physical, SoundTiles, SoundQuads, IsPhysics

LEMMA LayerAdded ==
    ASSUME SoundMap, NEW g, NEW layer \in Sound, NewLayer(g, layer)
    PROVE  SoundMap'
<1>1. g \in 1 .. Len(groups) /\ groups[g] \in Seq(Sound)
    BY Listed DEF NewLayer, SoundMap
<1>2. Append(groups[g], layer) \in Seq(Sound)
    BY <1>1, AppendProperties
<1>3. groups' = [groups EXCEPT ![g] = Append(groups[g], layer)] /\ UNCHANGED <<images, envelopes>>
    BY DEF NewLayer
<1> QED
    BY <1>1, <1>2, <1>3, RowReplaced

LEMMA TheGameLayer ==
    ASSUME SoundMap, HasGameLayer
    PROVE  /\ GameLayer \in Physical
           /\ \E s \in Spots : At(s).kind = "game" /\ GameLayer = At(s)
<1>1. PICK s \in Spots : At(s).kind = "game" /\ GameLayer = At(s)
    BY Zenon DEF HasGameLayer, GameLayer
<1>2. At(s) \in Sound /\ IsPhysics(At(s))
    BY <1>1, SpotIn DEF IsPhysics
<1> QED
    BY <1>1, <1>2, SoundKinds

LEMMA SoundPut ==
    ASSUME SoundMap, NEW g
    PROVE  /\ \A kind \in PhysicsKinds : PutPhysics(g, kind) => SoundMap'
           /\ \A i, e : PutTiles(g, i, e) => SoundMap'
           /\ \A i : PutQuads(g, i) => SoundMap'
<1>1. ASSUME NEW kind \in PhysicsKinds, PutPhysics(g, kind) PROVE SoundMap'
    <2>1. GameLayer \in Physical
        BY <1>1, TheGameLayer DEF PutPhysics
    <2>2. PhysicsLayer(kind, GameLayer.w, GameLayer.h) \in Sound
        BY <2>1 DEF PhysicsLayer, Sound, Physical
    <2> QED
        BY <1>1, <2>2, LayerAdded DEF PutPhysics
<1>2. ASSUME NEW i, NEW e, PutTiles(g, i, e) PROVE SoundMap'
    <2>1. GameLayer \in Physical /\ i \in TileImageRefs /\ e \in ColorRefs
        BY <1>2, TheGameLayer DEF PutTiles
    <2>2. TilesLayer(GameLayer.w, GameLayer.h, i, e) \in Sound
        BY <2>1 DEF TilesLayer, Sound, SoundTiles, Physical
    <2> QED
        BY <1>2, <2>2, LayerAdded DEF PutTiles
<1>3. ASSUME NEW i, PutQuads(g, i) PROVE SoundMap'
    <2>1. i \in ImageRefs /\ <<>> \in Seq(SoundQuad)
        BY <1>3, EmptySeq DEF PutQuads
    <2>2. QuadsLayer(i, <<>>) \in Sound
        BY <2>1 DEF QuadsLayer, Sound, SoundQuads
    <2> QED
        BY <1>3, <2>2, LayerAdded DEF PutQuads
<1> QED
    BY <1>1, <1>2, <1>3

LEMMA SoundResize ==
    ASSUME SoundMap, NEW s, NEW size \in Resizes, EditPhysics(s, size)
    PROVE  SoundMap'
<1> DEFINE group == groups[s[1]]
           reached == {l \in DOMAIN group :
                         (Fits(size[1]) /\ Fits(size[2]))
                            \/ \A k \in 1 .. (l - 1) : ~ IsPhysics(group[k])}
           row == [l \in DOMAIN group |-> IF IsPhysics(group[l]) /\ l \in reached
                                          THEN Reshaped(group[l], size) ELSE group[l]]
<1>1. s \in Spots /\ groups' = [groups EXCEPT ![s[1]] = row] /\ UNCHANGED <<images, envelopes>>
    BY DEF EditPhysics
<1>2. s[1] \in 1 .. Len(groups) /\ group \in Seq(Sound)
    BY <1>1, SpotIn
<1> HIDE DEF reached
<1>3. Len(group) \in Nat /\ DOMAIN group = 1 .. Len(group) /\ \A l \in DOMAIN group : group[l] \in Sound
    BY <1>2, Listed
<1>4. ASSUME NEW l \in DOMAIN group PROVE row[l] \in Sound
    <2>1. CASE IsPhysics(group[l])
        <3>1. group[l] \in Physical /\ size \in Nat \X Nat
            BY <1>3, <2>1, SoundKinds, ResizeAssumption
        <3>2. Reshaped(group[l], size) \in Physical
            BY <3>1, ReshapedTypes
        <3> QED
            BY <1>3, <3>2 DEF Sound
    <2>2. CASE ~ IsPhysics(group[l])
        BY <1>3, <2>2
    <2> QED
        BY <2>1, <2>2
<1>5. row \in [1 .. Len(group) -> Sound]
    <2>1. row = [l \in 1 .. Len(group) |-> row[l]]
        BY <1>3
    <2> HIDE DEF row
    <2> QED
        BY <1>3, <1>4, <2>1
<1> HIDE DEF group, row
<1>6. row \in Seq(Sound)
    BY <1>3, <1>5, FunctionIsSeq
<1> QED
    BY <1>1, <1>2, <1>6, RowReplaced

LEMMA SoundTilesEdit ==
    ASSUME SoundMap, NEW s, NEW size \in Nat \X Nat, NEW i, NEW e, EditTiles(s, size, i, e)
    PROVE  SoundMap'
<1> DEFINE old == At(s)
           sized == Reshaped(old, size)
           pictured == [sized EXCEPT !.image = i]
           new == IF Fits(size[1]) /\ Fits(size[2])
                  THEN [sized EXCEPT !.image = i, !.env = e] ELSE sized
<1>1. /\ s \in Spots /\ old.kind = "tiles"
      /\ i \in TileImageRefs \cup {old.image} /\ e \in ColorRefs \cup {old.env}
      /\ UNCHANGED <<images, envelopes>>
      /\ groups' = [groups EXCEPT ![s[1]][s[2]] = new]
    BY DEF EditTiles, At
<1>2. old \in SoundTiles
    BY <1>1, SpotIn, SoundKinds
<1>3. i \in TileImageRefs /\ e \in ColorRefs
    BY <1>1, <1>2 DEF SoundTiles
<1>4. sized \in SoundTiles
    BY <1>2, ReshapedTypes
<1> HIDE DEF old, sized
<1>5. [sized EXCEPT !.image = i, !.env = e] \in SoundTiles
    BY <1>3, <1>4 DEF SoundTiles
<1>6. new \in Sound
    BY <1>4, <1>5 DEF Sound
<1> HIDE DEF new
<1> QED
    BY <1>1, <1>6, LayerReplaced

LEMMA SoundQuadsEdit ==
    ASSUME SoundMap, NEW s, NEW i, EditQuads(s, i)
    PROVE  SoundMap'
<1> DEFINE old == At(s)
           new == [old EXCEPT !.image = i]
<1>1. /\ s \in Spots /\ old.kind = "quads" /\ i \in ImageRefs
      /\ UNCHANGED <<images, envelopes>>
      /\ groups' = [groups EXCEPT ![s[1]][s[2]] = new]
    BY DEF EditQuads, At
<1>2. old \in SoundQuads
    BY <1>1, SpotIn, SoundKinds
<1> HIDE DEF old
<1>3. new \in Sound
    BY <1>1, <1>2 DEF Sound, SoundQuads
<1> HIDE DEF new
<1> QED
    BY <1>1, <1>3, LayerReplaced

LEMMA SoundDelete ==
    ASSUME SoundMap, NEW s, DeleteLayer(s)
    PROVE  SoundMap'
<1>1. /\ s \in Spots /\ UNCHANGED <<images, envelopes>>
      /\ groups' = [groups EXCEPT ![s[1]] = RemoveAt(groups[s[1]], s[2])]
    BY DEF DeleteLayer
<1>2. s[1] \in 1 .. Len(groups) /\ groups[s[1]] \in Seq(Sound) /\ s[2] \in 1 .. Len(groups[s[1]])
    BY <1>1, SpotIn
<1>3. RemoveAt(groups[s[1]], s[2]) \in Seq(Sound)
    BY <1>2, RemovedFrom
<1> QED
    BY <1>1, <1>2, <1>3, RowReplaced

LEMMA SoundMove ==
    ASSUME SoundMap, NEW src, NEW tgt, MoveLayer(src, tgt)
    PROVE  SoundMap'
<1> DEFINE rest == RemoveAt(groups[src[1]], src[2])
           taken == [groups EXCEPT ![src[1]] = rest]
           g == tgt[1]
           row == InsertAt(taken[g], tgt[2], At(src))
<1>1. /\ src \in Spots /\ g \in DOMAIN groups
      /\ tgt[2] \in 1 .. (Len(groups[g]) + (IF g = src[1] THEN 0 ELSE 1))
      /\ groups' = [taken EXCEPT ![g] = row]
      /\ UNCHANGED <<images, envelopes>>
    BY DEF MoveLayer
<1>2. /\ src[1] \in 1 .. Len(groups) /\ groups[src[1]] \in Seq(Sound)
      /\ src[2] \in 1 .. Len(groups[src[1]]) /\ At(src) \in Sound
    BY <1>1, SpotIn
<1>3. rest \in Seq(Sound) /\ Len(rest) = Len(groups[src[1]]) - 1
    BY <1>2, RemovedFrom
<1>4. groups \in Seq(Seq(Sound)) /\ Len(groups) <= MaxGroups /\ g \in 1 .. Len(groups)
      /\ groups[g] \in Seq(Sound)
    BY <1>1, Listed DEF SoundMap
<1> HIDE DEF rest
<1>5. /\ taken \in Seq(Seq(Sound)) /\ Len(taken) = Len(groups)
      /\ taken[g] = IF g = src[1] THEN rest ELSE groups[g]
    <2>1. rest \in Seq(Sound) /\ src[1] \in 1 .. Len(groups) /\ groups \in Seq(Seq(Sound))
        BY <1>2, <1>3, <1>4
    <2>2. /\ taken \in Seq(Seq(Sound)) /\ Len(taken) = Len(groups)
          /\ \A j \in 1 .. Len(groups) : taken[j] = IF j = src[1] THEN rest ELSE groups[j]
        BY <2>1, ExceptSeq
    <2> QED
        BY <1>4, <2>2
<1> HIDE DEF taken
<1>6. taken[g] \in Seq(Sound) /\ tgt[2] \in 1 .. Len(taken[g]) + 1
    <2>1. Len(groups[g]) \in Nat /\ Len(groups[src[1]]) \in Nat
        BY <1>2, <1>4, Listed
    <2>2. CASE g = src[1]
        <3>1. taken[g] = rest /\ Len(rest) + 1 = Len(groups[g])
            BY <1>3, <1>5, <2>1, <2>2
        <3> QED
            BY <1>1, <1>3, <2>2, <3>1
    <2>3. CASE g # src[1]
        <3>1. taken[g] = groups[g]
            BY <1>5, <2>3
        <3> QED
            BY <1>1, <1>4, <2>3, <3>1
    <2> QED
        BY <2>2, <2>3
<1>7. row \in Seq(Sound)
    BY <1>2, <1>6, InsertedInto
<1> HIDE DEF row
<1>8. groups' \in Seq(Seq(Sound)) /\ Len(groups') = Len(groups)
    BY <1>1, <1>4, <1>5, <1>7, ExceptSeq
<1> QED
    BY <1>1, <1>4, <1>8, GroupsReplaced

LEMMA SoundLayerStep == SoundMap /\ LayerStep => SoundMap'
<1>1. Resizes \cup {<<0, 0>>} \subseteq Nat \X Nat
    BY ResizeAssumption
<1> QED
    BY <1>1, SoundPut, SoundResize, SoundTilesEdit, SoundQuadsEdit, SoundDelete, SoundMove DEF LayerStep

LEMMA QuadsEdited ==
    ASSUME SoundMap, NEW s \in QuadSpots, NEW quads \in Seq(SoundQuad), EditedQuads(s, quads)
    PROVE  SoundMap'
<1> DEFINE old == At(s)
           new == [old EXCEPT !.quads = quads]
<1>1. /\ s \in Spots /\ old.kind = "quads" /\ UNCHANGED <<images, envelopes>>
      /\ groups' = [groups EXCEPT ![s[1]][s[2]] = new]
    BY DEF EditedQuads, QuadSpots, At
<1>2. old \in SoundQuads
    BY <1>1, SpotIn, SoundKinds
<1> HIDE DEF old
<1>3. new \in Sound
    BY <1>1, <1>2 DEF Sound, SoundQuads
<1> HIDE DEF new
<1> QED
    BY <1>1, <1>3, LayerReplaced

LEMMA SoundQuadStep == SoundMap /\ QuadStep => SoundMap'
<1> SUFFICES ASSUME SoundMap, QuadStep PROVE SoundMap'
    OBVIOUS
<1>1. ASSUME NEW s \in QuadSpots
      PROVE  /\ At(s).quads \in Seq(SoundQuad) /\ Len(At(s).quads) \in Nat
             /\ DOMAIN At(s).quads = 1 .. Len(At(s).quads)
             /\ \A q \in DOMAIN At(s).quads : At(s).quads[q] \in SoundQuad
    <2>1. At(s) \in SoundQuads
        BY SpotIn, SoundKinds DEF QuadSpots
    <2>2. At(s).quads \in Seq(SoundQuad)
        BY <2>1 DEF SoundQuads
    <2> QED
        BY <2>2, Listed
<1>2. ASSUME NEW s, NEW p \in PositionRefs, NEW c \in ColorRefs, PutQuad(s, p, c) PROVE SoundMap'
    <2> DEFINE q == [pos |-> p, color |-> c]
    <2>1. s \in QuadSpots /\ EditedQuads(s, Append(At(s).quads, q))
        BY <1>2 DEF PutQuad
    <2>2. q \in SoundQuad /\ At(s).quads \in Seq(SoundQuad)
        BY <1>1, <2>1 DEF SoundQuad
    <2> HIDE DEF q
    <2>3. Append(At(s).quads, q) \in Seq(SoundQuad)
        BY <2>2, AppendProperties
    <2> QED
        BY <2>1, <2>3, QuadsEdited
<1>3. ASSUME NEW s, NEW k, NEW p \in PositionRefs, NEW c \in ColorRefs, EditQuad(s, k, p, c)
      PROVE  SoundMap'
    <2> DEFINE q == [pos |-> p, color |-> c]
    <2>1. s \in QuadSpots /\ k \in DOMAIN At(s).quads /\ EditedQuads(s, [At(s).quads EXCEPT ![k] = q])
        BY <1>3 DEF EditQuad
    <2>2. q \in SoundQuad /\ At(s).quads \in Seq(SoundQuad) /\ k \in 1 .. Len(At(s).quads)
        BY <1>1, <2>1 DEF SoundQuad
    <2> HIDE DEF q
    <2>3. [At(s).quads EXCEPT ![k] = q] \in Seq(SoundQuad)
        BY <2>2, ExceptSeq
    <2> QED
        BY <2>1, <2>3, QuadsEdited
<1>4. ASSUME NEW s, NEW k, DeleteQuad(s, k) PROVE SoundMap'
    <2>1. s \in QuadSpots /\ k \in DOMAIN At(s).quads /\ EditedQuads(s, RemoveAt(At(s).quads, k))
        BY <1>4 DEF DeleteQuad
    <2>2. RemoveAt(At(s).quads, k) \in Seq(SoundQuad)
        BY <1>1, <2>1, RemovedFrom
    <2> QED
        BY <2>1, <2>2, QuadsEdited
<1>5. ASSUME NEW s, NEW src, NEW tgt, MoveQuad(s, src, tgt) PROVE SoundMap'
    <2> DEFINE quads == At(s).quads
               rest == RemoveAt(quads, s[1])
               moving == quads[s[1]]
    <2>1. /\ s \in QuadSpots /\ tgt \in DOMAIN quads /\ s[1] \in DOMAIN quads
          /\ EditedQuads(s, InsertAt(rest, tgt, moving))
        BY <1>5 DEF MoveQuad
    <2>2. /\ quads \in Seq(SoundQuad) /\ Len(quads) \in Nat /\ moving \in SoundQuad
          /\ tgt \in 1 .. Len(quads) /\ s[1] \in 1 .. Len(quads)
        BY <1>1, <2>1
    <2> HIDE DEF quads, moving
    <2>3. rest \in Seq(SoundQuad) /\ Len(rest) = Len(quads) - 1
        BY <2>2, RemovedFrom
    <2> HIDE DEF rest
    <2>4. tgt \in 1 .. Len(rest) + 1
        BY <2>2, <2>3
    <2>5. InsertAt(rest, tgt, moving) \in Seq(SoundQuad)
        BY <2>2, <2>3, <2>4, InsertedInto
    <2> QED
        BY <2>1, <2>5, QuadsEdited
<1> QED
    BY <1>2, <1>3, <1>4, <1>5 DEF QuadStep

-----------------------------------------------------------------------------
(* Operations on images and envelopes repair the references *)

(* The layers, renumbered by f, are sound for the images of the next state. *)
LEMMA ImagesReindexed ==
    ASSUME SoundMap, UNCHANGED envelopes, NEW f,
           images' \in Seq(Images), Len(images') <= MaxImages,
           groups' = ReindexImages(f),
           \A s \in Spots : HasImage(At(s)) =>
               /\ f[At(s).image] \in ImageRefs'
               /\ At(s).image \in TileImageRefs => f[At(s).image] \in TileImageRefs'
    PROVE  SoundMap'
<1>1. ColorRefs' = ColorRefs /\ PositionRefs' = PositionRefs /\ SoundQuad' = SoundQuad
    BY DEF ColorRefs, PositionRefs, SoundQuad
<1>2. ASSUME NEW s \in Spots PROVE WithImages(At(s), f) \in Sound'
    <2>1. At(s) \in Sound
        BY SpotIn
    <2>2. CASE At(s) \in Physical
        BY <2>2, Kinds DEF Physical, WithImages, HasImage, Sound
    <2>3. CASE At(s) \in SoundTiles
        <3>1. HasImage(At(s)) /\ At(s).image \in TileImageRefs
            BY <2>3 DEF SoundTiles, HasImage
        <3>2. f[At(s).image] \in TileImageRefs'
            BY <3>1
        <3>3. [At(s) EXCEPT !.image = f[At(s).image]] \in SoundTiles'
            BY <1>1, <2>3, <3>2 DEF SoundTiles
        <3> QED
            BY <3>1, <3>3 DEF WithImages, Sound
    <2>4. CASE At(s) \in SoundQuads
        <3>1. HasImage(At(s))
            BY <2>4 DEF SoundQuads, HasImage
        <3>2. f[At(s).image] \in ImageRefs'
            BY <3>1
        <3>3. [At(s) EXCEPT !.image = f[At(s).image]] \in SoundQuads'
            BY <1>1, <2>4, <3>2 DEF SoundQuads
        <3> QED
            BY <3>1, <3>3 DEF WithImages, Sound
    <2> QED
        BY <2>1, <2>2, <2>3, <2>4 DEF Sound
<1>3. groups \in Seq(Seq(Sound)) /\ Len(groups) \in Nat /\ DOMAIN groups = 1 .. Len(groups)
      /\ \A g \in DOMAIN groups : groups[g] \in Seq(Sound)
    BY Listed DEF SoundMap
<1>4. ASSUME NEW g \in DOMAIN groups PROVE groups'[g] \in Seq(Sound')
    <2>1. Len(groups[g]) \in Nat /\ DOMAIN groups[g] = 1 .. Len(groups[g])
        BY <1>3, Listed
    <2>2. groups'[g] = [l \in DOMAIN groups[g] |-> WithImages(groups[g][l], f)]
        BY DEF ReindexImages
    <2>3. \A l \in DOMAIN groups[g] : WithImages(groups[g][l], f) \in Sound'
        BY <1>2, InSpots
    <2>4. groups'[g] \in [1 .. Len(groups[g]) -> Sound']
        BY <2>1, <2>2, <2>3
    <2> QED
        BY <2>1, <2>4, FunctionIsSeq
<1>5. groups' \in [1 .. Len(groups) -> Seq(Sound')]
    BY <1>3, <1>4 DEF ReindexImages
<1>6. groups' \in Seq(Seq(Sound')) /\ Len(groups') = Len(groups)
    BY <1>3, <1>5, FunctionIsSeq
<1> QED
    BY <1>6 DEF SoundMap

(* ... and the same for envelopes. *)
LEMMA EnvsReindexed ==
    ASSUME SoundMap, UNCHANGED images, NEW f,
           envelopes' \in Seq(Envs), Len(envelopes') <= MaxEnvelopes,
           groups' = ReindexEnvs(f),
           \A e : EnvInUse(e) =>
               /\ e \in ColorRefs => f[e] \in ColorRefs'
               /\ e \in PositionRefs => f[e] \in PositionRefs'
    PROVE  SoundMap'
<1>1. TileImageRefs' = TileImageRefs /\ ImageRefs' = ImageRefs
    BY DEF TileImageRefs, ImageRefs
<1>2. ASSUME NEW s \in Spots PROVE WithEnvs(At(s), f) \in Sound'
    <2>1. At(s) \in Sound
        BY SpotIn
    <2>2. CASE At(s) \in Physical
        BY <2>2, Kinds DEF Physical, WithEnvs, Sound
    <2>3. CASE At(s) \in SoundTiles
        <3>1. At(s).kind = "tiles" /\ At(s).env \in ColorRefs
            BY <2>3 DEF SoundTiles
        <3>2. f[At(s).env] \in ColorRefs'
            BY <3>1 DEF EnvInUse
        <3>3. [At(s) EXCEPT !.env = f[At(s).env]] \in SoundTiles'
            BY <1>1, <2>3, <3>2 DEF SoundTiles
        <3> QED
            BY <3>1, <3>3 DEF WithEnvs, Sound
    <2>4. CASE At(s) \in SoundQuads
        <3> DEFINE qs == At(s).quads
                   new == [q \in DOMAIN qs |-> [pos |-> f[qs[q].pos], color |-> f[qs[q].color]]]
        <3>1. At(s).kind = "quads" /\ qs \in Seq(SoundQuad)
            BY <2>4 DEF SoundQuads
        <3> HIDE DEF qs
        <3>2. /\ Len(qs) \in Nat /\ DOMAIN qs = 1 .. Len(qs)
              /\ \A q \in DOMAIN qs : qs[q].pos \in PositionRefs /\ qs[q].color \in ColorRefs
            <4>1. \A q \in DOMAIN qs : qs[q] \in SoundQuad
                BY <3>1, Listed
            <4> QED
                BY <3>1, <4>1, Listed DEF SoundQuad
        <3>3. ASSUME NEW q \in DOMAIN qs PROVE new[q] \in SoundQuad'
            <4>1. f[qs[q].pos] \in PositionRefs' /\ f[qs[q].color] \in ColorRefs'
                BY <3>1, <3>2 DEF EnvInUse, qs
            <4> QED
                BY <4>1 DEF SoundQuad
        <3>4. new = [q \in 1 .. Len(qs) |-> new[q]]
            BY <3>2
        <3>5. WithEnvs(At(s), f) = [At(s) EXCEPT !.quads = new]
            BY <3>1 DEF WithEnvs, qs
        <3> HIDE DEF new
        <3>6. new \in [1 .. Len(qs) -> SoundQuad']
            BY <3>2, <3>3, <3>4
        <3>7. new \in Seq(SoundQuad')
            BY <3>2, <3>6, FunctionIsSeq
        <3>8. [At(s) EXCEPT !.quads = new] \in SoundQuads'
            BY <1>1, <2>4, <3>7 DEF SoundQuads
        <3> QED
            BY <3>5, <3>8 DEF Sound
    <2> QED
        BY <2>1, <2>2, <2>3, <2>4 DEF Sound
<1>3. groups \in Seq(Seq(Sound)) /\ Len(groups) \in Nat /\ DOMAIN groups = 1 .. Len(groups)
      /\ \A g \in DOMAIN groups : groups[g] \in Seq(Sound)
    BY Listed DEF SoundMap
<1>4. ASSUME NEW g \in DOMAIN groups PROVE groups'[g] \in Seq(Sound')
    <2>1. Len(groups[g]) \in Nat /\ DOMAIN groups[g] = 1 .. Len(groups[g])
        BY <1>3, Listed
    <2>2. groups'[g] = [l \in DOMAIN groups[g] |-> WithEnvs(groups[g][l], f)]
        BY DEF ReindexEnvs
    <2>3. \A l \in DOMAIN groups[g] : WithEnvs(groups[g][l], f) \in Sound'
        BY <1>2, InSpots
    <2>4. groups'[g] \in [1 .. Len(groups[g]) -> Sound']
        BY <2>1, <2>2, <2>3
    <2> QED
        BY <2>1, <2>4, FunctionIsSeq
<1>5. groups' \in [1 .. Len(groups) -> Seq(Sound')]
    BY <1>3, <1>4 DEF ReindexEnvs
<1>6. groups' \in Seq(Seq(Sound')) /\ Len(groups') = Len(groups)
    BY <1>3, <1>5, FunctionIsSeq
<1> QED
    BY <1>6 DEF SoundMap

LEMMA SoundImageChange ==
    ASSUME SoundMap,
           \/ \E i \in Images : PutImage(i)
           \/ \E i \in 1 .. MaxImages : DeleteImage(i)
    PROVE  SoundMap'
<1>0. /\ images \in Seq(Images) /\ Len(images) \in Nat /\ DOMAIN images = 1 .. Len(images)
      /\ Len(images) <= MaxImages /\ MaxImages \in Nat
    BY Listed, BoundAssumption DEF SoundMap
<1>1. ASSUME NEW i \in Images, PutImage(i) PROVE SoundMap'
    <2>1. /\ images' \in Seq(Images) /\ Len(images') = Len(images) + 1
          /\ \A k \in 1 .. Len(images) : images'[k] = images[k]
        <3>1. images' = Append(images, i)
            BY <1>1 DEF PutImage
        <3>2. /\ Append(images, i) \in Seq(Images) /\ Len(Append(images, i)) = Len(images) + 1
              /\ \A k \in 1 .. Len(images) : Append(images, i)[k] = images[k]
            BY <1>0, AppendProperties
        <3> QED
            BY <3>1, <3>2
    <2>2. Len(images') <= MaxImages
        <3>1. Len(images) # MaxImages
            BY <1>1 DEF PutImage
        <3>2. Len(images) \in Nat /\ Len(images) <= MaxImages /\ MaxImages \in Nat
            BY <1>0
        <3> QED
            BY <2>1, <3>1, <3>2
    <2>3. DOMAIN images' = 1 .. Len(images) + 1
        BY <2>1, Listed
    <2>4. TileImageRefs \subseteq TileImageRefs' /\ ImageRefs \subseteq ImageRefs'
        BY <1>0, <2>1, <2>3 DEF TileImageRefs, ImageRefs
    <2>5. UNCHANGED <<envelopes, groups>>
        BY <1>1 DEF PutImage
    <2>6. SoundTiles \subseteq SoundTiles' /\ SoundQuads \subseteq SoundQuads'
        BY <2>4, <2>5 DEF SoundTiles, SoundQuads, SoundQuad, ColorRefs, PositionRefs
    <2>7. Sound \subseteq Sound'
        BY <2>6 DEF Sound
    <2>8. \A row \in Seq(Sound) : row \in Seq(Sound')
        BY <2>7, SeqMonotonic
    <2>9. Seq(Sound) \subseteq Seq(Sound')
        BY <2>8
    <2>10. groups' \in Seq(Seq(Sound'))
        BY <2>5, <2>9, SeqMonotonic DEF SoundMap
    <2> QED
        BY <2>1, <2>2, <2>5, <2>10 DEF SoundMap
<1>2. ASSUME NEW i \in 1 .. MaxImages, DeleteImage(i) PROVE SoundMap'
    <2> DEFINE f == AfterRemoval(i, Len(images))
    <2>1. /\ i \in 1 .. Len(images) /\ ~ ImageInUse(i) /\ images' = RemoveAt(images, i)
          /\ groups' = ReindexImages(f) /\ UNCHANGED envelopes
        BY <1>0, <1>2 DEF DeleteImage
    <2>2. images' \in Seq(Images) /\ Len(images') = Len(images) - 1
        BY <1>0, <2>1, RemovedFrom
    <2>3. /\ f[0] = 0
          /\ \A k \in 1 .. Len(images) : k # i =>
                 f[k] \in 1 .. Len(images) - 1 /\ images'[f[k]] = images[k]
        BY <1>0, <2>1, RemovalFollowed
    <2> HIDE DEF f
    <2>4. DOMAIN images' = 1 .. Len(images) - 1
        BY <2>2, Listed
    <2>5. ASSUME NEW s \in Spots, HasImage(At(s))
          PROVE  /\ f[At(s).image] \in ImageRefs'
                 /\ At(s).image \in TileImageRefs => f[At(s).image] \in TileImageRefs'
        <3>1. At(s).image # i
            BY <2>1, <2>5 DEF ImageInUse
        <3>2. At(s).image \in ImageRefs
            BY <2>5, SpotIn, SoundKinds, RefsAreNat DEF HasImage, SoundTiles, SoundQuads
        <3>3. CASE At(s).image = 0
            BY <2>3, <3>3 DEF ImageRefs, TileImageRefs, None
        <3>4. CASE At(s).image \in 1 .. Len(images)
            BY <1>0, <2>3, <2>4, <3>1, <3>4 DEF ImageRefs, TileImageRefs, None
        <3> QED
            BY <1>0, <3>2, <3>3, <3>4 DEF ImageRefs, None
    <2> QED
        BY <1>0, <2>1, <2>2, <2>5, ImagesReindexed
<1> QED
    BY <1>1, <1>2

LEMMA SoundImageStep ==
    ASSUME ForwardMoves, SoundMap, ImageStep
    PROVE  SoundMap'
<1>0. /\ images \in Seq(Images) /\ Len(images) \in Nat /\ DOMAIN images = 1 .. Len(images)
      /\ Len(images) <= MaxImages /\ MaxImages \in Nat
    BY Listed, BoundAssumption DEF SoundMap
<1>1. ASSUME NEW src \in 1 .. (MaxImages + 1), NEW tgt \in 1 .. (MaxImages + 1), MoveImage(src, tgt)
      PROVE  SoundMap'
    <2> DEFINE f == AfterMove(src, tgt, Len(images))
    <2>1. /\ src \in 1 .. Len(images) /\ tgt \in 1 .. Len(images) /\ src <= tgt
          /\ images' = Moved(images, src, tgt)
          /\ groups' = ReindexImages(f) /\ UNCHANGED envelopes
        BY <1>0, <1>1 DEF MoveImage, RefMoves, Movable, ForwardMoves
    <2>2. images' \in Seq(Images) /\ Len(images') = Len(images)
        BY <1>0, <2>1, MovedWithin
    <2>3. /\ f[0] = 0
          /\ \A k \in 1 .. Len(images) : f[k] \in 1 .. Len(images) /\ images'[f[k]] = images[k]
        BY <1>0, <2>1, MoveFollowed
    <2> HIDE DEF f
    <2>4. DOMAIN images' = 1 .. Len(images)
        BY <2>2, Listed
    <2>5. ASSUME NEW s \in Spots, HasImage(At(s))
          PROVE  /\ f[At(s).image] \in ImageRefs'
                 /\ At(s).image \in TileImageRefs => f[At(s).image] \in TileImageRefs'
        <3>2. At(s).image \in ImageRefs
            BY <2>5, SpotIn, SoundKinds, RefsAreNat DEF HasImage, SoundTiles, SoundQuads
        <3>3. CASE At(s).image = 0
            BY <2>3, <3>3 DEF ImageRefs, TileImageRefs, None
        <3>4. CASE At(s).image \in 1 .. Len(images)
            BY <1>0, <2>3, <2>4, <3>4 DEF ImageRefs, TileImageRefs, None
        <3> QED
            BY <1>0, <3>2, <3>3, <3>4 DEF ImageRefs, None
    <2> QED
        BY <1>0, <2>1, <2>2, <2>5, ImagesReindexed
<1> QED
    BY <1>1, SoundImageChange DEF ImageStep

LEMMA SoundEnvelopeChange ==
    ASSUME SoundMap,
           \/ \E e \in Envs : PutEnvelope(e)
           \/ \E e \in 1 .. MaxEnvelopes : DeleteEnvelope(e)
    PROVE  SoundMap'
<1>0. /\ envelopes \in Seq(Envs) /\ Len(envelopes) \in Nat /\ DOMAIN envelopes = 1 .. Len(envelopes)
      /\ Len(envelopes) <= MaxEnvelopes /\ MaxEnvelopes \in Nat
    BY Listed, BoundAssumption DEF SoundMap
<1>1. ASSUME NEW e \in Envs, PutEnvelope(e) PROVE SoundMap'
    <2>1. /\ envelopes' \in Seq(Envs) /\ Len(envelopes') = Len(envelopes) + 1
          /\ \A k \in 1 .. Len(envelopes) : envelopes'[k] = envelopes[k]
        <3>1. envelopes' = Append(envelopes, e)
            BY <1>1 DEF PutEnvelope
        <3>2. /\ Append(envelopes, e) \in Seq(Envs)
              /\ Len(Append(envelopes, e)) = Len(envelopes) + 1
              /\ \A k \in 1 .. Len(envelopes) : Append(envelopes, e)[k] = envelopes[k]
            BY <1>0, AppendProperties
        <3> QED
            BY <3>1, <3>2
    <2>2. Len(envelopes') <= MaxEnvelopes
        <3>1. Len(envelopes) # MaxEnvelopes
            BY <1>1 DEF PutEnvelope
        <3>2. Len(envelopes) \in Nat /\ Len(envelopes) <= MaxEnvelopes /\ MaxEnvelopes \in Nat
            BY <1>0
        <3> QED
            BY <2>1, <3>1, <3>2
    <2>3. DOMAIN envelopes' = 1 .. Len(envelopes) + 1
        BY <2>1, Listed
    <2>4. ColorRefs \subseteq ColorRefs' /\ PositionRefs \subseteq PositionRefs'
        BY <1>0, <2>1, <2>3 DEF ColorRefs, PositionRefs
    <2>5. UNCHANGED <<images, groups>>
        BY <1>1 DEF PutEnvelope
    <2>6. SoundTiles \subseteq SoundTiles'
        BY <2>4, <2>5 DEF SoundTiles, TileImageRefs
    <2>7. SoundQuad \subseteq SoundQuad'
        BY <2>4 DEF SoundQuad
    <2>8. \A qs \in Seq(SoundQuad) : qs \in Seq(SoundQuad')
        BY <2>7, SeqMonotonic
    <2>9. SoundQuads \subseteq SoundQuads'
        BY <2>5, <2>8 DEF SoundQuads, ImageRefs
    <2>10. Sound \subseteq Sound'
        BY <2>6, <2>9 DEF Sound
    <2>11. \A row \in Seq(Sound) : row \in Seq(Sound')
        BY <2>10, SeqMonotonic
    <2>12. Seq(Sound) \subseteq Seq(Sound')
        BY <2>11
    <2>13. groups' \in Seq(Seq(Sound'))
        BY <2>5, <2>12, SeqMonotonic DEF SoundMap
    <2> QED
        BY <2>1, <2>2, <2>5, <2>13 DEF SoundMap
<1>2. ASSUME NEW e \in 1 .. MaxEnvelopes, DeleteEnvelope(e) PROVE SoundMap'
    <2> DEFINE f == AfterRemoval(e, Len(envelopes))
    <2>1. /\ e \in 1 .. Len(envelopes) /\ ~ EnvInUse(e) /\ envelopes' = RemoveAt(envelopes, e)
          /\ groups' = ReindexEnvs(f) /\ UNCHANGED images
        BY <1>0, <1>2 DEF DeleteEnvelope
    <2>2. envelopes' \in Seq(Envs) /\ Len(envelopes') = Len(envelopes) - 1
        BY <1>0, <2>1, RemovedFrom
    <2>3. /\ f[0] = 0
          /\ \A k \in 1 .. Len(envelopes) : k # e =>
                 f[k] \in 1 .. Len(envelopes) - 1 /\ envelopes'[f[k]] = envelopes[k]
        BY <1>0, <2>1, RemovalFollowed
    <2> HIDE DEF f
    <2>4. DOMAIN envelopes' = 1 .. Len(envelopes) - 1
        BY <2>2, Listed
    <2>5. ASSUME NEW k, EnvInUse(k)
          PROVE  /\ k \in ColorRefs => f[k] \in ColorRefs'
                 /\ k \in PositionRefs => f[k] \in PositionRefs'
        <3>1. k # e
            BY <2>1, <2>5
        <3>2. CASE k = 0
            BY <2>3, <3>2 DEF ColorRefs, PositionRefs, None
        <3>3. CASE k \in 1 .. Len(envelopes)
            BY <1>0, <2>3, <2>4, <3>1, <3>3 DEF ColorRefs, PositionRefs, None
        <3> QED
            BY <1>0, <3>2, <3>3 DEF ColorRefs, PositionRefs, None
    <2> QED
        BY <1>0, <2>1, <2>2, <2>5, EnvsReindexed
<1> QED
    BY <1>1, <1>2

LEMMA SoundEnvelopeStep ==
    ASSUME ForwardMoves, SoundMap, EnvelopeStep
    PROVE  SoundMap'
<1>0. /\ envelopes \in Seq(Envs) /\ Len(envelopes) \in Nat /\ DOMAIN envelopes = 1 .. Len(envelopes)
      /\ Len(envelopes) <= MaxEnvelopes /\ MaxEnvelopes \in Nat
    BY Listed, BoundAssumption DEF SoundMap
<1>1. ASSUME NEW src \in 1 .. (MaxEnvelopes + 1), NEW tgt \in 1 .. (MaxEnvelopes + 1),
             MoveEnvelope(src, tgt)
      PROVE  SoundMap'
    <2> DEFINE f == AfterMove(src, tgt, Len(envelopes))
    <2>1. /\ src \in 1 .. Len(envelopes) /\ tgt \in 1 .. Len(envelopes) /\ src <= tgt
          /\ envelopes' = Moved(envelopes, src, tgt)
          /\ groups' = ReindexEnvs(f) /\ UNCHANGED images
        BY <1>0, <1>1 DEF MoveEnvelope, RefMoves, Movable, ForwardMoves
    <2>2. envelopes' \in Seq(Envs) /\ Len(envelopes') = Len(envelopes)
        BY <1>0, <2>1, MovedWithin
    <2>3. /\ f[0] = 0
          /\ \A k \in 1 .. Len(envelopes) :
                 f[k] \in 1 .. Len(envelopes) /\ envelopes'[f[k]] = envelopes[k]
        BY <1>0, <2>1, MoveFollowed
    <2> HIDE DEF f
    <2>4. DOMAIN envelopes' = 1 .. Len(envelopes)
        BY <2>2, Listed
    <2>5. ASSUME NEW k
          PROVE  /\ k \in ColorRefs => f[k] \in ColorRefs'
                 /\ k \in PositionRefs => f[k] \in PositionRefs'
        <3>1. CASE k = 0
            BY <2>3, <3>1 DEF ColorRefs, PositionRefs, None
        <3>2. CASE k \in 1 .. Len(envelopes)
            BY <1>0, <2>3, <2>4, <3>2 DEF ColorRefs, PositionRefs, None
        <3> QED
            BY <1>0, <3>1, <3>2 DEF ColorRefs, PositionRefs, None
    <2> QED
        BY <1>0, <2>1, <2>2, <2>5, EnvsReindexed
<1> QED
    BY <1>1, SoundEnvelopeChange DEF EnvelopeStep

LEMMA SoundNext ==
    ASSUME ForwardMoves
    PROVE  SoundMap /\ [Next]_vars => SoundMap'
<1>1. CASE UNCHANGED vars
    BY <1>1 DEF vars, SoundMap, Sound, Physical, SoundTiles, SoundQuads, SoundQuad,
                TileImageRefs, ImageRefs, ColorRefs, PositionRefs
<1> QED
    BY <1>1, SoundImageStep, SoundEnvelopeStep, SoundGroupStep, SoundLayerStep, SoundQuadStep DEF Next

(* The document keeps its shape, and within its limits, as long as images and
   envelopes move backwards and nothing moves behind the last. *)
THEOREM TypeCorrect ==
    ASSUME ForwardMoves
    PROVE  Spec => []TypeOK
<1>1. SoundMap /\ [Next]_vars => SoundMap'
    BY SoundNext
<1> QED
    BY <1>1, SoundInit, SoundTypes, PTL DEF Spec

(* However images and envelopes are deleted and moved backwards while layers and
   quads are created, edited and moved, no reference dangles and none leads to
   an object of the wrong kind. *)
THEOREM ReferencesResolve ==
    ASSUME ForwardMoves
    PROVE  Spec => []RefsResolve
<1>1. SoundMap /\ [Next]_vars => SoundMap'
    BY SoundNext
<1> QED
    BY <1>1, SoundInit, SoundResolves, PTL DEF Spec

-----------------------------------------------------------------------------
(* Renumbering changes no picture *)

KeptAt(s) ==
    /\ HasImage(At(s)) => ImageOf(At(s).image) = ImageOf(At(s).image)'
    /\ At(s).kind = "tiles" => EnvOf(At(s).env) = EnvOf(At(s).env)'
    /\ At(s).kind = "quads" =>
          \A q \in DOMAIN At(s).quads :
              /\ EnvOf(At(s).quads[q].pos) = EnvOf(At(s).quads[q].pos)'
              /\ EnvOf(At(s).quads[q].color) = EnvOf(At(s).quads[q].color)'

(* What a layer refers to, with the lists the numbers are positions in. *)
LEMMA ReferencesOf ==
    ASSUME SoundMap, NEW s \in Spots
    PROVE  /\ HasImage(At(s)) => At(s).image \in 0 .. Len(images)
           /\ At(s).kind = "tiles" => At(s).env \in 0 .. Len(envelopes) /\ EnvInUse(At(s).env)
           /\ At(s).kind = "quads" => \A q \in DOMAIN At(s).quads :
                 /\ At(s).quads[q].pos \in 0 .. Len(envelopes) /\ EnvInUse(At(s).quads[q].pos)
                 /\ At(s).quads[q].color \in 0 .. Len(envelopes) /\ EnvInUse(At(s).quads[q].color)
<1>1. /\ TileImageRefs \subseteq 0 .. Len(images) /\ ImageRefs \subseteq 0 .. Len(images)
      /\ ColorRefs \subseteq 0 .. Len(envelopes) /\ PositionRefs \subseteq 0 .. Len(envelopes)
    BY RefsAreNat
<1>2. RefsResolve
    BY SoundResolves
<1> QED
    BY <1>1, <1>2 DEF RefsResolve, HasImage, EnvInUse

LEMMA SpotNext ==
    ASSUME NEW s \in Spots
    PROVE  /\ UNCHANGED groups => At(s)' = At(s)
           /\ \A f : groups' = ReindexImages(f) => At(s)' = WithImages(At(s), f)
           /\ \A f : groups' = ReindexEnvs(f) => At(s)' = WithEnvs(At(s), f)
<1>1. s[1] \in DOMAIN groups /\ s[2] \in DOMAIN groups[s[1]]
    BY SpotsAre
<1> QED
    BY <1>1 DEF At, ReindexImages, ReindexEnvs

(* f leads from the images to those of the next state. *)
LEMMA ImagesKept ==
    ASSUME SoundMap, UNCHANGED envelopes, NEW s \in Spots, NEW f,
           At(s)' = WithImages(At(s), f),
           DOMAIN images = 1 .. Len(images), 0 \notin DOMAIN images',
           HasImage(At(s)) =>
               /\ f[0] = 0
               /\ At(s).image \in DOMAIN images =>
                     f[At(s).image] \in DOMAIN images' /\ images'[f[At(s).image]] = images[At(s).image]
    PROVE  KeptAt(s)
<1>1. \A e : EnvOf(e) = {envelopes'[k] : k \in {e} \cap DOMAIN envelopes'}
    BY DEF EnvOf
<1>2. At(s) \in Sound
    BY SpotIn
<1>3. At(s).kind = "tiles" => At(s)'.env = At(s).env
    BY <1>2, SoundKinds DEF WithImages, HasImage, SoundTiles
<1>4. At(s).kind = "quads" => At(s)'.quads = At(s).quads
    BY <1>2, SoundKinds DEF WithImages, HasImage, SoundQuads
<1>5. ASSUME HasImage(At(s))
      PROVE  ImageOf(At(s).image) = {images'[k] : k \in {At(s)'.image} \cap DOMAIN images'}
    <2>1. At(s)'.image = f[At(s).image]
        BY <1>2, <1>5, SoundKinds DEF WithImages, HasImage, SoundTiles, SoundQuads
    <2>2. CASE At(s).image \in DOMAIN images
        BY <1>5, <2>1, <2>2 DEF ImageOf
    <2>3. CASE At(s).image \notin DOMAIN images
        <3>1. At(s).image = 0
            BY <1>5, <2>3, ReferencesOf
        <3> QED
            BY <1>5, <2>1, <2>3, <3>1 DEF ImageOf
    <2> QED
        BY <2>2, <2>3
<1> QED
    BY <1>1, <1>3, <1>4, <1>5 DEF KeptAt, ImageOf, EnvOf

LEMMA EnvsKept ==
    ASSUME SoundMap, UNCHANGED images, NEW s \in Spots, NEW f,
           At(s)' = WithEnvs(At(s), f),
           DOMAIN envelopes = 1 .. Len(envelopes), 0 \notin DOMAIN envelopes', f[0] = 0,
           \A e \in DOMAIN envelopes : EnvInUse(e) =>
               f[e] \in DOMAIN envelopes' /\ envelopes'[f[e]] = envelopes[e]
    PROVE  KeptAt(s)
<1>1. ASSUME NEW e \in 0 .. Len(envelopes), EnvInUse(e)
      PROVE  EnvOf(e) = {envelopes'[k] : k \in {f[e]} \cap DOMAIN envelopes'}
    <2>1. CASE e = 0
        BY <2>1 DEF EnvOf
    <2>2. CASE e \in DOMAIN envelopes
        BY <1>1, <2>2 DEF EnvOf
    <2> QED
        BY <2>1, <2>2
<1>2. At(s) \in Sound
    BY SpotIn
<1>3. HasImage(At(s)) => At(s)'.image = At(s).image
    BY <1>2, SoundKinds DEF WithEnvs, HasImage, SoundTiles, SoundQuads
<1>4. At(s).kind = "tiles" => At(s)'.env = f[At(s).env]
    BY <1>2, SoundKinds DEF WithEnvs, SoundTiles
<1>5. ASSUME At(s).kind = "quads", NEW q \in DOMAIN At(s).quads
      PROVE  /\ At(s)'.quads[q].pos = f[At(s).quads[q].pos]
             /\ At(s)'.quads[q].color = f[At(s).quads[q].color]
    <2> DEFINE qs == At(s).quads
               new == [k \in DOMAIN qs |-> [pos |-> f[qs[k].pos], color |-> f[qs[k].color]]]
    <2>1. At(s) \in SoundQuads
        BY <1>2, <1>5, SoundKinds
    <2>2. At(s)' = [At(s) EXCEPT !.quads = new]
        BY <1>5 DEF WithEnvs
    <2> HIDE DEF new
    <2>3. At(s)'.quads = new
        BY <2>1, <2>2 DEF SoundQuads
    <2> QED
        BY <1>5, <2>3 DEF new
<1>6. HasImage(At(s)) => ImageOf(At(s).image) = ImageOf(At(s).image)'
    BY <1>3 DEF ImageOf
<1>7. At(s).kind = "tiles" => EnvOf(At(s).env) = EnvOf(At(s).env)'
    BY <1>1, <1>4, ReferencesOf DEF EnvOf
<1>8. ASSUME At(s).kind = "quads", NEW q \in DOMAIN At(s).quads
      PROVE  /\ EnvOf(At(s).quads[q].pos) = EnvOf(At(s).quads[q].pos)'
             /\ EnvOf(At(s).quads[q].color) = EnvOf(At(s).quads[q].color)'
    BY <1>1, <1>5, <1>8, ReferencesOf DEF EnvOf
<1> QED
    BY <1>6, <1>7, <1>8 DEF KeptAt

LEMMA ImageStepKeeps ==
    ASSUME ForwardMoves, SoundMap, SoundMap', ImageStep, NEW s \in Spots
    PROVE  KeptAt(s)
<1>0. /\ images \in Seq(Images) /\ Len(images) \in Nat /\ DOMAIN images = 1 .. Len(images)
      /\ Len(images') \in Nat /\ DOMAIN images' = 1 .. Len(images')
    BY Listed DEF SoundMap
<1>1. 0 \notin DOMAIN images'
    BY <1>0
<1>2. ASSUME NEW i \in Images, PutImage(i) PROVE KeptAt(s)
    <2> DEFINE f == [k \in 0 .. Len(images) |-> k]
    <2>1. /\ Len(images') = Len(images) + 1
          /\ \A k \in 1 .. Len(images) : images'[k] = images[k]
        <3>1. images' = Append(images, i)
            BY <1>2 DEF PutImage
        <3>2. /\ Len(Append(images, i)) = Len(images) + 1
              /\ \A k \in 1 .. Len(images) : Append(images, i)[k] = images[k]
            BY <1>0, AppendProperties
        <3> QED
            BY <3>1, <3>2
    <2>2. At(s)' = At(s) /\ UNCHANGED envelopes
        BY <1>2, SpotNext DEF PutImage
    <2>3. \A k \in 0 .. Len(images) : f[k] = k
        OBVIOUS
    <2>4. At(s)' = WithImages(At(s), f)
        <3>1. CASE HasImage(At(s))
            <4>1. f[At(s).image] = At(s).image
                BY <2>3, <3>1, ReferencesOf
            <4>2. [At(s) EXCEPT !.image = At(s).image] = At(s)
                BY SpotIn DEF Sound, Physical, SoundTiles, SoundQuads
            <4> QED
                BY <2>2, <3>1, <4>1, <4>2 DEF WithImages
        <3>2. CASE ~ HasImage(At(s))
            BY <2>2, <3>2 DEF WithImages
        <3> QED
            BY <3>1, <3>2
    <2>5. f[0] = 0
        BY <1>0
    <2> HIDE DEF f
    <2>6. \A k \in DOMAIN images : f[k] \in DOMAIN images' /\ images'[f[k]] = images[k]
        BY <1>0, <2>1, <2>3
    <2> QED
        BY <1>0, <1>1, <2>2, <2>4, <2>5, <2>6, ImagesKept
<1>3. ASSUME NEW i \in 1 .. MaxImages, DeleteImage(i) PROVE KeptAt(s)
    <2> DEFINE f == AfterRemoval(i, Len(images))
    <2>1. /\ i \in 1 .. Len(images) /\ ~ ImageInUse(i) /\ images' = RemoveAt(images, i)
          /\ groups' = ReindexImages(f) /\ UNCHANGED envelopes
        BY <1>0, <1>3 DEF DeleteImage
    <2>2. /\ f[0] = 0
          /\ \A k \in 1 .. Len(images) : k # i =>
                 f[k] \in 1 .. Len(images) - 1 /\ images'[f[k]] = images[k]
        BY <1>0, <2>1, RemovalFollowed
    <2>3. Len(images') = Len(images) - 1
        BY <1>0, <2>1, RemovedFrom
    <2> HIDE DEF f
    <2>4. At(s)' = WithImages(At(s), f)
        BY <2>1, SpotNext
    <2>5. ASSUME HasImage(At(s)), At(s).image \in DOMAIN images
          PROVE  f[At(s).image] \in DOMAIN images' /\ images'[f[At(s).image]] = images[At(s).image]
        <3>1. At(s).image # i
            BY <2>1, <2>5 DEF ImageInUse
        <3> QED
            BY <1>0, <2>2, <2>3, <2>5, <3>1
    <2> QED
        BY <1>0, <1>1, <2>1, <2>2, <2>4, <2>5, ImagesKept
<1>4. ASSUME NEW src \in 1 .. (MaxImages + 1), NEW tgt \in 1 .. (MaxImages + 1), MoveImage(src, tgt)
      PROVE  KeptAt(s)
    <2> DEFINE f == AfterMove(src, tgt, Len(images))
    <2>1. /\ src \in 1 .. Len(images) /\ tgt \in 1 .. Len(images) /\ src <= tgt
          /\ images' = Moved(images, src, tgt)
          /\ groups' = ReindexImages(f) /\ UNCHANGED envelopes
        BY <1>0, <1>4 DEF MoveImage, RefMoves, Movable, ForwardMoves
    <2>2. /\ f[0] = 0
          /\ \A k \in 1 .. Len(images) : f[k] \in 1 .. Len(images) /\ images'[f[k]] = images[k]
        BY <1>0, <2>1, MoveFollowed
    <2>3. Len(images') = Len(images)
        BY <1>0, <2>1, MovedWithin
    <2> HIDE DEF f
    <2>4. At(s)' = WithImages(At(s), f)
        BY <2>1, SpotNext
    <2>5. \A k \in DOMAIN images : f[k] \in DOMAIN images' /\ images'[f[k]] = images[k]
        BY <1>0, <2>2, <2>3
    <2> QED
        BY <1>0, <1>1, <2>1, <2>2, <2>4, <2>5, ImagesKept
<1> QED
    BY <1>2, <1>3, <1>4 DEF ImageStep

LEMMA EnvelopeStepKeeps ==
    ASSUME ForwardMoves, SoundMap, SoundMap', EnvelopeStep, NEW s \in Spots
    PROVE  KeptAt(s)
<1>0. /\ envelopes \in Seq(Envs) /\ Len(envelopes) \in Nat /\ DOMAIN envelopes = 1 .. Len(envelopes)
      /\ Len(envelopes') \in Nat /\ DOMAIN envelopes' = 1 .. Len(envelopes')
    BY Listed DEF SoundMap
<1>1. 0 \notin DOMAIN envelopes'
    BY <1>0
<1>2. ASSUME NEW e \in Envs, PutEnvelope(e) PROVE KeptAt(s)
    <2>1. /\ Len(envelopes') = Len(envelopes) + 1
          /\ \A k \in 1 .. Len(envelopes) : envelopes'[k] = envelopes[k]
        <3>1. envelopes' = Append(envelopes, e)
            BY <1>2 DEF PutEnvelope
        <3>2. /\ Len(Append(envelopes, e)) = Len(envelopes) + 1
              /\ \A k \in 1 .. Len(envelopes) : Append(envelopes, e)[k] = envelopes[k]
            BY <1>0, AppendProperties
        <3> QED
            BY <3>1, <3>2
    <2>2. At(s)' = At(s) /\ UNCHANGED images
        BY <1>2, SpotNext DEF PutEnvelope
    <2>3. ASSUME NEW k \in 0 .. Len(envelopes)
          PROVE  EnvOf(k) = {envelopes'[j] : j \in {k} \cap DOMAIN envelopes'}
        <3>1. CASE k = 0
            BY <1>0, <3>1 DEF EnvOf
        <3>2. CASE k \in 1 .. Len(envelopes)
            BY <1>0, <2>1, <3>2 DEF EnvOf
        <3> QED
            BY <1>0, <3>1, <3>2
    <2>4. HasImage(At(s)) => ImageOf(At(s).image) = ImageOf(At(s).image)'
        BY <2>2 DEF ImageOf
    <2>5. At(s).kind = "tiles" => EnvOf(At(s).env) = EnvOf(At(s).env)'
        BY <2>2, <2>3, ReferencesOf DEF EnvOf
    <2>6. ASSUME At(s).kind = "quads", NEW q \in DOMAIN At(s).quads
          PROVE  /\ EnvOf(At(s).quads[q].pos) = EnvOf(At(s).quads[q].pos)'
                 /\ EnvOf(At(s).quads[q].color) = EnvOf(At(s).quads[q].color)'
        BY <2>2, <2>3, <2>6, ReferencesOf DEF EnvOf
    <2> QED
        BY <2>4, <2>5, <2>6 DEF KeptAt
<1>3. ASSUME NEW e \in 1 .. MaxEnvelopes, DeleteEnvelope(e) PROVE KeptAt(s)
    <2> DEFINE f == AfterRemoval(e, Len(envelopes))
    <2>1. /\ e \in 1 .. Len(envelopes) /\ ~ EnvInUse(e) /\ envelopes' = RemoveAt(envelopes, e)
          /\ groups' = ReindexEnvs(f) /\ UNCHANGED images
        BY <1>0, <1>3 DEF DeleteEnvelope
    <2>2. /\ f[0] = 0
          /\ \A k \in 1 .. Len(envelopes) : k # e =>
                 f[k] \in 1 .. Len(envelopes) - 1 /\ envelopes'[f[k]] = envelopes[k]
        BY <1>0, <2>1, RemovalFollowed
    <2>3. Len(envelopes') = Len(envelopes) - 1
        BY <1>0, <2>1, RemovedFrom
    <2> HIDE DEF f
    <2>4. At(s)' = WithEnvs(At(s), f)
        BY <2>1, SpotNext
    <2>5. ASSUME NEW k \in DOMAIN envelopes, EnvInUse(k)
          PROVE  f[k] \in DOMAIN envelopes' /\ envelopes'[f[k]] = envelopes[k]
        <3>1. k # e
            BY <2>1, <2>5
        <3> QED
            BY <1>0, <2>2, <2>3, <3>1
    <2> QED
        BY <1>0, <1>1, <2>1, <2>2, <2>4, <2>5, EnvsKept
<1>4. ASSUME NEW src \in 1 .. (MaxEnvelopes + 1), NEW tgt \in 1 .. (MaxEnvelopes + 1),
             MoveEnvelope(src, tgt)
      PROVE  KeptAt(s)
    <2> DEFINE f == AfterMove(src, tgt, Len(envelopes))
    <2>1. /\ src \in 1 .. Len(envelopes) /\ tgt \in 1 .. Len(envelopes) /\ src <= tgt
          /\ envelopes' = Moved(envelopes, src, tgt)
          /\ groups' = ReindexEnvs(f) /\ UNCHANGED images
        BY <1>0, <1>4 DEF MoveEnvelope, RefMoves, Movable, ForwardMoves
    <2>2. /\ f[0] = 0
          /\ \A k \in 1 .. Len(envelopes) :
                 f[k] \in 1 .. Len(envelopes) /\ envelopes'[f[k]] = envelopes[k]
        BY <1>0, <2>1, MoveFollowed
    <2>3. Len(envelopes') = Len(envelopes)
        BY <1>0, <2>1, MovedWithin
    <2> HIDE DEF f
    <2>4. At(s)' = WithEnvs(At(s), f)
        BY <2>1, SpotNext
    <2>5. \A k \in DOMAIN envelopes : f[k] \in DOMAIN envelopes' /\ envelopes'[f[k]] = envelopes[k]
        BY <1>0, <2>2, <2>3
    <2> QED
        BY <1>0, <1>1, <2>1, <2>2, <2>4, <2>5, EnvsKept
<1> QED
    BY <1>2, <1>3, <1>4 DEF EnvelopeStep

(* Deleting an image or an envelope, and moving one backwards, leaves every
   layer and quad with the picture and the animation it had. *)
THEOREM RenumberingKeepsReferents ==
    ASSUME ForwardMoves
    PROVE  Spec => ReferentsKept
<1>1. SoundMap /\ SoundMap' /\ [Next]_vars =>
          [images' # images \/ envelopes' # envelopes => \A s \in Spots : KeptAt(s)]_vars
    <2> SUFFICES ASSUME SoundMap, SoundMap', [Next]_vars, images' # images \/ envelopes' # envelopes,
                        NEW s \in Spots
                 PROVE  KeptAt(s)
        OBVIOUS
    <2>1. ~ UNCHANGED <<images, envelopes>>
        OBVIOUS
    <2>2. ~ GroupStep /\ ~ LayerStep /\ ~ QuadStep
        BY <2>1 DEF GroupStep, PutGroup, DeleteGroup, MoveGroup,
            LayerStep, PutPhysics, PutTiles, PutQuads, NewLayer, EditPhysics, EditTiles, EditQuads,
            DeleteLayer, MoveLayer,
            QuadStep, PutQuad, EditQuad, DeleteQuad, MoveQuad, EditedQuads
    <2>3. ImageStep \/ EnvelopeStep
        BY <2>1, <2>2 DEF Next, vars
    <2> QED
        BY <2>3, ImageStepKeeps, EnvelopeStepKeeps
<1>2. Spec => []SoundMap
    BY SoundInit, SoundNext, PTL DEF Spec
<1> QED
    BY <1>1, <1>2, PTL DEF Spec, ReferentsKept, KeptAt

-----------------------------------------------------------------------------
(***************************************************************************)
(* Every operation leaves the physics layers intact.  Most operations      *)
(* touch no physics layer; the others let each physics layer of the new    *)
(* map descend from one of the old map, or resize all alike, or add one.   *)
(***************************************************************************)

(* A request that changes the width of physics layers is not refused for its
   height. *)
WholeResizes == \A size \in Resizes : size[1] # 0 /\ Fits(size[1]) => Fits(size[2])

-----------------------------------------------------------------------------
(* The layers of the next state *)

LEMMA SpotOfNext ==
    ASSUME NEW s \in Spots'
    PROVE  /\ s[1] \in DOMAIN groups' /\ s[2] \in DOMAIN groups'[s[1]]
           /\ s = <<s[1], s[2]>> /\ At(s)' = groups'[s[1]][s[2]]
BY DEF Spots, At

LEMMA InSpotsNext ==
    ASSUME NEW g \in DOMAIN groups', NEW l \in DOMAIN groups'[g]
    PROVE  <<g, l>> \in Spots' /\ At(<<g, l>>)' = groups'[g][l]
BY DEF Spots, At

LEMMA SamePlaces ==
    ASSUME DOMAIN groups' = DOMAIN groups,
           \A g \in DOMAIN groups : DOMAIN groups'[g] = DOMAIN groups[g]
    PROVE  Spots' = Spots
<1>1. ASSUME NEW s \in Spots PROVE s \in Spots'
    <2>1. s[1] \in DOMAIN groups /\ s[2] \in DOMAIN groups[s[1]] /\ s = <<s[1], s[2]>>
        BY SpotsAre
    <2>2. <<s[1], s[2]>> \in Spots'
        BY <2>1, InSpotsNext
    <2> QED
        BY <2>1, <2>2
<1>2. ASSUME NEW s \in Spots' PROVE s \in Spots
    <2>1. s[1] \in DOMAIN groups' /\ s[2] \in DOMAIN groups'[s[1]] /\ s = <<s[1], s[2]>>
        BY SpotOfNext
    <2>2. <<s[1], s[2]>> \in Spots
        BY <2>1, InSpots
    <2> QED
        BY <2>1, <2>2
<1> QED
    BY <1>1, <1>2

(* Every physics layer was one before, in a place of its own and of the same
   kind and size; layers of one group were in one group. *)
LEMMA Descent ==
    ASSUME PhysicsIntact, NEW from,
           \A s \in Spots' : IsPhysics(At(s)') =>
               /\ from[s] \in Spots /\ At(from[s]).kind = At(s)'.kind
               /\ At(from[s]).w = At(s)'.w /\ At(from[s]).h = At(s)'.h,
           \A s, t \in Spots' : IsPhysics(At(s)') /\ IsPhysics(At(t)') =>
               /\ from[s][1] = from[t][1] => s[1] = t[1]
               /\ from[s] = from[t] => s = t,
           \E s \in Spots' : At(s)'.kind = "game"
    PROVE  PhysicsIntact'
<1>1. HasGameLayer'
    BY DEF HasGameLayer
<1>2. ASSUME NEW s \in Spots', NEW t \in Spots', IsPhysics(At(s)'), IsPhysics(At(t)')
      PROVE  /\ s[1] = t[1]
             /\ At(s)'.kind = At(t)'.kind => s = t
             /\ At(s)'.w = At(t)'.w /\ At(s)'.h = At(t)'.h
    <2>1. /\ from[s] \in Spots /\ At(from[s]).kind = At(s)'.kind
          /\ At(from[s]).w = At(s)'.w /\ At(from[s]).h = At(s)'.h
          /\ from[t] \in Spots /\ At(from[t]).kind = At(t)'.kind
          /\ At(from[t]).w = At(t)'.w /\ At(from[t]).h = At(t)'.h
        BY <1>2
    <2>2. IsPhysics(At(from[s])) /\ IsPhysics(At(from[t]))
        BY <1>2, <2>1 DEF IsPhysics
    <2>3. /\ from[s][1] = from[t][1]
          /\ At(from[s]).kind = At(from[t]).kind => from[s] = from[t]
          /\ At(from[s]).w = At(from[t]).w /\ At(from[s]).h = At(from[t]).h
        BY <2>1, <2>2 DEF PhysicsIntact
    <2> QED
        BY <1>2, <2>1, <2>3
<1> QED
    BY <1>1, <1>2 DEF PhysicsIntact, IsPhysics

(* The same places, and the physics layers are those that were there. *)
LEMMA PhysicsUntouched ==
    ASSUME PhysicsIntact, Spots' = Spots,
           \A s \in Spots : IF IsPhysics(At(s)) THEN At(s)' = At(s) ELSE ~ IsPhysics(At(s)')
    PROVE  PhysicsIntact'
<1>1. HasGameLayer'
    BY DEF HasGameLayer, PhysicsIntact, IsPhysics
<1>2. ASSUME NEW s \in Spots', NEW t \in Spots', IsPhysics(At(s)'), IsPhysics(At(t)')
      PROVE  /\ s[1] = t[1]
             /\ At(s)'.kind = At(t)'.kind => s = t
             /\ At(s)'.w = At(t)'.w /\ At(s)'.h = At(t)'.h
    BY <1>2 DEF PhysicsIntact
<1> QED
    BY <1>1, <1>2 DEF PhysicsIntact, IsPhysics

LEMMA SameGroups == PhysicsIntact /\ UNCHANGED groups => PhysicsIntact'
BY DEF PhysicsIntact, HasGameLayer, Spots, At

-----------------------------------------------------------------------------
(* Images and envelopes *)

LEMMA IntactReindexed ==
    ASSUME SoundMap, PhysicsIntact, NEW f, groups' = ReindexImages(f) \/ groups' = ReindexEnvs(f)
    PROVE  PhysicsIntact'
<1>1. DOMAIN groups' = DOMAIN groups /\ \A g \in DOMAIN groups : DOMAIN groups'[g] = DOMAIN groups[g]
    BY DEF ReindexImages, ReindexEnvs
<1>2. Spots' = Spots
    BY <1>1, SamePlaces
<1>3. ASSUME NEW s \in Spots
      PROVE  IF IsPhysics(At(s)) THEN At(s)' = At(s) ELSE ~ IsPhysics(At(s)')
    <2>1. At(s) \in Sound /\ (At(s)' = WithImages(At(s), f) \/ At(s)' = WithEnvs(At(s), f))
        BY SpotIn, SpotNext
    <2>2. CASE At(s) \in Physical
        BY <2>1, <2>2, Kinds, SoundKinds DEF Physical, WithImages, WithEnvs, HasImage
    <2>3. CASE At(s) \in SoundTiles
        <3>1. At(s)'.kind = "tiles" /\ At(s).kind = "tiles"
            BY <2>1, <2>3 DEF SoundTiles, WithImages, WithEnvs, HasImage
        <3> QED
            BY <3>1, Kinds DEF IsPhysics
    <2>4. CASE At(s) \in SoundQuads
        <3>1. At(s)'.kind = "quads" /\ At(s).kind = "quads"
            BY <2>1, <2>4 DEF SoundQuads, WithImages, WithEnvs, HasImage
        <3> QED
            BY <3>1, Kinds DEF IsPhysics
    <2> QED
        BY <2>1, <2>2, <2>3, <2>4 DEF Sound
<1> QED
    BY <1>2, <1>3, PhysicsUntouched

LEMMA IntactReferents ==
    ASSUME SoundMap, PhysicsIntact, ImageStep \/ EnvelopeStep
    PROVE  PhysicsIntact'
BY SameGroups, IntactReindexed DEF ImageStep, PutImage, DeleteImage, MoveImage,
   EnvelopeStep, PutEnvelope, DeleteEnvelope, MoveEnvelope

-----------------------------------------------------------------------------
(* Groups *)

(* The groups are some of those that were there, each once. *)
LEMMA GroupsDescend ==
    ASSUME SoundMap, PhysicsIntact, NEW h,
           \A g \in DOMAIN groups' : h[g] \in DOMAIN groups /\ groups'[g] = groups[h[g]],
           \A g, k \in DOMAIN groups' : h[g] = h[k] => g = k,
           \A g \in DOMAIN groups : IsPhysicsGroup(groups[g]) => \E k \in DOMAIN groups' : h[k] = g
    PROVE  PhysicsIntact'
<1> DEFINE from == [s \in Spots' |-> <<h[s[1]], s[2]>>]
<1>1. ASSUME NEW s \in Spots' PROVE from[s] \in Spots /\ At(from[s]) = At(s)'
    <2>1. s[1] \in DOMAIN groups' /\ s[2] \in DOMAIN groups'[s[1]] /\ At(s)' = groups'[s[1]][s[2]]
        BY SpotOfNext
    <2>2. h[s[1]] \in DOMAIN groups /\ s[2] \in DOMAIN groups[h[s[1]]]
          /\ groups'[s[1]] = groups[h[s[1]]]
        BY <2>1
    <2>3. <<h[s[1]], s[2]>> \in Spots /\ At(<<h[s[1]], s[2]>>) = groups[h[s[1]]][s[2]]
        BY <2>2, InSpots
    <2> QED
        BY <2>1, <2>2, <2>3
<1>2. ASSUME NEW s \in Spots', NEW t \in Spots'
      PROVE  /\ from[s][1] = from[t][1] => s[1] = t[1]
             /\ from[s] = from[t] => s = t
    <2>1. /\ s[1] \in DOMAIN groups' /\ s = <<s[1], s[2]>>
          /\ t[1] \in DOMAIN groups' /\ t = <<t[1], t[2]>>
        BY SpotOfNext
    <2>2. from[s] = <<h[s[1]], s[2]>> /\ from[t] = <<h[t[1]], t[2]>>
        OBVIOUS
    <2> QED
        BY <2>1, <2>2
<1>3. \E s \in Spots' : At(s)'.kind = "game"
    <2>1. PICK s \in Spots : At(s).kind = "game"
        BY DEF PhysicsIntact, HasGameLayer
    <2>2. s[1] \in DOMAIN groups /\ s[2] \in DOMAIN groups[s[1]]
        BY SpotsAre
    <2>3. IsPhysicsGroup(groups[s[1]])
        BY <2>1, <2>2 DEF IsPhysicsGroup, At
    <2>4. PICK k \in DOMAIN groups' : h[k] = s[1]
        BY <2>2, <2>3
    <2>5. s[2] \in DOMAIN groups'[k] /\ groups'[k][s[2]] = At(s)
        BY <2>2, <2>4 DEF At
    <2>6. <<k, s[2]>> \in Spots' /\ At(<<k, s[2]>>)' = groups'[k][s[2]]
        BY <2>5, InSpotsNext
    <2> QED
        BY <2>1, <2>5, <2>6
<1> HIDE DEF from
<1> QED
    BY <1>1, <1>2, <1>3, Descent

(* Where the element g of a list goes when src moves to tgt. *)
Target(src, tgt, g) ==
    IF g = src THEN tgt
    ELSE IF src < g /\ g <= tgt THEN g - 1
    ELSE IF tgt <= g /\ g < src THEN g + 1
    ELSE g

LEMMA OriginOnce ==
    ASSUME NEW n \in Nat, NEW src \in 1 .. n, NEW tgt \in 1 .. n
    PROVE  /\ \A j \in 1 .. n : Origin(src, tgt, j) \in 1 .. n
           /\ \A j, k \in 1 .. n : Origin(src, tgt, j) = Origin(src, tgt, k) => j = k
           /\ \A g \in 1 .. n :
                 Target(src, tgt, g) \in 1 .. n /\ Origin(src, tgt, Target(src, tgt, g)) = g
BY DEF Origin, Target

LEMMA IntactGroupStep ==
    ASSUME ForwardMoves, SoundMap, PhysicsIntact, GroupStep
    PROVE  PhysicsIntact'
<1>0. /\ groups \in Seq(Seq(Sound)) /\ Len(groups) \in Nat /\ DOMAIN groups = 1 .. Len(groups)
    BY Listed DEF SoundMap
<1>1. CASE PutGroup
    <2>1. groups' = Append(groups, <<>>) /\ <<>> \in Seq(Sound)
        BY <1>1, EmptySeq DEF PutGroup
    <2>2. /\ groups' \in Seq(Seq(Sound)) /\ Len(groups') = Len(groups) + 1
          /\ \A k \in 1 .. Len(groups) : groups'[k] = groups[k]
          /\ groups'[Len(groups) + 1] = <<>>
        BY <1>0, <2>1, AppendProperties
    <2>3. DOMAIN groups' = 1 .. (Len(groups) + 1)
        BY <2>2, Listed
    <2>4. ASSUME NEW s \in Spots PROVE s \in Spots' /\ At(s)' = At(s)
        <3>1. s[1] \in 1 .. Len(groups) /\ s[2] \in DOMAIN groups[s[1]] /\ s = <<s[1], s[2]>>
            BY <1>0, SpotsAre
        <3>2. s[1] \in DOMAIN groups' /\ groups'[s[1]] = groups[s[1]]
            BY <1>0, <2>2, <2>3, <3>1
        <3> QED
            BY <3>1, <3>2, InSpotsNext DEF At
    <2>5. ASSUME NEW s \in Spots' PROVE s \in Spots
        <3>1. s[1] \in DOMAIN groups' /\ s[2] \in DOMAIN groups'[s[1]] /\ s = <<s[1], s[2]>>
            BY SpotOfNext
        <3>2. s[1] # Len(groups) + 1
            BY <2>2, <3>1
        <3>3. s[1] \in 1 .. (Len(groups) + 1)
            BY <2>3, <3>1
        <3>4. s[1] \in 1 .. Len(groups)
            BY <1>0, <3>2, <3>3
        <3>5. s[1] \in DOMAIN groups /\ groups'[s[1]] = groups[s[1]]
            BY <1>0, <2>2, <3>4
        <3> QED
            BY <3>1, <3>5, InSpots
    <2>6. Spots' = Spots
        BY <2>4, <2>5
    <2> QED
        BY <2>4, <2>6, PhysicsUntouched
<1>2. ASSUME NEW g, DeleteGroup(g) PROVE PhysicsIntact'
    <2> DEFINE h == [k \in 1 .. Len(groups) - 1 |-> IF k < g THEN k ELSE k + 1]
    <2>1. g \in 1 .. Len(groups) /\ groups' = RemoveAt(groups, g) /\ ~ IsPhysicsGroup(groups[g])
        BY <1>0, <1>2 DEF DeleteGroup
    <2>2. /\ groups' \in Seq(Seq(Sound)) /\ Len(groups') = Len(groups) - 1
          /\ \A k \in 1 .. Len(groups) - 1 :
                groups'[k] = IF k < g THEN groups[k] ELSE groups[k + 1]
        BY <1>0, <2>1, RemovedFrom
    <2>3. DOMAIN groups' = 1 .. Len(groups) - 1
        BY <2>2, Listed
    <2>4. \A k \in 1 .. Len(groups) - 1 : h[k] \in 1 .. Len(groups) /\ groups'[k] = groups[h[k]]
        BY <1>0, <2>1, <2>2
    <2>5. \A k, j \in 1 .. Len(groups) - 1 : h[k] = h[j] => k = j
        BY <1>0, <2>1
    <2>6. ASSUME NEW k \in 1 .. Len(groups), IsPhysicsGroup(groups[k])
          PROVE  \E j \in 1 .. Len(groups) - 1 : h[j] = k
        <3> DEFINE j == IF k < g THEN k ELSE k - 1
        <3>1. k # g
            BY <2>1, <2>6
        <3>2. j \in 1 .. Len(groups) - 1 /\ h[j] = k
            BY <1>0, <2>1, <3>1
        <3> QED
            BY <3>2
    <2> HIDE DEF h
    <2>7. /\ \A k \in DOMAIN groups' : h[k] \in DOMAIN groups /\ groups'[k] = groups[h[k]]
          /\ \A k, j \in DOMAIN groups' : h[k] = h[j] => k = j
          /\ \A k \in DOMAIN groups : IsPhysicsGroup(groups[k]) => \E j \in DOMAIN groups' : h[j] = k
        BY <1>0, <2>3, <2>4, <2>5, <2>6
    <2> QED
        BY <2>7, GroupsDescend
<1>3. ASSUME NEW src, NEW tgt, MoveGroup(src, tgt) PROVE PhysicsIntact'
    <2> DEFINE h == [k \in 1 .. Len(groups) |-> Origin(src, tgt, k)]
    <2>1. src \in 1 .. Len(groups) /\ tgt \in 1 .. Len(groups) /\ groups' = Moved(groups, src, tgt)
        BY <1>3 DEF MoveGroup, Movable, ForwardMoves
    <2>2. /\ groups' \in Seq(Seq(Sound)) /\ Len(groups') = Len(groups)
          /\ \A k \in 1 .. Len(groups) : groups'[k] = groups[Origin(src, tgt, k)]
        BY <1>0, <2>1, MovedWithin
    <2>3. DOMAIN groups' = 1 .. Len(groups)
        BY <2>2, Listed
    <2>4. Len(groups) \in Nat /\ src \in 1 .. Len(groups) /\ tgt \in 1 .. Len(groups)
        BY <1>0, <2>1
    <2>5. /\ \A j \in 1 .. Len(groups) : Origin(src, tgt, j) \in 1 .. Len(groups)
          /\ \A j, k \in 1 .. Len(groups) : Origin(src, tgt, j) = Origin(src, tgt, k) => j = k
          /\ \A g \in 1 .. Len(groups) :
                Target(src, tgt, g) \in 1 .. Len(groups) /\ Origin(src, tgt, Target(src, tgt, g)) = g
        BY <2>4, OriginOnce
    <2>6. \A k \in 1 .. Len(groups) : h[k] = Origin(src, tgt, k)
        OBVIOUS
    <2> HIDE DEF h
    <2>7. /\ \A k \in 1 .. Len(groups) : h[k] \in 1 .. Len(groups)
          /\ \A j, k \in 1 .. Len(groups) : h[j] = h[k] => j = k
          /\ \A g \in 1 .. Len(groups) : \E k \in 1 .. Len(groups) : h[k] = g
        <3>1. \A k \in 1 .. Len(groups) : h[k] \in 1 .. Len(groups)
            BY <2>5, <2>6
        <3>2. ASSUME NEW j \in 1 .. Len(groups), NEW k \in 1 .. Len(groups), h[j] = h[k] PROVE j = k
            <4>1. Origin(src, tgt, j) = Origin(src, tgt, k)
                BY <2>6, <3>2
            <4> QED
                BY <2>5, <4>1
        <3>3. ASSUME NEW g \in 1 .. Len(groups) PROVE \E k \in 1 .. Len(groups) : h[k] = g
            <4>1. Target(src, tgt, g) \in 1 .. Len(groups) /\ Origin(src, tgt, Target(src, tgt, g)) = g
                BY <2>5
            <4>2. h[Target(src, tgt, g)] = g
                BY <2>6, <4>1
            <4> QED
                BY <4>1, <4>2
        <3> QED
            BY <3>1, <3>2, <3>3
    <2>8. ASSUME NEW k \in 1 .. Len(groups) PROVE groups'[k] = groups[h[k]]
        <3>1. h[k] = Origin(src, tgt, k)
            BY <2>6
        <3>2. groups'[k] = groups[Origin(src, tgt, k)]
            BY <2>2
        <3> QED
            BY <3>1, <3>2
    <2>9. /\ \A k \in DOMAIN groups' : h[k] \in DOMAIN groups /\ groups'[k] = groups[h[k]]
          /\ \A j, k \in DOMAIN groups' : h[j] = h[k] => j = k
          /\ \A g \in DOMAIN groups : IsPhysicsGroup(groups[g]) => \E k \in DOMAIN groups' : h[k] = g
        BY <1>0, <2>3, <2>7, <2>8
    <2> QED
        BY <2>9, GroupsDescend
<1> QED
    BY <1>1, <1>2, <1>3 DEF GroupStep

-----------------------------------------------------------------------------
(* Layers and quads *)

LEMMA OneReplaced ==
    ASSUME NEW s \in Spots, NEW layer, groups' = [groups EXCEPT ![s[1]][s[2]] = layer]
    PROVE  Spots' = Spots /\ \A t \in Spots : At(t)' = IF t = s THEN layer ELSE At(t)
<1>0. s[1] \in DOMAIN groups /\ s[2] \in DOMAIN groups[s[1]] /\ s = <<s[1], s[2]>>
    BY SpotsAre
<1>1. /\ DOMAIN groups' = DOMAIN groups
      /\ \A g \in DOMAIN groups : DOMAIN groups'[g] = DOMAIN groups[g]
    BY <1>0
<1>2. Spots' = Spots
    BY <1>1, SamePlaces
<1>3. ASSUME NEW t \in Spots PROVE At(t)' = IF t = s THEN layer ELSE At(t)
    <2>1. t[1] \in DOMAIN groups /\ t[2] \in DOMAIN groups[t[1]] /\ t = <<t[1], t[2]>>
        BY SpotsAre
    <2> QED
        BY <1>0, <2>1 DEF At
<1> QED
    BY <1>2, <1>3

(* A layer that is no physics layer is replaced by another. *)
LEMMA IntactReplaced ==
    ASSUME PhysicsIntact, NEW s \in Spots, NEW layer, ~ IsPhysics(At(s)), ~ IsPhysics(layer),
           groups' = [groups EXCEPT ![s[1]][s[2]] = layer]
    PROVE  PhysicsIntact'
BY OneReplaced, PhysicsUntouched

LEMMA IntactEdits ==
    ASSUME SoundMap, PhysicsIntact, NEW s
    PROVE  /\ \A size \in Nat \X Nat : \A i, e : EditTiles(s, size, i, e) => PhysicsIntact'
           /\ \A i : EditQuads(s, i) => PhysicsIntact'
           /\ \A quads : s \in QuadSpots /\ EditedQuads(s, quads) => PhysicsIntact'
<1> DEFINE old == At(s)
<1>1. ASSUME NEW size \in Nat \X Nat, NEW i, NEW e, EditTiles(s, size, i, e)
      PROVE  PhysicsIntact'
    <2> DEFINE sized == Reshaped(old, size)
               new == IF Fits(size[1]) /\ Fits(size[2])
                      THEN [sized EXCEPT !.image = i, !.env = e] ELSE sized
    <2>1. /\ s \in Spots /\ old.kind = "tiles"
          /\ groups' = [groups EXCEPT ![s[1]][s[2]] = new]
        BY <1>1 DEF EditTiles, At
    <2>2. old \in SoundTiles
        BY <2>1, SpotIn, SoundKinds
    <2>3. sized \in SoundTiles
        BY <2>2, ReshapedTypes
    <2> HIDE DEF sized
    <2>4. new.kind = "tiles"
        BY <2>3 DEF SoundTiles
    <2> HIDE DEF new
    <2>5. ~ IsPhysics(old) /\ ~ IsPhysics(new)
        BY <2>1, <2>4, Kinds DEF IsPhysics
    <2> QED
        BY <2>1, <2>5, IntactReplaced
<1>2. ASSUME NEW i, EditQuads(s, i) PROVE PhysicsIntact'
    <2> DEFINE new == [old EXCEPT !.image = i]
    <2>1. s \in Spots /\ old.kind = "quads" /\ groups' = [groups EXCEPT ![s[1]][s[2]] = new]
        BY <1>2 DEF EditQuads, At
    <2>2. new.kind = "quads"
        BY <2>1, SpotIn, SoundKinds DEF SoundQuads
    <2> HIDE DEF new
    <2>3. ~ IsPhysics(old) /\ ~ IsPhysics(new)
        BY <2>1, <2>2, Kinds DEF IsPhysics
    <2> QED
        BY <2>1, <2>3, IntactReplaced
<1>3. ASSUME NEW quads, s \in QuadSpots, EditedQuads(s, quads) PROVE PhysicsIntact'
    <2> DEFINE new == [old EXCEPT !.quads = quads]
    <2>1. s \in Spots /\ old.kind = "quads" /\ groups' = [groups EXCEPT ![s[1]][s[2]] = new]
        BY <1>3 DEF EditedQuads, QuadSpots, At
    <2>2. new.kind = "quads"
        BY <2>1, SpotIn, SoundKinds DEF SoundQuads
    <2> HIDE DEF new
    <2>3. ~ IsPhysics(old) /\ ~ IsPhysics(new)
        BY <2>1, <2>2, Kinds DEF IsPhysics
    <2> QED
        BY <2>1, <2>3, IntactReplaced
<1> QED
    BY <1>1, <1>2, <1>3

LEMMA IntactQuadStep ==
    ASSUME SoundMap, PhysicsIntact, QuadStep
    PROVE  PhysicsIntact'
BY IntactEdits DEF QuadStep, PutQuad, EditQuad, DeleteQuad, MoveQuad

(* A layer is added: if it is a physics layer, of a new kind, beside the others
   and of their size. *)
LEMMA IntactAdded ==
    ASSUME SoundMap, PhysicsIntact, NEW g, NEW layer, NewLayer(g, layer),
           IsPhysics(layer) => \A s \in Spots : IsPhysics(At(s)) =>
               s[1] = g /\ At(s).kind # layer.kind /\ At(s).w = layer.w /\ At(s).h = layer.h
    PROVE  PhysicsIntact'
<1>0. PICK n : n = Len(groups[g]) + 1
    OBVIOUS
<1> DEFINE new == <<g, n>>
<1>1. /\ groups \in Seq(Seq(Sound)) /\ g \in DOMAIN groups /\ groups[g] \in Seq(Sound)
      /\ Len(groups[g]) \in Nat /\ DOMAIN groups[g] = 1 .. Len(groups[g])
    BY Listed DEF SoundMap, NewLayer
<1>2. groups' = [groups EXCEPT ![g] = Append(groups[g], layer)]
    BY DEF NewLayer
<1>3. /\ DOMAIN groups' = DOMAIN groups
      /\ \A k \in DOMAIN groups : k # g => groups'[k] = groups[k]
      /\ groups'[g] = Append(groups[g], layer)
    BY <1>1, <1>2
<1>4. /\ DOMAIN groups'[g] = 1 .. Len(groups[g]) + 1
      /\ \A l \in 1 .. Len(groups[g]) : groups'[g][l] = groups[g][l]
      /\ groups'[g][n] = layer
    BY <1>0, <1>1, <1>3
<1>5. new \in Spots' /\ At(new)' = layer
    <2>1. g \in DOMAIN groups' /\ n \in DOMAIN groups'[g]
        BY <1>0, <1>1, <1>3, <1>4
    <2>2. new \in Spots' /\ At(new)' = groups'[g][n]
        BY <2>1, InSpotsNext
    <2> QED
        BY <1>4, <2>2
<1>6. ASSUME NEW s \in Spots PROVE s \in Spots' /\ At(s)' = At(s)
    <2>1. s[1] \in DOMAIN groups /\ s[2] \in DOMAIN groups[s[1]] /\ s = <<s[1], s[2]>>
        BY SpotsAre
    <2>2. s[2] \in DOMAIN groups'[s[1]] /\ groups'[s[1]][s[2]] = groups[s[1]][s[2]]
        <3>1. CASE s[1] = g
            <4>1. s[2] \in 1 .. Len(groups[g])
                BY <1>1, <2>1, <3>1
            <4>2. s[2] \in 1 .. Len(groups[g]) + 1 /\ groups'[g][s[2]] = groups[g][s[2]]
                BY <1>1, <1>4, <4>1
            <4> QED
                BY <1>4, <3>1, <4>2
        <3>2. CASE s[1] # g
            BY <1>3, <2>1, <3>2
        <3> QED
            BY <3>1, <3>2
    <2>3. <<s[1], s[2]>> \in Spots' /\ At(<<s[1], s[2]>>)' = groups'[s[1]][s[2]]
        BY <1>3, <2>1, <2>2, InSpotsNext
    <2> QED
        BY <2>1, <2>2, <2>3 DEF At
<1>7. ASSUME NEW s \in Spots' PROVE s = new \/ s \in Spots
    <2>1. s[1] \in DOMAIN groups' /\ s[2] \in DOMAIN groups'[s[1]] /\ s = <<s[1], s[2]>>
        BY SpotOfNext
    <2>2. CASE s[1] = g
        <3>1. s[2] \in 1 .. Len(groups[g]) + 1
            BY <1>4, <2>1, <2>2
        <3>2. s[2] \in DOMAIN groups[g] \/ s[2] = n
            BY <1>0, <1>1, <3>1
        <3> QED
            BY <1>1, <2>1, <2>2, <3>2, InSpots
    <2>3. CASE s[1] # g
        BY <1>3, <2>1, <2>3, InSpots
    <2> QED
        BY <2>2, <2>3
<1> HIDE DEF new
<1>8. new[1] = g
    BY DEF new
<1>9. HasGameLayer'
    BY <1>6 DEF PhysicsIntact, HasGameLayer
<1>10. ASSUME NEW s \in Spots, IsPhysics(At(s)), IsPhysics(layer)
       PROVE  s[1] = g /\ At(s).kind # layer.kind /\ At(s).w = layer.w /\ At(s).h = layer.h
    BY <1>10
<1>11. ASSUME NEW s \in Spots', NEW t \in Spots', IsPhysics(At(s)'), IsPhysics(At(t)')
       PROVE  /\ s[1] = t[1]
              /\ At(s)'.kind = At(t)'.kind => s = t
              /\ At(s)'.w = At(t)'.w /\ At(s)'.h = At(t)'.h
    <2>1. CASE s \in Spots /\ t \in Spots
        BY <1>6, <1>11, <2>1 DEF PhysicsIntact
    <2>2. CASE s = new /\ t = new
        BY <2>2
    <2>3. CASE s \in Spots /\ t = new
        <3>1. At(s)' = At(s) /\ At(t)' = layer /\ t[1] = g
            BY <1>5, <1>6, <1>8, <2>3
        <3>2. IsPhysics(At(s)) /\ IsPhysics(layer)
            BY <1>11, <3>1
        <3> QED
            BY <1>10, <2>3, <3>1, <3>2
    <2>4. CASE s = new /\ t \in Spots
        <3>1. At(t)' = At(t) /\ At(s)' = layer /\ s[1] = g
            BY <1>5, <1>6, <1>8, <2>4
        <3>2. IsPhysics(At(t)) /\ IsPhysics(layer)
            BY <1>11, <3>1
        <3> QED
            BY <1>10, <2>4, <3>1, <3>2
    <2> QED
        BY <1>7, <2>1, <2>2, <2>3, <2>4
<1> QED
    BY <1>9, <1>11 DEF PhysicsIntact, IsPhysics

LEMMA IntactPut ==
    ASSUME SoundMap, PhysicsIntact, NEW g
    PROVE  /\ \A kind \in PhysicsKinds : PutPhysics(g, kind) => PhysicsIntact'
           /\ \A i, e : PutTiles(g, i, e) => PhysicsIntact'
           /\ \A i : PutQuads(g, i) => PhysicsIntact'
<1>1. ASSUME NEW kind \in PhysicsKinds, PutPhysics(g, kind) PROVE PhysicsIntact'
    <2> DEFINE layer == PhysicsLayer(kind, GameLayer.w, GameLayer.h)
    <2>1. /\ HasGameLayer /\ NewLayer(g, layer) /\ g \in DOMAIN groups
          /\ IsPhysicsGroup(groups[g])
          /\ \A l \in DOMAIN groups[g] : groups[g][l].kind # kind
        BY <1>1 DEF PutPhysics, NewLayer
    <2>2. PICK l \in DOMAIN groups[g] : groups[g][l].kind = "game"
        BY <2>1 DEF IsPhysicsGroup
    <2>3. <<g, l>> \in Spots /\ IsPhysics(At(<<g, l>>))
        BY <2>1, <2>2, InSpots DEF IsPhysics
    <2>4. PICK s \in Spots : At(s).kind = "game" /\ GameLayer = At(s)
        BY <2>1, TheGameLayer
    <2>5. IsPhysics(At(s))
        BY <2>4 DEF IsPhysics
    <2>6. layer.kind = kind /\ layer.w = GameLayer.w /\ layer.h = GameLayer.h
        BY DEF PhysicsLayer
    <2> HIDE DEF layer
    <2>7. ASSUME NEW t \in Spots, IsPhysics(At(t))
          PROVE  t[1] = g /\ At(t).kind # layer.kind /\ At(t).w = layer.w /\ At(t).h = layer.h
        <3>1. t[1] = g
            BY <2>3, <2>7 DEF PhysicsIntact
        <3>2. t[2] \in DOMAIN groups[g] /\ At(t) = groups[g][t[2]]
            BY <3>1, SpotsAre DEF At
        <3>3. At(t).w = At(s).w /\ At(t).h = At(s).h
            BY <2>5, <2>7 DEF PhysicsIntact
        <3> QED
            BY <2>1, <2>4, <2>6, <3>1, <3>2, <3>3
    <2> QED
        BY <2>1, <2>7, IntactAdded
<1>2. ASSUME NEW i, NEW e, PutTiles(g, i, e) PROVE PhysicsIntact'
    <2> DEFINE layer == TilesLayer(GameLayer.w, GameLayer.h, i, e)
    <2>1. NewLayer(g, layer) /\ layer.kind = "tiles"
        BY <1>2 DEF PutTiles, TilesLayer
    <2> HIDE DEF layer
    <2>2. ~ IsPhysics(layer)
        BY <2>1, Kinds DEF IsPhysics
    <2> QED
        BY <2>1, <2>2, IntactAdded
<1>3. ASSUME NEW i, PutQuads(g, i) PROVE PhysicsIntact'
    <2> DEFINE layer == QuadsLayer(i, <<>>)
    <2>1. NewLayer(g, layer) /\ layer.kind = "quads"
        BY <1>3 DEF PutQuads, QuadsLayer
    <2> HIDE DEF layer
    <2>2. ~ IsPhysics(layer)
        BY <2>1, Kinds DEF IsPhysics
    <2> QED
        BY <2>1, <2>2, IntactAdded
<1> QED
    BY <1>1, <1>2, <1>3

(* All physics layers get one size. *)
LEMMA ReshapedAlike ==
    ASSUME PhysicsIntact, Spots' = Spots, NEW w, NEW h,
           \A s \in Spots :
               IF IsPhysics(At(s)) THEN At(s)'.kind = At(s).kind /\ At(s)'.w = w /\ At(s)'.h = h
                                   ELSE ~ IsPhysics(At(s)')
    PROVE  PhysicsIntact'
<1>1. HasGameLayer'
    BY DEF HasGameLayer, PhysicsIntact, IsPhysics
<1>2. ASSUME NEW s \in Spots', NEW t \in Spots', IsPhysics(At(s)'), IsPhysics(At(t)')
      PROVE  /\ s[1] = t[1]
             /\ At(s)'.kind = At(t)'.kind => s = t
             /\ At(s)'.w = At(t)'.w /\ At(s)'.h = At(t)'.h
    <2>1. IsPhysics(At(s)) /\ IsPhysics(At(t))
        BY <1>2
    <2>2. s[1] = t[1] /\ (At(s).kind = At(t).kind => s = t)
        BY <2>1 DEF PhysicsIntact
    <2> QED
        BY <2>1, <2>2
<1> QED
    BY <1>1, <1>2 DEF PhysicsIntact, IsPhysics

LEMMA IntactResize ==
    ASSUME WholeResizes, SoundMap, PhysicsIntact, NEW s, NEW size \in Resizes, EditPhysics(s, size)
    PROVE  PhysicsIntact'
<1> DEFINE group == groups[s[1]]
           fits == Fits(size[1]) /\ Fits(size[2])
           reached == {l \in DOMAIN group :
                         fits \/ \A k \in 1 .. (l - 1) : ~ IsPhysics(group[k])}
           row == [l \in DOMAIN group |-> IF IsPhysics(group[l]) /\ l \in reached
                                          THEN Reshaped(group[l], size) ELSE group[l]]
<1>0. PICK w, h : /\ w = (IF fits THEN Resized(size[1], At(s).w) ELSE At(s).w)
                  /\ h = (IF fits THEN Resized(size[2], At(s).h) ELSE At(s).h)
    OBVIOUS
<1>1. s \in Spots /\ IsPhysics(At(s)) /\ groups' = [groups EXCEPT ![s[1]] = row]
    BY DEF EditPhysics
<1>2. s[1] \in DOMAIN groups /\ DOMAIN row = DOMAIN group
    BY <1>1, SpotsAre
<1>3. /\ DOMAIN groups' = DOMAIN groups
      /\ \A g \in DOMAIN groups : groups'[g] = IF g = s[1] THEN row ELSE groups[g]
    BY <1>1, <1>2
<1>4. Spots' = Spots
    BY <1>2, <1>3, SamePlaces
<1>5. size \in Nat \X Nat
    BY ResizeAssumption
<1>6. ASSUME NEW t \in Spots
      PROVE  IF IsPhysics(At(t)) THEN At(t)'.kind = At(t).kind /\ At(t)'.w = w /\ At(t)'.h = h
                                 ELSE ~ IsPhysics(At(t)')
    <2>1. t[1] \in DOMAIN groups /\ t[2] \in DOMAIN groups[t[1]] /\ At(t) = groups[t[1]][t[2]]
          /\ At(t)' = groups'[t[1]][t[2]]
        BY SpotsAre DEF At
    <2>2. CASE IsPhysics(At(t))
        <3>1. t[1] = s[1] /\ At(t).w = At(s).w /\ At(t).h = At(s).h
            BY <1>1, <2>2 DEF PhysicsIntact
        <3>2. At(t)' = row[t[2]]
            BY <1>3, <2>1, <3>1
        <3>3. At(t)' = IF t[2] \in reached THEN Reshaped(At(t), size) ELSE At(t)
            BY <2>1, <2>2, <3>1, <3>2
        <3>4. fits => t[2] \in reached
            BY <2>1, <3>1
        <3> HIDE DEF reached, fits
        <3>5. At(t) \in Physical
            BY <2>2, SpotIn, SoundKinds
        <3>6. /\ Reshaped(At(t), size).kind = At(t).kind
              /\ Reshaped(At(t), size).w =
                    IF Fits(size[1]) THEN Resized(size[1], At(t).w) ELSE At(t).w
              /\ Reshaped(At(t), size).h =
                    IF Fits(size[1]) /\ Fits(size[2]) THEN Resized(size[2], At(t).h) ELSE At(t).h
            BY <1>5, <3>5, ReshapedTypes
        <3>7. CASE fits
            <4>1. At(t)' = Reshaped(At(t), size)
                BY <3>3, <3>4, <3>7
            <4> QED
                BY <1>0, <2>2, <3>1, <3>6, <3>7, <4>1 DEF fits
        <3>8. CASE ~ fits
            <4>1. Fits(size[1]) => Resized(size[1], At(t).w) = At(t).w
                BY <3>8 DEF fits, WholeResizes, Resized
            <4>2. Reshaped(At(t), size).w = At(t).w /\ Reshaped(At(t), size).h = At(t).h
                BY <3>6, <3>8, <4>1 DEF fits
            <4> QED
                BY <1>0, <2>2, <3>1, <3>3, <3>6, <3>8, <4>2
        <3> QED
            BY <3>7, <3>8
    <2>3. CASE ~ IsPhysics(At(t))
        <3>1. At(t)' = At(t)
            BY <1>3, <2>1, <2>3
        <3> QED
            BY <2>3, <3>1
    <2> QED
        BY <2>2, <2>3
<1> QED
    BY <1>4, <1>6, ReshapedAlike

(* Each physics layer of a group was in the group, and the game layer still is. *)
DescendsBy(new, old, from) ==
    /\ \A l \in DOMAIN new : IsPhysics(new[l]) => from[l] \in DOMAIN old /\ new[l] = old[from[l]]
    /\ \A l, k \in DOMAIN new :
          IsPhysics(new[l]) /\ IsPhysics(new[k]) /\ from[l] = from[k] => l = k
    /\ \A l \in DOMAIN old : old[l].kind = "game" => \E k \in DOMAIN new : new[k] = old[l]

LEMMA RowsDescend ==
    ASSUME SoundMap, PhysicsIntact, DOMAIN groups' = DOMAIN groups,
           \A g \in DOMAIN groups : \E f : DescendsBy(groups'[g], groups[g], f)
    PROVE  PhysicsIntact'
<1> DEFINE p == [g \in DOMAIN groups |-> CHOOSE f : DescendsBy(groups'[g], groups[g], f)]
           from == [s \in Spots' |-> <<s[1], p[s[1]][s[2]]>>]
<1>1. \A g \in DOMAIN groups : DescendsBy(groups'[g], groups[g], p[g])
    BY Zenon
<1> HIDE DEF p
<1>2. ASSUME NEW s \in Spots', IsPhysics(At(s)')
      PROVE  from[s] \in Spots /\ At(from[s]) = At(s)'
    <2>1. /\ s[1] \in DOMAIN groups /\ s[2] \in DOMAIN groups'[s[1]]
          /\ At(s)' = groups'[s[1]][s[2]]
        BY SpotOfNext
    <2>2. /\ p[s[1]][s[2]] \in DOMAIN groups[s[1]]
          /\ groups'[s[1]][s[2]] = groups[s[1]][p[s[1]][s[2]]]
        BY <1>1, <1>2, <2>1 DEF DescendsBy
    <2>3. /\ <<s[1], p[s[1]][s[2]]>> \in Spots
          /\ At(<<s[1], p[s[1]][s[2]]>>) = groups[s[1]][p[s[1]][s[2]]]
        BY <2>1, <2>2, InSpots
    <2> QED
        BY <2>1, <2>2, <2>3
<1>3. ASSUME NEW s \in Spots', NEW t \in Spots', IsPhysics(At(s)'), IsPhysics(At(t)')
      PROVE  /\ from[s][1] = from[t][1] => s[1] = t[1]
             /\ from[s] = from[t] => s = t
    <2>1. /\ s[1] \in DOMAIN groups /\ s[2] \in DOMAIN groups'[s[1]] /\ s = <<s[1], s[2]>>
          /\ At(s)' = groups'[s[1]][s[2]]
        BY SpotOfNext
    <2>2. /\ t[1] \in DOMAIN groups /\ t[2] \in DOMAIN groups'[t[1]] /\ t = <<t[1], t[2]>>
          /\ At(t)' = groups'[t[1]][t[2]]
        BY SpotOfNext
    <2>3. from[s] = <<s[1], p[s[1]][s[2]]>> /\ from[t] = <<t[1], p[t[1]][t[2]]>>
        OBVIOUS
    <2>4. s[1] = t[1] /\ p[s[1]][s[2]] = p[t[1]][t[2]] => s[2] = t[2]
        BY <1>1, <1>3, <2>1, <2>2 DEF DescendsBy
    <2> QED
        BY <2>1, <2>2, <2>3, <2>4
<1>4. \E s \in Spots' : At(s)'.kind = "game"
    <2>1. PICK s \in Spots : At(s).kind = "game"
        BY DEF PhysicsIntact, HasGameLayer
    <2>2. s[1] \in DOMAIN groups /\ s[2] \in DOMAIN groups[s[1]] /\ At(s) = groups[s[1]][s[2]]
        BY SpotsAre DEF At
    <2>3. PICK k \in DOMAIN groups'[s[1]] : groups'[s[1]][k] = groups[s[1]][s[2]]
        BY <1>1, <2>1, <2>2 DEF DescendsBy
    <2>4. <<s[1], k>> \in Spots' /\ At(<<s[1], k>>)' = groups'[s[1]][k]
        BY <2>2, <2>3, InSpotsNext
    <2> QED
        BY <2>1, <2>2, <2>3, <2>4
<1> HIDE DEF from
<1> QED
    BY <1>2, <1>3, <1>4, Descent

LEMMA RowKept ==
    ASSUME NEW row
    PROVE  \E f : DescendsBy(row, row, f)
<1> DEFINE f == [l \in DOMAIN row |-> l]
<1>1. \A l \in DOMAIN row : f[l] = l
    OBVIOUS
<1> HIDE DEF f
<1>2. DescendsBy(row, row, f)
    BY <1>1 DEF DescendsBy
<1> QED
    BY <1>2

LEMMA RowShortened ==
    ASSUME NEW row \in Seq(Sound), NEW i \in 1 .. Len(row), row[i].kind # "game"
    PROVE  \E f : DescendsBy(RemoveAt(row, i), row, f)
<1> DEFINE new == RemoveAt(row, i)
           f == [l \in 1 .. Len(row) - 1 |-> IF l < i THEN l ELSE l + 1]
<1>0. Len(row) \in Nat /\ DOMAIN row = 1 .. Len(row)
    BY Listed
<1>1. /\ new \in Seq(Sound) /\ Len(new) = Len(row) - 1
      /\ \A l \in 1 .. Len(row) - 1 : new[l] = IF l < i THEN row[l] ELSE row[l + 1]
    BY RemovedFrom
<1> HIDE DEF new
<1>2. DOMAIN new = 1 .. Len(row) - 1
    BY <1>1, Listed
<1>3. \A l \in DOMAIN new : f[l] \in DOMAIN row /\ new[l] = row[f[l]]
    BY <1>0, <1>1, <1>2
<1>4. \A l, k \in DOMAIN new : f[l] = f[k] => l = k
    BY <1>0, <1>2
<1>5. ASSUME NEW l \in DOMAIN row, row[l].kind = "game"
      PROVE  \E k \in DOMAIN new : new[k] = row[l]
    <2> DEFINE k == IF l < i THEN l ELSE l - 1
    <2>1. l # i
        BY <1>5
    <2>2. k \in DOMAIN new /\ f[k] = l
        BY <1>0, <1>2, <2>1
    <2> QED
        BY <1>3, <2>2
<1> HIDE DEF f
<1>6. DescendsBy(new, row, f)
    BY <1>3, <1>4, <1>5 DEF DescendsBy
<1> QED
    BY <1>6 DEF new

LEMMA RowLengthened ==
    ASSUME NEW row \in Seq(Sound), NEW i \in 1 .. Len(row) + 1, NEW e \in Sound, ~ IsPhysics(e)
    PROVE  \E f : DescendsBy(InsertAt(row, i, e), row, f)
<1> DEFINE new == InsertAt(row, i, e)
           f == [l \in 1 .. Len(row) + 1 |-> IF l < i THEN l ELSE l - 1]
<1>0. Len(row) \in Nat /\ DOMAIN row = 1 .. Len(row) /\ i \in Int
    BY Listed
<1>1. /\ new \in Seq(Sound) /\ Len(new) = Len(row) + 1
      /\ \A l \in 1 .. Len(row) + 1 :
            new[l] = IF l < i THEN row[l] ELSE IF l = i THEN e ELSE row[l - 1]
    <2>1. new \in Seq(Sound)
        BY <1>0, InsertedInto
    <2>2. Len(new) = Len(row) + 1
        BY <1>0, InsertedInto
    <2>3. ASSUME NEW l \in 1 .. Len(row) + 1
          PROVE  new[l] = IF l < i THEN row[l] ELSE IF l = i THEN e ELSE row[l - 1]
        BY <1>0, InsertedInto
    <2> QED
        BY <2>1, <2>2, <2>3
<1> HIDE DEF new
<1>2. DOMAIN new = 1 .. Len(row) + 1
    BY <1>1, Listed
<1>3. \A l \in DOMAIN new : l # i => f[l] \in DOMAIN row /\ new[l] = row[f[l]]
    BY <1>0, <1>1, <1>2
<1>4. new[i] = e
    BY <1>0, <1>1
<1>5. \A l, k \in DOMAIN new : l # i /\ k # i /\ f[l] = f[k] => l = k
    BY <1>0, <1>2
<1>6. ASSUME NEW l \in DOMAIN row PROVE \E k \in DOMAIN new : new[k] = row[l]
    <2> DEFINE k == IF l < i THEN l ELSE l + 1
    <2>1. k \in DOMAIN new /\ k # i /\ f[k] = l
        BY <1>0, <1>2
    <2> QED
        BY <1>3, <2>1
<1> HIDE DEF f
<1>7. DescendsBy(new, row, f)
    BY <1>3, <1>4, <1>5, <1>6 DEF DescendsBy
<1> QED
    BY <1>7 DEF new

LEMMA RowReordered ==
    ASSUME NEW row \in Seq(Sound), NEW src \in 1 .. Len(row), NEW tgt \in 1 .. Len(row)
    PROVE  \E f : DescendsBy(Moved(row, src, tgt), row, f)
<1> DEFINE new == Moved(row, src, tgt)
           f == [l \in 1 .. Len(row) |-> Origin(src, tgt, l)]
<1>0. Len(row) \in Nat /\ DOMAIN row = 1 .. Len(row)
    BY Listed
<1>1. /\ new \in Seq(Sound) /\ Len(new) = Len(row)
      /\ \A l \in 1 .. Len(row) : new[l] = row[Origin(src, tgt, l)]
    BY MovedWithin
<1> HIDE DEF new
<1>2. DOMAIN new = 1 .. Len(row)
    BY <1>1, Listed
<1>3. /\ \A l \in 1 .. Len(row) : Origin(src, tgt, l) \in 1 .. Len(row)
      /\ \A l, k \in 1 .. Len(row) : Origin(src, tgt, l) = Origin(src, tgt, k) => l = k
      /\ \A l \in 1 .. Len(row) :
            Target(src, tgt, l) \in 1 .. Len(row) /\ Origin(src, tgt, Target(src, tgt, l)) = l
    <2>1. Len(row) \in Nat /\ src \in 1 .. Len(row) /\ tgt \in 1 .. Len(row)
        BY <1>0
    <2> QED
        BY <2>1, OriginOnce
<1>4. \A l \in 1 .. Len(row) : f[l] = Origin(src, tgt, l)
    OBVIOUS
<1> HIDE DEF f
<1>5. ASSUME NEW l \in DOMAIN new PROVE f[l] \in DOMAIN row /\ new[l] = row[f[l]]
    <2>1. Origin(src, tgt, l) \in 1 .. Len(row) /\ new[l] = row[Origin(src, tgt, l)]
        BY <1>1, <1>2, <1>3
    <2> QED
        BY <1>0, <1>2, <1>4, <2>1
<1>6. ASSUME NEW l \in DOMAIN new, NEW k \in DOMAIN new, f[l] = f[k] PROVE l = k
    <2>1. Origin(src, tgt, l) = Origin(src, tgt, k)
        BY <1>2, <1>4, <1>6
    <2> QED
        BY <1>2, <1>3, <2>1
<1>7. ASSUME NEW l \in DOMAIN row PROVE \E k \in DOMAIN new : new[k] = row[l]
    <2>1. Target(src, tgt, l) \in 1 .. Len(row) /\ Origin(src, tgt, Target(src, tgt, l)) = l
        BY <1>0, <1>3
    <2>2. new[Target(src, tgt, l)] = row[l]
        BY <1>1, <2>1
    <2> QED
        BY <1>2, <2>1, <2>2
<1>8. DescendsBy(new, row, f)
    BY <1>5, <1>6, <1>7 DEF DescendsBy
<1> QED
    BY <1>8 DEF new

LEMMA IntactDelete ==
    ASSUME SoundMap, PhysicsIntact, NEW s, DeleteLayer(s)
    PROVE  PhysicsIntact'
<1>1. /\ s \in Spots /\ At(s).kind # "game"
      /\ groups' = [groups EXCEPT ![s[1]] = RemoveAt(groups[s[1]], s[2])]
    BY DEF DeleteLayer
<1>2. /\ s[1] \in DOMAIN groups /\ groups[s[1]] \in Seq(Sound)
      /\ s[2] \in 1 .. Len(groups[s[1]]) /\ groups[s[1]][s[2]].kind # "game"
    BY <1>1, SpotIn, SpotsAre DEF At
<1>3. /\ DOMAIN groups' = DOMAIN groups
      /\ \A g \in DOMAIN groups :
            groups'[g] = IF g = s[1] THEN RemoveAt(groups[s[1]], s[2]) ELSE groups[g]
    BY <1>1, <1>2
<1>4. ASSUME NEW g \in DOMAIN groups PROVE \E f : DescendsBy(groups'[g], groups[g], f)
    <2>1. CASE g = s[1]
        <3>1. groups'[g] = RemoveAt(groups[g], s[2])
            BY <1>3, <2>1
        <3>2. \E f : DescendsBy(RemoveAt(groups[g], s[2]), groups[g], f)
            BY <1>2, <2>1, RowShortened
        <3> QED
            BY <3>1, <3>2
    <2>2. CASE g # s[1]
        <3>1. groups'[g] = groups[g]
            BY <1>3, <2>2
        <3>2. \E f : DescendsBy(groups[g], groups[g], f)
            BY RowKept
        <3> QED
            BY <3>1, <3>2
    <2> QED
        BY <2>1, <2>2
<1> QED
    BY <1>3, <1>4, RowsDescend

LEMMA IntactMove ==
    ASSUME SoundMap, PhysicsIntact, NEW src, NEW tgt, MoveLayer(src, tgt)
    PROVE  PhysicsIntact'
<1> DEFINE a == src[1]
           b == tgt[1]
           rest == RemoveAt(groups[a], src[2])
           taken == [groups EXCEPT ![a] = rest]
           row == InsertAt(taken[b], tgt[2], At(src))
<1>1. /\ src \in Spots /\ b \in DOMAIN groups
      /\ IsPhysics(At(src)) => a = b
      /\ tgt[2] \in 1 .. (Len(groups[b]) + (IF b = a THEN 0 ELSE 1))
      /\ groups' = [taken EXCEPT ![b] = row]
    BY DEF MoveLayer
<1>2. /\ a \in DOMAIN groups /\ groups[a] \in Seq(Sound)
      /\ src[2] \in 1 .. Len(groups[a]) /\ At(src) = groups[a][src[2]] /\ At(src) \in Sound
    BY <1>1, SpotIn, SpotsAre DEF At
<1>3. groups[b] \in Seq(Sound) /\ Len(groups[b]) \in Nat
    BY <1>1, Listed DEF SoundMap
<1> HIDE DEF rest
<1>4. /\ DOMAIN taken = DOMAIN groups
      /\ \A g \in DOMAIN groups : taken[g] = IF g = a THEN rest ELSE groups[g]
    BY <1>2
<1> HIDE DEF taken
<1>5. /\ DOMAIN groups' = DOMAIN groups
      /\ \A g \in DOMAIN groups : groups'[g] = IF g = b THEN row ELSE taken[g]
    BY <1>1, <1>4
<1>6. ASSUME NEW g \in DOMAIN groups PROVE \E f : DescendsBy(groups'[g], groups[g], f)
    <2>1. CASE g = b /\ a = b
        <3>1. tgt[2] \in 1 .. Len(groups[g]) /\ src[2] \in 1 .. Len(groups[g])
            BY <1>1, <1>2, <1>3, <2>1
        <3>2. Len(groups[g]) \in Nat
            BY <1>3, <2>1
        <3>3. groups'[g] = InsertAt(RemoveAt(groups[g], src[2]), tgt[2], groups[g][src[2]])
            BY <1>2, <1>4, <1>5, <2>1 DEF rest
        <3>4. groups'[g] = Moved(groups[g], src[2], tgt[2])
            BY <3>1, <3>2, <3>3 DEF Moved
        <3>5. \E f : DescendsBy(Moved(groups[g], src[2], tgt[2]), groups[g], f)
            BY <1>3, <2>1, <3>1, RowReordered
        <3> QED
            BY <3>4, <3>5
    <2>2. CASE g = b /\ a # b
        <3>1. groups'[g] = InsertAt(groups[g], tgt[2], At(src))
            BY <1>4, <1>5, <2>2
        <3>2. tgt[2] \in 1 .. Len(groups[g]) + 1 /\ ~ IsPhysics(At(src)) /\ groups[g] \in Seq(Sound)
            BY <1>1, <1>3, <2>2
        <3>3. \E f : DescendsBy(InsertAt(groups[g], tgt[2], At(src)), groups[g], f)
            BY <1>2, <3>2, RowLengthened
        <3> QED
            BY <3>1, <3>3
    <2>3. CASE g # b /\ g = a
        <3>1. groups'[g] = RemoveAt(groups[g], src[2])
            BY <1>4, <1>5, <2>3 DEF rest
        <3>2. At(src).kind # "game"
            BY <1>1, <2>3 DEF IsPhysics
        <3>3. \E f : DescendsBy(RemoveAt(groups[g], src[2]), groups[g], f)
            BY <1>2, <2>3, <3>2, RowShortened
        <3> QED
            BY <3>1, <3>3
    <2>4. CASE g # b /\ g # a
        <3>1. groups'[g] = groups[g]
            BY <1>4, <1>5, <2>4
        <3>2. \E f : DescendsBy(groups[g], groups[g], f)
            BY RowKept
        <3> QED
            BY <3>1, <3>2
    <2> QED
        BY <2>1, <2>2, <2>3, <2>4
<1> QED
    BY <1>5, <1>6, RowsDescend

LEMMA IntactLayerStep ==
    ASSUME WholeResizes, SoundMap, PhysicsIntact, LayerStep
    PROVE  PhysicsIntact'
<1>1. Resizes \cup {<<0, 0>>} \subseteq Nat \X Nat
    BY ResizeAssumption
<1> QED
    BY <1>1, IntactPut, IntactResize, IntactEdits, IntactDelete, IntactMove DEF LayerStep

-----------------------------------------------------------------------------
LEMMA IntactInit == Init => PhysicsIntact
<1> SUFFICES ASSUME Init PROVE PhysicsIntact
    OBVIOUS
<1>1. groups = << << PhysicsLayer("game", Smallest, Smallest) >> >>
    BY DEF Init
<1>2. DOMAIN groups = {1} /\ DOMAIN groups[1] = {1}
    BY <1>1
<1>3. Spots = {<<1, 1>>}
    BY <1>2 DEF Spots
<1>4. At(<<1, 1>>).kind = "game"
    BY <1>1 DEF At, PhysicsLayer
<1> QED
    BY <1>3, <1>4 DEF PhysicsIntact, HasGameLayer

LEMMA IntactNext ==
    ForwardMoves /\ WholeResizes /\ SoundMap /\ PhysicsIntact /\ [Next]_vars => PhysicsIntact'
<1>1. UNCHANGED vars => UNCHANGED groups
    BY DEF vars
<1> QED
    BY <1>1, SameGroups, IntactReferents, IntactGroupStep, IntactLayerStep, IntactQuadStep DEF Next

(* Whatever is created, resized, moved and deleted, the map keeps one game layer,
   one group of physics layers, one layer of each kind and one size, as long as
   nothing moves behind the last and resizes are not refused half way. *)
THEOREM PhysicsStaysIntact ==
    ASSUME ForwardMoves, WholeResizes
    PROVE  Spec => []PhysicsIntact
<1>1. SoundMap /\ PhysicsIntact /\ [Next]_vars => (SoundMap /\ PhysicsIntact)'
    BY SoundNext, IntactNext
<1>2. Init => SoundMap /\ PhysicsIntact
    BY SoundInit, IntactInit
<1> QED
    BY <1>1, <1>2, PTL DEF Spec

-----------------------------------------------------------------------------
(* The client's map *)

(* The server relays a move when it has carried it out, and a quad that the
   client edits keeps its envelopes. *)
Followable == ~ EnvEdits /\ ~ MovesPastEnd

-----------------------------------------------------------------------------
(* Lists that go in step *)

Rows(A, B, C, T) ==
    {r \in Seq(A) \X Seq(B) \X Seq(C) :
        /\ Len(r[1]) = Len(r[2]) /\ Len(r[1]) = Len(r[3])
        /\ \A j \in 1 .. Len(r[1]) : <<r[1][j], r[2][j], r[3][j]>> \in T}

LEMMA InRows ==
    ASSUME NEW A, NEW B, NEW C, NEW T, NEW a, NEW b, NEW c
    PROVE  <<a, b, c>> \in Rows(A, B, C, T) <=>
             /\ a \in Seq(A) /\ b \in Seq(B) /\ c \in Seq(C)
             /\ Len(a) = Len(b) /\ Len(a) = Len(c)
             /\ \A j \in 1 .. Len(a) : <<a[j], b[j], c[j]>> \in T
BY DEF Rows

LEMMA RowsListed ==
    ASSUME NEW A, NEW B, NEW C, NEW T, NEW a, NEW b, NEW c, <<a, b, c>> \in Rows(A, B, C, T)
    PROVE  /\ Len(a) \in Nat /\ Len(b) = Len(a) /\ Len(c) = Len(a)
           /\ DOMAIN a = 1 .. Len(a) /\ DOMAIN b = 1 .. Len(a) /\ DOMAIN c = 1 .. Len(a)
           /\ \A j \in 1 .. Len(a) :
                 a[j] \in A /\ b[j] \in B /\ c[j] \in C /\ <<a[j], b[j], c[j]>> \in T
<1>1. a \in Seq(A) /\ b \in Seq(B) /\ c \in Seq(C) /\ Len(a) = Len(b) /\ Len(a) = Len(c)
      /\ \A j \in 1 .. Len(a) : <<a[j], b[j], c[j]>> \in T
    BY InRows
<1>2. Len(a) \in Nat /\ DOMAIN a = 1 .. Len(a) /\ \A j \in DOMAIN a : a[j] \in A
    BY <1>1, Listed
<1>3. DOMAIN b = 1 .. Len(b) /\ \A j \in DOMAIN b : b[j] \in B
    BY <1>1, Listed
<1>4. DOMAIN c = 1 .. Len(c) /\ \A j \in DOMAIN c : c[j] \in C
    BY <1>1, Listed
<1> QED
    BY <1>1, <1>2, <1>3, <1>4

LEMMA RowsEmpty ==
    ASSUME NEW A, NEW B, NEW C, NEW T
    PROVE  << <<>>, <<>>, <<>> >> \in Rows(A, B, C, T)
<1> DEFINE e == <<>>
<1>1. e \in Seq(A) /\ e \in Seq(B) /\ e \in Seq(C) /\ Len(e) = 0
    BY EmptySeq
<1> HIDE DEF e
<1>2. \A j \in 1 .. Len(e) : <<e[j], e[j], e[j]>> \in T
    BY <1>1
<1>3. <<e, e, e>> \in Rows(A, B, C, T)
    BY <1>1, <1>2, InRows
<1> QED
    BY <1>3 DEF e

LEMMA RowsAppend ==
    ASSUME NEW A, NEW B, NEW C, NEW T, NEW a, NEW b, NEW c, <<a, b, c>> \in Rows(A, B, C, T),
           NEW x \in A, NEW y \in B, NEW z \in C, <<x, y, z>> \in T
    PROVE  <<Append(a, x), Append(b, y), Append(c, z)>> \in Rows(A, B, C, T)
<1> DEFINE a2 == Append(a, x)
           b2 == Append(b, y)
           c2 == Append(c, z)
<1>0. a \in Seq(A) /\ b \in Seq(B) /\ c \in Seq(C) /\ Len(a) = Len(b) /\ Len(a) = Len(c)
      /\ Len(a) \in Nat /\ \A j \in 1 .. Len(a) : <<a[j], b[j], c[j]>> \in T
    BY InRows, Listed
<1>1. /\ a2 \in Seq(A) /\ Len(a2) = Len(a) + 1
      /\ \A j \in 1 .. Len(a) : a2[j] = a[j]
      /\ a2[Len(a) + 1] = x
    BY <1>0, AppendProperties
<1>2. /\ b2 \in Seq(B) /\ Len(b2) = Len(b) + 1
      /\ \A j \in 1 .. Len(b) : b2[j] = b[j]
      /\ b2[Len(b) + 1] = y
    <2>1. b \in Seq(B) /\ Len(b) \in Nat
        BY <1>0
    <2> QED
        BY <2>1, AppendProperties
<1>3. /\ c2 \in Seq(C) /\ Len(c2) = Len(c) + 1
      /\ \A j \in 1 .. Len(c) : c2[j] = c[j]
      /\ c2[Len(c) + 1] = z
    <2>1. c \in Seq(C) /\ Len(c) \in Nat
        BY <1>0
    <2> QED
        BY <2>1, AppendProperties
<1> HIDE DEF a2, b2, c2
<1>4. ASSUME NEW j \in 1 .. Len(a2) PROVE <<a2[j], b2[j], c2[j]>> \in T
    <2>1. j \in 1 .. Len(a) \/ j = Len(a) + 1
        BY <1>0, <1>1
    <2> QED
        BY <1>0, <1>1, <1>2, <1>3, <2>1
<1>5. a2 \in Seq(A) /\ b2 \in Seq(B) /\ c2 \in Seq(C) /\ Len(a2) = Len(b2) /\ Len(a2) = Len(c2)
    BY <1>0, <1>1, <1>2, <1>3
<1>6. \A j \in 1 .. Len(a2) : <<a2[j], b2[j], c2[j]>> \in T
    BY <1>4
<1>7. <<a2, b2, c2>> \in Rows(A, B, C, T)
    BY <1>5, <1>6, InRows
<1> QED
    BY <1>7 DEF a2, b2, c2

LEMMA RowsRemove ==
    ASSUME NEW A, NEW B, NEW C, NEW T, NEW a, NEW b, NEW c, <<a, b, c>> \in Rows(A, B, C, T),
           NEW i \in 1 .. Len(a)
    PROVE  <<RemoveAt(a, i), RemoveAt(b, i), RemoveAt(c, i)>> \in Rows(A, B, C, T)
<1> DEFINE a2 == RemoveAt(a, i)
           b2 == RemoveAt(b, i)
           c2 == RemoveAt(c, i)
<1>0. a \in Seq(A) /\ b \in Seq(B) /\ c \in Seq(C) /\ Len(a) = Len(b) /\ Len(a) = Len(c)
      /\ Len(a) \in Nat /\ \A j \in 1 .. Len(a) : <<a[j], b[j], c[j]>> \in T
    BY InRows, Listed
<1>1. /\ a2 \in Seq(A) /\ Len(a2) = Len(a) - 1
      /\ \A j \in 1 .. Len(a) - 1 : a2[j] = IF j < i THEN a[j] ELSE a[j + 1]
    <2>1. a \in Seq(A) /\ Len(a) \in Nat /\ i \in 1 .. Len(a)
        BY <1>0
    <2> QED
        BY <2>1, RemovedFrom
<1>2. /\ b2 \in Seq(B) /\ Len(b2) = Len(b) - 1
      /\ \A j \in 1 .. Len(b) - 1 : b2[j] = IF j < i THEN b[j] ELSE b[j + 1]
    <2>1. b \in Seq(B) /\ Len(b) \in Nat /\ i \in 1 .. Len(b)
        BY <1>0
    <2> QED
        BY <2>1, RemovedFrom
<1>3. /\ c2 \in Seq(C) /\ Len(c2) = Len(c) - 1
      /\ \A j \in 1 .. Len(c) - 1 : c2[j] = IF j < i THEN c[j] ELSE c[j + 1]
    <2>1. c \in Seq(C) /\ Len(c) \in Nat /\ i \in 1 .. Len(c)
        BY <1>0
    <2> QED
        BY <2>1, RemovedFrom
<1> HIDE DEF a2, b2, c2
<1>4. ASSUME NEW j \in 1 .. Len(a2) PROVE <<a2[j], b2[j], c2[j]>> \in T
    <2>1. j \in 1 .. Len(a) /\ j + 1 \in 1 .. Len(a) /\ j \in 1 .. Len(a) - 1
        BY <1>0, <1>1
    <2>2. CASE j < i
        BY <1>0, <1>1, <1>2, <1>3, <2>1, <2>2
    <2>3. CASE ~ (j < i)
        BY <1>0, <1>1, <1>2, <1>3, <2>1, <2>3
    <2> QED
        BY <2>2, <2>3
<1>5. a2 \in Seq(A) /\ b2 \in Seq(B) /\ c2 \in Seq(C) /\ Len(a2) = Len(b2) /\ Len(a2) = Len(c2)
    BY <1>0, <1>1, <1>2, <1>3
<1>6. \A j \in 1 .. Len(a2) : <<a2[j], b2[j], c2[j]>> \in T
    BY <1>4
<1>7. <<a2, b2, c2>> \in Rows(A, B, C, T)
    BY <1>5, <1>6, InRows
<1> QED
    BY <1>7 DEF a2, b2, c2

LEMMA RowsInsert ==
    ASSUME NEW A, NEW B, NEW C, NEW T, NEW a, NEW b, NEW c, <<a, b, c>> \in Rows(A, B, C, T),
           NEW i \in 1 .. Len(a) + 1, NEW x \in A, NEW y \in B, NEW z \in C, <<x, y, z>> \in T
    PROVE  <<InsertAt(a, i, x), InsertAt(b, i, y), InsertAt(c, i, z)>> \in Rows(A, B, C, T)
<1> DEFINE a2 == InsertAt(a, i, x)
           b2 == InsertAt(b, i, y)
           c2 == InsertAt(c, i, z)
<1>0. a \in Seq(A) /\ b \in Seq(B) /\ c \in Seq(C) /\ Len(a) = Len(b) /\ Len(a) = Len(c)
      /\ Len(a) \in Nat /\ i \in Int /\ \A j \in 1 .. Len(a) : <<a[j], b[j], c[j]>> \in T
    BY InRows, Listed
<1>1. /\ a2 \in Seq(A) /\ Len(a2) = Len(a) + 1
      /\ \A j \in 1 .. Len(a) + 1 :
            a2[j] = IF j < i THEN a[j] ELSE IF j = i THEN x ELSE a[j - 1]
    <2>1. a \in Seq(A) /\ Len(a) \in Nat /\ i \in 1 .. Len(a) + 1
        BY <1>0
    <2> QED
        BY <2>1, InsertedInto
<1>2. /\ b2 \in Seq(B) /\ Len(b2) = Len(b) + 1
      /\ \A j \in 1 .. Len(b) + 1 :
            b2[j] = IF j < i THEN b[j] ELSE IF j = i THEN y ELSE b[j - 1]
    <2>1. b \in Seq(B) /\ Len(b) \in Nat /\ i \in 1 .. Len(b) + 1
        BY <1>0
    <2> QED
        BY <2>1, InsertedInto
<1>3. /\ c2 \in Seq(C) /\ Len(c2) = Len(c) + 1
      /\ \A j \in 1 .. Len(c) + 1 :
            c2[j] = IF j < i THEN c[j] ELSE IF j = i THEN z ELSE c[j - 1]
    <2>1. c \in Seq(C) /\ Len(c) \in Nat /\ i \in 1 .. Len(c) + 1
        BY <1>0
    <2> QED
        BY <2>1, InsertedInto
<1> HIDE DEF a2, b2, c2
<1>4. ASSUME NEW j \in 1 .. Len(a2) PROVE <<a2[j], b2[j], c2[j]>> \in T
    <2>0. j \in 1 .. Len(a) + 1
        BY <1>1
    <2>1. CASE j < i
        <3>1. j \in 1 .. Len(a)
            BY <1>0, <2>0, <2>1
        <3> QED
            BY <1>0, <1>1, <1>2, <1>3, <2>0, <2>1, <3>1
    <2>2. CASE j = i
        <3>1. ~ (j < i)
            BY <1>0, <2>2
        <3>2. a2[j] = x /\ b2[j] = y /\ c2[j] = z
            BY <1>0, <1>1, <1>2, <1>3, <2>0, <2>2, <3>1
        <3> QED
            BY <3>2
    <2>3. CASE j > i
        <3>1. j - 1 \in 1 .. Len(a) /\ ~ (j < i) /\ j # i
            BY <1>0, <2>0, <2>3
        <3>2. a2[j] = a[j - 1] /\ b2[j] = b[j - 1] /\ c2[j] = c[j - 1]
            BY <1>0, <1>1, <1>2, <1>3, <2>0, <3>1
        <3> QED
            BY <1>0, <3>1, <3>2
    <2> QED
        BY <1>0, <2>0, <2>1, <2>2, <2>3
<1>5. a2 \in Seq(A) /\ b2 \in Seq(B) /\ c2 \in Seq(C) /\ Len(a2) = Len(b2) /\ Len(a2) = Len(c2)
    BY <1>0, <1>1, <1>2, <1>3
<1>6. \A j \in 1 .. Len(a2) : <<a2[j], b2[j], c2[j]>> \in T
    BY <1>4
<1>7. <<a2, b2, c2>> \in Rows(A, B, C, T)
    BY <1>5, <1>6, InRows
<1> QED
    BY <1>7 DEF a2, b2, c2

LEMMA RowsMoved ==
    ASSUME NEW A, NEW B, NEW C, NEW T, NEW a, NEW b, NEW c, <<a, b, c>> \in Rows(A, B, C, T),
           NEW src \in 1 .. Len(a), NEW tgt \in 1 .. Len(a)
    PROVE  <<Moved(a, src, tgt), Moved(b, src, tgt), Moved(c, src, tgt)>> \in Rows(A, B, C, T)
<1> DEFINE a2 == Moved(a, src, tgt)
           b2 == Moved(b, src, tgt)
           c2 == Moved(c, src, tgt)
<1>0. a \in Seq(A) /\ b \in Seq(B) /\ c \in Seq(C) /\ Len(a) = Len(b) /\ Len(a) = Len(c)
      /\ Len(a) \in Nat /\ src \in Int /\ tgt \in Int
      /\ \A j \in 1 .. Len(a) : <<a[j], b[j], c[j]>> \in T
    BY InRows, Listed
<1>1. /\ a2 \in Seq(A) /\ Len(a2) = Len(a)
      /\ \A j \in 1 .. Len(a) : a2[j] = a[Origin(src, tgt, j)]
    <2>1. a \in Seq(A) /\ Len(a) \in Nat /\ src \in 1 .. Len(a) /\ tgt \in 1 .. Len(a)
        BY <1>0
    <2> QED
        BY <2>1, MovedWithin
<1>2. /\ b2 \in Seq(B) /\ Len(b2) = Len(b)
      /\ \A j \in 1 .. Len(b) : b2[j] = b[Origin(src, tgt, j)]
    <2>1. b \in Seq(B) /\ Len(b) \in Nat /\ src \in 1 .. Len(b) /\ tgt \in 1 .. Len(b)
        BY <1>0
    <2> QED
        BY <2>1, MovedWithin
<1>3. /\ c2 \in Seq(C) /\ Len(c2) = Len(c)
      /\ \A j \in 1 .. Len(c) : c2[j] = c[Origin(src, tgt, j)]
    <2>1. c \in Seq(C) /\ Len(c) \in Nat /\ src \in 1 .. Len(c) /\ tgt \in 1 .. Len(c)
        BY <1>0
    <2> QED
        BY <2>1, MovedWithin
<1> HIDE DEF a2, b2, c2
<1>4. ASSUME NEW j \in 1 .. Len(a2) PROVE <<a2[j], b2[j], c2[j]>> \in T
    <2>1. Origin(src, tgt, j) \in 1 .. Len(a)
        BY <1>0, <1>1 DEF Origin
    <2> QED
        BY <1>0, <1>1, <1>2, <1>3, <2>1
<1>5. a2 \in Seq(A) /\ b2 \in Seq(B) /\ c2 \in Seq(C) /\ Len(a2) = Len(b2) /\ Len(a2) = Len(c2)
    BY <1>0, <1>1, <1>2, <1>3
<1>6. \A j \in 1 .. Len(a2) : <<a2[j], b2[j], c2[j]>> \in T
    BY <1>4
<1>7. <<a2, b2, c2>> \in Rows(A, B, C, T)
    BY <1>5, <1>6, InRows
<1> QED
    BY <1>7 DEF a2, b2, c2

LEMMA RowsReplaced ==
    ASSUME NEW A, NEW B, NEW C, NEW T, NEW a, NEW b, NEW c, <<a, b, c>> \in Rows(A, B, C, T),
           NEW i \in 1 .. Len(a), NEW x \in A, NEW y \in B, NEW z \in C, <<x, y, z>> \in T
    PROVE  <<[a EXCEPT ![i] = x], [b EXCEPT ![i] = y], [c EXCEPT ![i] = z]>> \in Rows(A, B, C, T)
<1> DEFINE a2 == [a EXCEPT ![i] = x]
           b2 == [b EXCEPT ![i] = y]
           c2 == [c EXCEPT ![i] = z]
<1>0. a \in Seq(A) /\ b \in Seq(B) /\ c \in Seq(C) /\ Len(a) = Len(b) /\ Len(a) = Len(c)
      /\ Len(a) \in Nat /\ \A j \in 1 .. Len(a) : <<a[j], b[j], c[j]>> \in T
    BY InRows, Listed
<1>1. /\ a2 \in Seq(A) /\ Len(a2) = Len(a)
      /\ \A j \in 1 .. Len(a) : a2[j] = IF j = i THEN x ELSE a[j]
    BY <1>0, ExceptSeq
<1>2. /\ b2 \in Seq(B) /\ Len(b2) = Len(b)
      /\ \A j \in 1 .. Len(b) : b2[j] = IF j = i THEN y ELSE b[j]
    <2>1. b \in Seq(B) /\ Len(b) \in Nat /\ i \in 1 .. Len(b)
        BY <1>0
    <2> QED
        BY <2>1, ExceptSeq
<1>3. /\ c2 \in Seq(C) /\ Len(c2) = Len(c)
      /\ \A j \in 1 .. Len(c) : c2[j] = IF j = i THEN z ELSE c[j]
    <2>1. c \in Seq(C) /\ Len(c) \in Nat /\ i \in 1 .. Len(c)
        BY <1>0
    <2> QED
        BY <2>1, ExceptSeq
<1> HIDE DEF a2, b2, c2
<1>4. ASSUME NEW j \in 1 .. Len(a2) PROVE <<a2[j], b2[j], c2[j]>> \in T
    BY <1>0, <1>1, <1>2, <1>3
<1>5. a2 \in Seq(A) /\ b2 \in Seq(B) /\ c2 \in Seq(C) /\ Len(a2) = Len(b2) /\ Len(a2) = Len(c2)
    BY <1>0, <1>1, <1>2, <1>3
<1>6. \A j \in 1 .. Len(a2) : <<a2[j], b2[j], c2[j]>> \in T
    BY <1>4
<1>7. <<a2, b2, c2>> \in Rows(A, B, C, T)
    BY <1>5, <1>6, InRows
<1> QED
    BY <1>7 DEF a2, b2, c2

-----------------------------------------------------------------------------
(* What belongs together *)

(* Identities: NewId's value when no number is free stands for the last. *)
Ids == (1 .. MaxLayers) \cup {CHOOSE id : FALSE}

ClientPhysical == [id : Ids, kind : {"game"} \cup PhysicsKinds, w : Nat, h : Nat]
ClientTiles ==
    [id : Ids, kind : {"tiles"}, w : Nat, h : Nat,
     image : Images \cup {Nothing}, env : Envs \cup {Nothing}]
ClientQuad == [pos : Envs \cup {Nothing}, color : Envs \cup {Nothing}]
ClientQuads == [id : Ids, kind : {"quads"}, image : Images \cup {Nothing}, quads : Seq(ClientQuad)]
ClientLayer == ClientPhysical \cup ClientTiles \cup ClientQuads
DrawnLayer == [id : Ids, texture : Images \cup {Nothing, Blank, Own}]

Ref(list, i) == IF i = None THEN Nothing ELSE list[i]

(* The server's layer s, the client's c, which refers to the objects at the
   places s names, and what is drawn of it, in their textures. *)
Match(imgs, envs, s, c, r) ==
    /\ c.kind = s.kind /\ r.id = c.id
    /\ s.kind # "quads" => c.w = s.w /\ c.h = s.h
    /\ HasImage(s) => c.image = Ref(imgs, s.image)
    /\ s.kind = "tiles" => c.env = Ref(envs, s.env)
    /\ s.kind = "quads" =>
          /\ Len(c.quads) = Len(s.quads)
          /\ \A q \in 1 .. Len(s.quads) :
                /\ c.quads[q].pos = Ref(envs, s.quads[q].pos)
                /\ c.quads[q].color = Ref(envs, s.quads[q].color)
    /\ IsPhysics(s) => r.texture = Own
    /\ s.kind = "tiles" => r.texture = (IF s.image = None THEN Blank ELSE imgs[s.image])
    /\ s.kind = "quads" =>
          IF s.image = None THEN r.texture \in {Nothing, Blank} ELSE r.texture = imgs[s.image]

Matching(imgs, envs) ==
    {t \in Layer \X ClientLayer \X DrawnLayer : Match(imgs, envs, t[1], t[2], t[3])}
LayerRows(imgs, envs) == Rows(Layer, ClientLayer, DrawnLayer, Matching(imgs, envs))
Trees(imgs, envs) == Rows(Seq(Layer), Seq(ClientLayer), Seq(DrawnLayer), LayerRows(imgs, envs))

Follows ==
    /\ SoundMap
    /\ cimages = images /\ cenvs = envelopes /\ textures = images
    /\ IsInjective(images) /\ IsInjective(envelopes)
    /\ <<groups, cgroups, rgroups>> \in Trees(images, envelopes)

LEMMA Matches ==
    ASSUME NEW imgs, NEW envs, NEW s, NEW c, NEW r
    PROVE  <<s, c, r>> \in Matching(imgs, envs) <=>
             s \in Layer /\ c \in ClientLayer /\ r \in DrawnLayer /\ Match(imgs, envs, s, c, r)
BY DEF Matching

LEMMA NewIdIn == NewId \in Ids
<1>1. CASE \E id \in 1 .. MaxLayers : id \notin LayerIds /\ \A k \in 1 .. (id - 1) : k \in LayerIds
    BY <1>1 DEF NewId, Ids
<1>2. CASE ~ \E id \in 1 .. MaxLayers :
               id \notin LayerIds /\ \A k \in 1 .. (id - 1) : k \in LayerIds
    <2>1. NewId = CHOOSE id : FALSE
        BY <1>2 DEF NewId
    <2> QED
        BY <2>1 DEF Ids
<1> QED
    BY <1>1, <1>2

LEMMA ClientKinds ==
    ASSUME NEW c \in ClientLayer
    PROVE  /\ IsPhysics(c) <=> c \in ClientPhysical
           /\ c.kind = "tiles" <=> c \in ClientTiles
           /\ c.kind = "quads" <=> c \in ClientQuads
BY Kinds DEF ClientLayer, ClientPhysical, ClientTiles, ClientQuads, IsPhysics

LEMMA SoundIsLayer == SoundMap => Sound \subseteq Layer
<1> SUFFICES ASSUME SoundMap PROVE Sound \subseteq Layer
    OBVIOUS
<1>1. SoundQuad \subseteq Quad
    BY RefsAreNat DEF SoundQuad, Quad
<1>2. \A qs \in Seq(SoundQuad) : qs \in Seq(Quad)
    BY <1>1, SeqMonotonic
<1>3. TileImageRefs \subseteq Nat /\ ImageRefs \subseteq Nat /\ ColorRefs \subseteq Nat
    BY RefsAreNat
<1> QED
    BY <1>2, <1>3 DEF Sound, Physical, SoundTiles, SoundQuads, Layer

(* One row of three trees that go in step, and one layer of three rows. *)
LEMMA TreeRow ==
    ASSUME NEW imgs, NEW envs, NEW a, NEW b, NEW c, <<a, b, c>> \in Trees(imgs, envs)
    PROVE  /\ Len(a) \in Nat /\ Len(b) = Len(a) /\ Len(c) = Len(a)
           /\ DOMAIN a = 1 .. Len(a) /\ DOMAIN b = 1 .. Len(a) /\ DOMAIN c = 1 .. Len(a)
           /\ \A g \in 1 .. Len(a) :
                 /\ a[g] \in Seq(Layer) /\ b[g] \in Seq(ClientLayer) /\ c[g] \in Seq(DrawnLayer)
                 /\ <<a[g], b[g], c[g]>> \in LayerRows(imgs, envs)
BY RowsListed DEF Trees

LEMMA RowLayer ==
    ASSUME NEW imgs, NEW envs, NEW a, NEW b, NEW c, <<a, b, c>> \in LayerRows(imgs, envs)
    PROVE  /\ Len(a) \in Nat /\ Len(b) = Len(a) /\ Len(c) = Len(a)
           /\ DOMAIN a = 1 .. Len(a) /\ DOMAIN b = 1 .. Len(a) /\ DOMAIN c = 1 .. Len(a)
           /\ \A l \in 1 .. Len(a) :
                 /\ a[l] \in Layer /\ b[l] \in ClientLayer /\ c[l] \in DrawnLayer
                 /\ Match(imgs, envs, a[l], b[l], c[l])
<1>1. /\ Len(a) \in Nat /\ Len(b) = Len(a) /\ Len(c) = Len(a)
      /\ DOMAIN a = 1 .. Len(a) /\ DOMAIN b = 1 .. Len(a) /\ DOMAIN c = 1 .. Len(a)
      /\ \A l \in 1 .. Len(a) : <<a[l], b[l], c[l]>> \in Matching(imgs, envs)
    BY RowsListed DEF LayerRows
<1> QED
    BY <1>1, Matches

LEMMA InTrees ==
    ASSUME NEW imgs, NEW envs, NEW a \in Seq(Seq(Layer)), NEW b \in Seq(Seq(ClientLayer)),
           NEW c \in Seq(Seq(DrawnLayer)), Len(b) = Len(a), Len(c) = Len(a),
           \A g \in 1 .. Len(a) : <<a[g], b[g], c[g]>> \in LayerRows(imgs, envs)
    PROVE  <<a, b, c>> \in Trees(imgs, envs)
<1> DEFINE A == Seq(Layer)
           B == Seq(ClientLayer)
           C == Seq(DrawnLayer)
           T == LayerRows(imgs, envs)
<1>1. /\ a \in Seq(A) /\ b \in Seq(B) /\ c \in Seq(C) /\ Len(a) = Len(b) /\ Len(a) = Len(c)
      /\ \A g \in 1 .. Len(a) : <<a[g], b[g], c[g]>> \in T
    OBVIOUS
<1>2. Trees(imgs, envs) = Rows(A, B, C, T)
    BY DEF Trees
<1> HIDE DEF A, B, C, T
<1>3. <<a, b, c>> \in Rows(A, B, C, T)
    BY <1>1, InRows
<1> QED
    BY <1>2, <1>3

LEMMA RowInTrees ==
    ASSUME NEW imgs, NEW envs, NEW a, NEW b, NEW c, <<a, b, c>> \in Trees(imgs, envs),
           NEW g \in 1 .. Len(a), NEW x, NEW y, NEW z, <<x, y, z>> \in LayerRows(imgs, envs)
    PROVE  <<[a EXCEPT ![g] = x], [b EXCEPT ![g] = y], [c EXCEPT ![g] = z]>> \in Trees(imgs, envs)
<1>1. x \in Seq(Layer) /\ y \in Seq(ClientLayer) /\ z \in Seq(DrawnLayer)
    BY InRows DEF LayerRows
<1> DEFINE A == Seq(Layer)
           B == Seq(ClientLayer)
           C == Seq(DrawnLayer)
           T == LayerRows(imgs, envs)
<1>2. x \in A /\ y \in B /\ z \in C /\ <<x, y, z>> \in T /\ <<a, b, c>> \in Rows(A, B, C, T)
    BY <1>1 DEF Trees
<1>3. Trees(imgs, envs) = Rows(A, B, C, T)
    BY DEF Trees
<1> HIDE DEF A, B, C, T
<1>4. <<[a EXCEPT ![g] = x], [b EXCEPT ![g] = y], [c EXCEPT ![g] = z]>> \in Rows(A, B, C, T)
    BY <1>2, RowsReplaced
<1> QED
    BY <1>3, <1>4

LEMMA LayerInTrees ==
    ASSUME NEW imgs, NEW envs, NEW a, NEW b, NEW c, <<a, b, c>> \in Trees(imgs, envs),
           NEW g \in 1 .. Len(a), NEW l \in 1 .. Len(a[g]),
           NEW x, NEW y, NEW z, <<x, y, z>> \in Matching(imgs, envs)
    PROVE  <<[a EXCEPT ![g][l] = x], [b EXCEPT ![g][l] = y], [c EXCEPT ![g][l] = z]>>
               \in Trees(imgs, envs)
<1> DEFINE a2 == [a[g] EXCEPT ![l] = x]
           b2 == [b[g] EXCEPT ![l] = y]
           c2 == [c[g] EXCEPT ![l] = z]
<1>1. /\ [a EXCEPT ![g][l] = x] = [a EXCEPT ![g] = a2]
      /\ [b EXCEPT ![g][l] = y] = [b EXCEPT ![g] = b2]
      /\ [c EXCEPT ![g][l] = z] = [c EXCEPT ![g] = c2]
    OBVIOUS
<1>2. <<a[g], b[g], c[g]>> \in LayerRows(imgs, envs)
    BY TreeRow
<1>3. x \in Layer /\ y \in ClientLayer /\ z \in DrawnLayer
    BY Matches
<1>4. <<a2, b2, c2>> \in LayerRows(imgs, envs)
    BY <1>2, <1>3, RowsReplaced DEF LayerRows
<1> HIDE DEF a2, b2, c2
<1>5. <<[a EXCEPT ![g] = a2], [b EXCEPT ![g] = b2], [c EXCEPT ![g] = c2]>> \in Trees(imgs, envs)
    BY <1>4, RowInTrees
<1> QED
    BY <1>1, <1>5

(* The server's layers are renumbered, or not, and the client's stay. *)
LEMMA TreesRematched ==
    ASSUME NEW imgs, NEW envs, NEW a, NEW b, NEW c, <<a, b, c>> \in Trees(imgs, envs),
           NEW imgs2, NEW envs2, NEW a2 \in Seq(Seq(Layer)), Len(a2) = Len(a),
           \A g \in 1 .. Len(a) :
               /\ Len(a2[g]) = Len(a[g])
               /\ \A l \in 1 .. Len(a[g]) : Match(imgs2, envs2, a2[g][l], b[g][l], c[g][l])
    PROVE  <<a2, b, c>> \in Trees(imgs2, envs2)
<1>0. Len(a) \in Nat /\ b \in Seq(Seq(ClientLayer)) /\ c \in Seq(Seq(DrawnLayer))
      /\ Len(b) = Len(a) /\ Len(c) = Len(a)
    BY TreeRow, InRows DEF Trees
<1>1. ASSUME NEW g \in 1 .. Len(a2) PROVE <<a2[g], b[g], c[g]>> \in LayerRows(imgs2, envs2)
    <2>1. /\ b[g] \in Seq(ClientLayer) /\ c[g] \in Seq(DrawnLayer)
          /\ <<a[g], b[g], c[g]>> \in LayerRows(imgs, envs)
        BY <1>1, TreeRow
    <2>2. a2[g] \in Seq(Layer) /\ Len(a2[g]) = Len(a[g])
        BY <1>1, Listed
    <2>3. /\ Len(a[g]) \in Nat /\ Len(b[g]) = Len(a[g]) /\ Len(c[g]) = Len(a[g])
          /\ \A l \in 1 .. Len(a[g]) : b[g][l] \in ClientLayer /\ c[g][l] \in DrawnLayer
        BY <2>1, RowLayer
    <2>4. ASSUME NEW l \in 1 .. Len(a2[g])
          PROVE  <<a2[g][l], b[g][l], c[g][l]>> \in Matching(imgs2, envs2)
        <3>1. a2[g][l] \in Layer
            BY <2>2, Listed
        <3> QED
            BY <1>1, <2>2, <2>3, <3>1, Matches
    <2> QED
        BY <2>1, <2>2, <2>3, <2>4, InRows DEF LayerRows
<1> QED
    BY <1>0, <1>1, InTrees

SameRef(list, i, list2, i2) ==
    /\ i = None <=> i2 = None
    /\ i # None => list2[i2] = list[i]

LEMMA Rematched ==
    ASSUME NEW imgs, NEW envs, NEW imgs2, NEW envs2, NEW s, NEW s2, NEW c, NEW r,
           Match(imgs, envs, s, c, r), s2.kind = s.kind,
           s.kind # "quads" => s2.w = s.w /\ s2.h = s.h,
           HasImage(s) => SameRef(imgs, s.image, imgs2, s2.image),
           s.kind = "tiles" => SameRef(envs, s.env, envs2, s2.env),
           s.kind = "quads" =>
               /\ Len(s2.quads) = Len(s.quads)
               /\ \A q \in 1 .. Len(s.quads) :
                     /\ SameRef(envs, s.quads[q].pos, envs2, s2.quads[q].pos)
                     /\ SameRef(envs, s.quads[q].color, envs2, s2.quads[q].color)
    PROVE  Match(imgs2, envs2, s2, c, r)
BY Kinds DEF Match, SameRef, Ref, HasImage, IsPhysics

(* A list that grows at its end leaves every reference where it led. *)
LEMMA AppendedRef ==
    ASSUME NEW S, NEW list \in Seq(S), NEW x \in S, NEW i \in 0 .. Len(list)
    PROVE  SameRef(list, i, Append(list, x), i)
BY AppendProperties, Listed DEF SameRef, None

(* So does one that loses an element nothing refers to, once renumbered. *)
LEMMA RemovedRef ==
    ASSUME NEW S, NEW list \in Seq(S), NEW x \in 1 .. Len(list), NEW i \in 0 .. Len(list), i # x
    PROVE  SameRef(list, i, RemoveAt(list, x), AfterRemoval(x, Len(list))[i])
<1> DEFINE f == AfterRemoval(x, Len(list))
<1>1. /\ f[0] = 0
      /\ \A k \in 1 .. Len(list) :
            k # x => f[k] \in 1 .. Len(list) - 1 /\ RemoveAt(list, x)[f[k]] = list[k]
    BY RemovalFollowed
<1> HIDE DEF f
<1>2. Len(list) \in Nat
    BY Listed
<1>3. SameRef(list, i, RemoveAt(list, x), f[i])
    BY <1>1, <1>2 DEF SameRef, None
<1> QED
    BY <1>3 DEF f

(* An element the list did not have, and one it loses, leave it without
   repetitions. *)
LEMMA AppendDistinct ==
    ASSUME NEW S, NEW list \in Seq(S), IsInjective(list), NEW x \in S, x \notin Range(list)
    PROVE  IsInjective(Append(list, x))
<1>1. Len(list) \in Nat /\ DOMAIN list = 1 .. Len(list)
    BY Listed
<1>2. /\ DOMAIN Append(list, x) = 1 .. Len(list) + 1
      /\ \A j \in 1 .. Len(list) : Append(list, x)[j] = list[j]
      /\ Append(list, x)[Len(list) + 1] = x
    BY AppendProperties, <1>1
<1>3. \A j \in 1 .. Len(list) : list[j] # x
    BY <1>1 DEF Range
<1> QED
    BY <1>1, <1>2, <1>3 DEF IsInjective

LEMMA RemoveDistinct ==
    ASSUME NEW S, NEW list \in Seq(S), IsInjective(list), NEW i \in 1 .. Len(list)
    PROVE  IsInjective(RemoveAt(list, i))
<1> DEFINE rest == RemoveAt(list, i)
<1>1. Len(list) \in Nat /\ DOMAIN list = 1 .. Len(list) /\ i \in Int
    BY Listed
<1>2. /\ rest \in Seq(S) /\ Len(rest) = Len(list) - 1
      /\ \A j \in 1 .. Len(list) - 1 : rest[j] = IF j < i THEN list[j] ELSE list[j + 1]
    BY RemovedFrom
<1>3. DOMAIN rest = 1 .. Len(list) - 1
    BY <1>2, Listed
<1> HIDE DEF rest
<1>4. ASSUME NEW j \in DOMAIN rest, NEW k \in DOMAIN rest, rest[j] = rest[k] PROVE j = k
    <2> DEFINE at(n) == IF n < i THEN n ELSE n + 1
    <2>1. at(j) \in 1 .. Len(list) /\ at(k) \in 1 .. Len(list)
        BY <1>1, <1>3
    <2>2. rest[j] = list[at(j)] /\ rest[k] = list[at(k)]
        BY <1>2, <1>3
    <2>3. at(j) = at(k)
        BY <1>1, <1>4, <2>1, <2>2 DEF IsInjective
    <2> QED
        BY <1>1, <1>3, <2>3
<1>5. IsInjective(rest)
    BY <1>4 DEF IsInjective
<1> QED
    BY <1>5 DEF rest

-----------------------------------------------------------------------------
(* Images and envelopes *)

LEMMA FollowsInit == ClientInit => Follows
<1> SUFFICES ASSUME ClientInit PROVE Follows
    OBVIOUS
<1> DEFINE s == PhysicsLayer("game", Smallest, Smallest)
           c == [id |-> 1, kind |-> "game", w |-> Smallest, h |-> Smallest]
           r == [id |-> 1, texture |-> Own]
           rowS == <<s>>
           rowC == <<c>>
           rowR == <<r>>
<1>1. SoundMap /\ images = <<>> /\ envelopes = <<>>
    BY SoundInit DEF ClientInit, Init
<1>2. groups = <<rowS>> /\ cgroups = <<rowC>> /\ rgroups = <<rowR>>
    BY DEF ClientInit, Init
<1>3. s \in Layer /\ c \in ClientLayer /\ r \in DrawnLayer
    BY BoundAssumption, EditAssumption
       DEF PhysicsLayer, Layer, ClientLayer, ClientPhysical, DrawnLayer, Ids
<1>4. Match(images, envelopes, s, c, r)
    BY DEF Match, PhysicsLayer, HasImage
<1>5. <<s, c, r>> \in Matching(images, envelopes)
    BY <1>3, <1>4, Matches
<1> HIDE DEF s, c, r
<1>6. <<rowS, rowC, rowR>> \in LayerRows(images, envelopes)
    <2>1. /\ rowS \in Seq(Layer) /\ rowC \in Seq(ClientLayer) /\ rowR \in Seq(DrawnLayer)
          /\ Len(rowS) = 1 /\ Len(rowC) = 1 /\ Len(rowR) = 1
          /\ rowS[1] = s /\ rowC[1] = c /\ rowR[1] = r
        BY <1>3
    <2> HIDE DEF rowS, rowC, rowR
    <2> QED
        BY <1>5, <2>1, InRows DEF LayerRows
<1>7. rowS \in Seq(Layer) /\ rowC \in Seq(ClientLayer) /\ rowR \in Seq(DrawnLayer)
    BY <1>3
<1> HIDE DEF rowS, rowC, rowR
<1>8. <<groups, cgroups, rgroups>> \in Trees(images, envelopes)
    <2>1. /\ groups \in Seq(Seq(Layer)) /\ cgroups \in Seq(Seq(ClientLayer))
          /\ rgroups \in Seq(Seq(DrawnLayer))
          /\ Len(groups) = 1 /\ Len(cgroups) = 1 /\ Len(rgroups) = 1
          /\ groups[1] = rowS /\ cgroups[1] = rowC /\ rgroups[1] = rowR
        BY <1>2, <1>7
    <2>2. \A g \in 1 .. Len(groups) : <<groups[g], cgroups[g], rgroups[g]>> \in LayerRows(images, envelopes)
        <3>1. \A g \in 1 .. Len(groups) : g = 1
            BY <2>1
        <3>2. <<groups[1], cgroups[1], rgroups[1]>> = <<rowS, rowC, rowR>>
            BY <2>1
        <3> QED
            BY <1>6, <3>1, <3>2
    <2>3. Len(cgroups) = Len(groups) /\ Len(rgroups) = Len(groups)
        BY <2>1
    <2> QED
        BY <2>1, <2>2, <2>3, InTrees
<1>9. IsInjective(images) /\ IsInjective(envelopes)
    BY <1>1 DEF IsInjective
<1> QED
    BY <1>1, <1>8, <1>9 DEF Follows, ClientInit

(* What the server's layer and the client's are, in a map that is followed. *)
LEMMA LayersAt ==
    ASSUME Follows, NEW g \in 1 .. Len(groups), NEW l \in 1 .. Len(groups[g])
    PROVE  /\ <<g, l>> \in Spots /\ At(<<g, l>>) = groups[g][l] /\ groups[g][l] \in Sound
           /\ groups[g][l] \in Layer
           /\ cgroups[g][l] \in ClientLayer /\ rgroups[g][l] \in DrawnLayer
           /\ Match(images, envelopes, groups[g][l], cgroups[g][l], rgroups[g][l])
<1>1. <<groups, cgroups, rgroups>> \in Trees(images, envelopes)
    BY DEF Follows
<1>2. <<groups[g], cgroups[g], rgroups[g]>> \in LayerRows(images, envelopes)
      /\ g \in DOMAIN groups
    BY <1>1, TreeRow
<1>3. /\ groups[g][l] \in Layer /\ cgroups[g][l] \in ClientLayer /\ rgroups[g][l] \in DrawnLayer
      /\ Match(images, envelopes, groups[g][l], cgroups[g][l], rgroups[g][l])
      /\ l \in DOMAIN groups[g]
    BY <1>2, RowLayer
<1>4. <<g, l>> \in Spots /\ At(<<g, l>>) = groups[g][l]
    BY <1>2, <1>3, InSpots
<1>5. At(<<g, l>>) \in Sound
    BY <1>4, SpotIn DEF Follows
<1> QED
    BY <1>3, <1>4, <1>5

Shaped ==
    /\ groups \in Seq(Seq(Layer)) /\ Len(groups) \in Nat /\ DOMAIN groups = 1 .. Len(groups)
    /\ \A g \in 1 .. Len(groups) :
          Len(groups[g]) \in Nat /\ DOMAIN groups[g] = 1 .. Len(groups[g])

LEMMA GroupsShaped == SoundMap => Shaped
<1> SUFFICES ASSUME SoundMap PROVE Shaped
    OBVIOUS
<1>1. groups \in Seq(Seq(Layer))
    BY SoundTypes DEF TypeOK
<1>2. Len(groups) \in Nat /\ DOMAIN groups = 1 .. Len(groups)
      /\ \A g \in DOMAIN groups : groups[g] \in Seq(Layer)
    BY <1>1, Listed
<1>3. \A g \in 1 .. Len(groups) : Len(groups[g]) \in Nat /\ DOMAIN groups[g] = 1 .. Len(groups[g])
    BY <1>2, Listed
<1> QED
    BY <1>1, <1>2, <1>3 DEF Shaped

(* When an image or an envelope comes or goes the groups keep their shape, and
   the client's tree stays as it is. *)
LEMMA FollowsRenumbered ==
    ASSUME Follows, SoundMap', UNCHANGED <<cgroups, rgroups>>,
           cimages' = images', cenvs' = envelopes', textures' = images',
           IsInjective(images'), IsInjective(envelopes'),
           Len(groups') = Len(groups),
           \A g \in 1 .. Len(groups) :
               /\ Len(groups'[g]) = Len(groups[g])
               /\ \A l \in 1 .. Len(groups[g]) :
                     Match(images', envelopes', groups'[g][l], cgroups[g][l], rgroups[g][l])
    PROVE  Follows'
<1>1. groups' \in Seq(Seq(Layer))
    <2>1. TypeOK'
        BY SoundTypes, PTL
    <2> QED
        BY <2>1 DEF TypeOK
<1>2. <<groups, cgroups, rgroups>> \in Trees(images, envelopes)
    BY DEF Follows
<1>3. <<groups', cgroups, rgroups>> \in Trees(images', envelopes')
    BY <1>1, <1>2, TreesRematched
<1> QED
    BY <1>3 DEF Follows

LEMMA FollowsCreateImage ==
    ASSUME Follows, NEW i \in Images, OnCreateImage(i)
    PROVE  Follows'
<1>1. /\ PutImage(i) /\ images' = Append(images, i) /\ cimages' = Append(cimages, i)
      /\ textures' = Append(textures, i)
      /\ i \notin Range(images) /\ UNCHANGED <<envelopes, groups, cenvs, cgroups, rgroups>>
    BY DEF OnCreateImage, PutImage
<1>2. SoundMap'
    BY <1>1, SoundImageChange DEF Follows
<1>3. images \in Seq(Images) /\ IsInjective(images) /\ IsInjective(envelopes) /\ SoundMap
      /\ cimages = images /\ textures = images /\ cenvs = envelopes
    BY DEF Follows, SoundMap
<1>4. IsInjective(images')
    BY <1>1, <1>3, AppendDistinct
<1>5. ASSUME NEW g \in 1 .. Len(groups), NEW l \in 1 .. Len(groups[g])
      PROVE  Match(images', envelopes', groups[g][l], cgroups[g][l], rgroups[g][l])
    <2> DEFINE s == groups[g][l]
    <2>1. /\ Match(images, envelopes, s, cgroups[g][l], rgroups[g][l])
          /\ <<g, l>> \in Spots /\ At(<<g, l>>) = s
        BY LayersAt
    <2>2. HasImage(s) => s.image \in 0 .. Len(images)
        BY <1>3, <2>1, ReferencesOf
    <2> HIDE DEF s
    <2>3. HasImage(s) => SameRef(images, s.image, images', s.image)
        BY <1>1, <1>3, <2>2, AppendedRef
    <2>4. \A e : SameRef(envelopes, e, envelopes', e)
        BY <1>1 DEF SameRef
    <2>5. Match(images', envelopes', s, cgroups[g][l], rgroups[g][l])
        BY <2>1, <2>3, <2>4, Rematched
    <2> QED
        BY <2>5 DEF s
<1> QED
    BY <1>1, <1>2, <1>3, <1>4, <1>5, FollowsRenumbered

LEMMA FollowsCreateEnvelope ==
    ASSUME Follows, NEW e \in Envs, OnCreateEnvelope(e)
    PROVE  Follows'
<1>1. /\ PutEnvelope(e) /\ envelopes' = Append(envelopes, e) /\ cenvs' = Append(cenvs, e)
      /\ e \notin Range(envelopes) /\ UNCHANGED <<images, groups, cimages, textures, cgroups, rgroups>>
    BY DEF OnCreateEnvelope, PutEnvelope, drawn
<1>2. SoundMap'
    BY <1>1, SoundEnvelopeChange DEF Follows
<1>3. envelopes \in Seq(Envs) /\ IsInjective(images) /\ IsInjective(envelopes) /\ SoundMap
      /\ cimages = images /\ textures = images /\ cenvs = envelopes
    BY DEF Follows, SoundMap
<1>4. IsInjective(envelopes')
    BY <1>1, <1>3, AppendDistinct
<1>5. ASSUME NEW g \in 1 .. Len(groups), NEW l \in 1 .. Len(groups[g])
      PROVE  Match(images', envelopes', groups[g][l], cgroups[g][l], rgroups[g][l])
    <2> DEFINE s == groups[g][l]
    <2>1. /\ Match(images, envelopes, s, cgroups[g][l], rgroups[g][l])
          /\ <<g, l>> \in Spots /\ At(<<g, l>>) = s /\ s \in Sound
        BY LayersAt
    <2>2. /\ s.kind = "tiles" => s.env \in 0 .. Len(envelopes)
          /\ s.kind = "quads" => \A q \in DOMAIN s.quads :
                s.quads[q].pos \in 0 .. Len(envelopes) /\ s.quads[q].color \in 0 .. Len(envelopes)
        BY <1>3, <2>1, ReferencesOf
    <2>3. s.kind = "quads" => DOMAIN s.quads = 1 .. Len(s.quads)
        BY <2>1, SoundKinds, Listed DEF SoundQuads
    <2> HIDE DEF s
    <2>4. \A k \in 0 .. Len(envelopes) : SameRef(envelopes, k, envelopes', k)
        BY <1>1, <1>3, AppendedRef
    <2>5. \A k : SameRef(images, k, images', k)
        BY <1>1 DEF SameRef
    <2>6. s.kind = "tiles" => SameRef(envelopes, s.env, envelopes', s.env)
        BY <2>2, <2>4
    <2>7. s.kind = "quads" => \A q \in 1 .. Len(s.quads) :
             /\ SameRef(envelopes, s.quads[q].pos, envelopes', s.quads[q].pos)
             /\ SameRef(envelopes, s.quads[q].color, envelopes', s.quads[q].color)
        BY <2>2, <2>3, <2>4
    <2>8. Match(images', envelopes', s, cgroups[g][l], rgroups[g][l])
        BY <2>1, <2>5, <2>6, <2>7, Rematched
    <2> QED
        BY <2>8 DEF s
<1> QED
    BY <1>1, <1>2, <1>3, <1>4, <1>5, FollowsRenumbered

LEMMA FollowsDeleteImage ==
    ASSUME Follows, NEW i \in 1 .. MaxImages, OnDeleteImage(i)
    PROVE  Follows'
<1> DEFINE f == AfterRemoval(i, Len(images))
<1>0. images \in Seq(Images) /\ IsInjective(images) /\ IsInjective(envelopes) /\ SoundMap
      /\ cimages = images /\ textures = images /\ cenvs = envelopes
      /\ Len(images) \in Nat /\ DOMAIN images = 1 .. Len(images)
    BY Listed DEF Follows, SoundMap
<1>1. /\ DeleteImage(i) /\ images' = RemoveAt(images, i) /\ cimages' = RemoveAt(cimages, i)
      /\ textures' = RemoveAt(textures, i) /\ i \in 1 .. Len(images) /\ ~ ImageInUse(i)
      /\ groups' = ReindexImages(f) /\ UNCHANGED <<envelopes, cenvs, cgroups, rgroups>>
    BY <1>0 DEF OnDeleteImage, DeleteImage
<1>2. SoundMap'
    BY <1>0, <1>1, SoundImageChange
<1>3. IsInjective(images')
    BY <1>0, <1>1, RemoveDistinct
<1> HIDE DEF f
<1>4. /\ DOMAIN groups' = DOMAIN groups
      /\ \A g \in 1 .. Len(groups) :
            groups'[g] = [l \in DOMAIN groups[g] |-> WithImages(groups[g][l], f)]
    BY <1>0, <1>1, GroupsShaped DEF Shaped, ReindexImages
<1>5. /\ Len(groups') = Len(groups)
      /\ \A g \in 1 .. Len(groups) :
            /\ Len(groups'[g]) = Len(groups[g])
            /\ \A l \in 1 .. Len(groups[g]) : groups'[g][l] = WithImages(groups[g][l], f)
    <2>1. /\ Len(groups) \in Nat /\ DOMAIN groups = 1 .. Len(groups)
          /\ \A g \in 1 .. Len(groups) :
                Len(groups[g]) \in Nat /\ DOMAIN groups[g] = 1 .. Len(groups[g])
        BY <1>0, GroupsShaped DEF Shaped
    <2>2. /\ Len(groups') \in Nat /\ DOMAIN groups' = 1 .. Len(groups')
          /\ \A g \in 1 .. Len(groups') :
                Len(groups'[g]) \in Nat /\ DOMAIN groups'[g] = 1 .. Len(groups'[g])
        <3>1. Shaped'
            BY <1>2, GroupsShaped, PTL
        <3> QED
            BY <3>1 DEF Shaped
    <2>3. Len(groups') = Len(groups)
        BY <1>4, <2>1, <2>2
    <2>4. \A g \in 1 .. Len(groups) : DOMAIN groups'[g] = 1 .. Len(groups[g])
        BY <1>4, <2>1
    <2>5. \A g \in 1 .. Len(groups) : Len(groups'[g]) = Len(groups[g])
        BY <2>1, <2>2, <2>3, <2>4
    <2> QED
        BY <1>4, <2>1, <2>3, <2>5
<1>6. ASSUME NEW g \in 1 .. Len(groups), NEW l \in 1 .. Len(groups[g])
      PROVE  Match(images', envelopes', groups'[g][l], cgroups[g][l], rgroups[g][l])
    <2> DEFINE s == groups[g][l]
               s2 == groups'[g][l]
    <2>1. /\ Match(images, envelopes, s, cgroups[g][l], rgroups[g][l])
          /\ <<g, l>> \in Spots /\ At(<<g, l>>) = s /\ s \in Sound
        BY LayersAt
    <2>2. HasImage(s) => s.image \in 0 .. Len(images) /\ s.image # i
        BY <1>0, <1>1, <2>1, ReferencesOf DEF ImageInUse
    <2>3. s2 = WithImages(s, f)
        BY <1>5
    <2> HIDE DEF s, s2
    <2>4. /\ s2.kind = s.kind
          /\ s.kind # "quads" => s2.w = s.w /\ s2.h = s.h
          /\ HasImage(s) => s2.image = f[s.image]
          /\ s.kind = "tiles" => s2.env = s.env
          /\ s.kind = "quads" => s2.quads = s.quads
        BY <2>1, <2>3, Kinds DEF WithImages, HasImage, Sound, Physical, SoundTiles, SoundQuads
    <2>5. HasImage(s) => SameRef(images, s.image, images', f[s.image])
        BY <1>0, <1>1, <2>2, RemovedRef DEF f
    <2>6. \A e : SameRef(envelopes, e, envelopes', e)
        BY <1>1 DEF SameRef
    <2>7. Match(images', envelopes', s2, cgroups[g][l], rgroups[g][l])
        BY <2>1, <2>4, <2>5, <2>6, Rematched
    <2> QED
        BY <2>7 DEF s2
<1> QED
    BY <1>0, <1>1, <1>2, <1>3, <1>5, <1>6, FollowsRenumbered

LEMMA FollowsDeleteEnvelope ==
    ASSUME Follows, NEW e \in 1 .. MaxEnvelopes, OnDeleteEnvelope(e)
    PROVE  Follows'
<1> DEFINE f == AfterRemoval(e, Len(envelopes))
<1>0. envelopes \in Seq(Envs) /\ IsInjective(images) /\ IsInjective(envelopes) /\ SoundMap
      /\ cimages = images /\ textures = images /\ cenvs = envelopes
      /\ Len(envelopes) \in Nat /\ DOMAIN envelopes = 1 .. Len(envelopes)
    BY Listed DEF Follows, SoundMap
<1>1. /\ DeleteEnvelope(e) /\ envelopes' = RemoveAt(envelopes, e) /\ cenvs' = RemoveAt(cenvs, e)
      /\ e \in 1 .. Len(envelopes) /\ ~ EnvInUse(e)
      /\ groups' = ReindexEnvs(f) /\ UNCHANGED <<images, cimages, textures, cgroups, rgroups>>
    BY <1>0 DEF OnDeleteEnvelope, DeleteEnvelope, drawn
<1>2. SoundMap'
    BY <1>0, <1>1, SoundEnvelopeChange
<1>3. IsInjective(envelopes')
    BY <1>0, <1>1, RemoveDistinct
<1> HIDE DEF f
<1>4. /\ DOMAIN groups' = DOMAIN groups
      /\ \A g \in 1 .. Len(groups) :
            groups'[g] = [l \in DOMAIN groups[g] |-> WithEnvs(groups[g][l], f)]
    BY <1>0, <1>1, GroupsShaped DEF Shaped, ReindexEnvs
<1>5. /\ Len(groups') = Len(groups)
      /\ \A g \in 1 .. Len(groups) :
            /\ Len(groups'[g]) = Len(groups[g])
            /\ \A l \in 1 .. Len(groups[g]) : groups'[g][l] = WithEnvs(groups[g][l], f)
    <2>1. /\ Len(groups) \in Nat /\ DOMAIN groups = 1 .. Len(groups)
          /\ \A g \in 1 .. Len(groups) :
                Len(groups[g]) \in Nat /\ DOMAIN groups[g] = 1 .. Len(groups[g])
        BY <1>0, GroupsShaped DEF Shaped
    <2>2. /\ Len(groups') \in Nat /\ DOMAIN groups' = 1 .. Len(groups')
          /\ \A g \in 1 .. Len(groups') :
                Len(groups'[g]) \in Nat /\ DOMAIN groups'[g] = 1 .. Len(groups'[g])
        <3>1. Shaped'
            BY <1>2, GroupsShaped, PTL
        <3> QED
            BY <3>1 DEF Shaped
    <2>3. Len(groups') = Len(groups)
        BY <1>4, <2>1, <2>2
    <2>4. \A g \in 1 .. Len(groups) : DOMAIN groups'[g] = 1 .. Len(groups[g])
        BY <1>4, <2>1
    <2>5. \A g \in 1 .. Len(groups) : Len(groups'[g]) = Len(groups[g])
        BY <2>1, <2>2, <2>3, <2>4
    <2> QED
        BY <1>4, <2>1, <2>3, <2>5
<1>6. ASSUME NEW g \in 1 .. Len(groups), NEW l \in 1 .. Len(groups[g])
      PROVE  Match(images', envelopes', groups'[g][l], cgroups[g][l], rgroups[g][l])
    <2> DEFINE s == groups[g][l]
               s2 == groups'[g][l]
    <2>1. /\ Match(images, envelopes, s, cgroups[g][l], rgroups[g][l])
          /\ <<g, l>> \in Spots /\ At(<<g, l>>) = s /\ s \in Sound
        BY LayersAt
    <2>2. /\ s.kind = "tiles" => s.env \in 0 .. Len(envelopes) /\ s.env # e
          /\ s.kind = "quads" => \A q \in DOMAIN s.quads :
                /\ s.quads[q].pos \in 0 .. Len(envelopes) /\ s.quads[q].pos # e
                /\ s.quads[q].color \in 0 .. Len(envelopes) /\ s.quads[q].color # e
        BY <1>0, <1>1, <2>1, ReferencesOf
    <2>3. s2 = WithEnvs(s, f)
        BY <1>5
    <2>4. s.kind = "quads" => s.quads \in Seq(SoundQuad)
        BY <2>1, SoundKinds DEF SoundQuads
    <2> HIDE DEF s, s2
    <2>5. s.kind = "quads" => Len(s.quads) \in Nat /\ DOMAIN s.quads = 1 .. Len(s.quads)
        BY <2>4, Listed
    <2> DEFINE qs == s.quads
               new == [q \in DOMAIN qs |-> [pos |-> f[qs[q].pos], color |-> f[qs[q].color]]]
    <2>6. s.kind = "quads" =>
              /\ Len(new) = Len(qs)
              /\ \A q \in 1 .. Len(qs) : new[q] = [pos |-> f[qs[q].pos], color |-> f[qs[q].color]]
        <3>1. SUFFICES ASSUME s.kind = "quads"
                       PROVE  /\ Len(new) = Len(qs)
                              /\ \A q \in 1 .. Len(qs) :
                                    new[q] = [pos |-> f[qs[q].pos], color |-> f[qs[q].color]]
            OBVIOUS
        <3>2. Len(qs) \in Nat /\ DOMAIN qs = 1 .. Len(qs)
            BY <2>5, <3>1
        <3> HIDE DEF qs
        <3>3. new \in [1 .. Len(qs) -> {new[q] : q \in 1 .. Len(qs)}]
            BY <3>2
        <3>4. Len(new) = Len(qs)
            BY <3>2, <3>3, FunctionIsSeq
        <3> QED
            BY <3>2, <3>4
    <2>7. s.kind = "quads" => s2 = [s EXCEPT !.quads = new]
        BY <2>3 DEF WithEnvs
    <2> HIDE DEF new
    <2>8. s.kind = "quads" => s2.quads = new /\ s2.kind = s.kind /\ s2.image = s.image
        BY <2>1, <2>7, SoundKinds DEF SoundQuads
    <2>9. s.kind # "quads" =>
              /\ s2.kind = s.kind /\ s2.w = s.w /\ s2.h = s.h
              /\ s.kind = "tiles" => s2.image = s.image /\ s2.env = f[s.env]
        BY <2>1, <2>3, Kinds DEF WithEnvs, Sound, Physical, SoundTiles, SoundQuads
    <2>10. s2.kind = s.kind /\ (HasImage(s) => s2.image = s.image)
        BY <2>8, <2>9 DEF HasImage
    <2>11. \A k \in 0 .. Len(envelopes) : k # e => SameRef(envelopes, k, envelopes', f[k])
        BY <1>0, <1>1, RemovedRef DEF f
    <2>12. \A k : SameRef(images, k, images', k)
        BY <1>1 DEF SameRef
    <2>13. s.kind = "tiles" => SameRef(envelopes, s.env, envelopes', s2.env)
        BY <2>2, <2>9, <2>11
    <2>14. s.kind = "quads" =>
              /\ Len(s2.quads) = Len(s.quads)
              /\ \A q \in 1 .. Len(s.quads) :
                    /\ SameRef(envelopes, s.quads[q].pos, envelopes', s2.quads[q].pos)
                    /\ SameRef(envelopes, s.quads[q].color, envelopes', s2.quads[q].color)
        <3>1. SUFFICES ASSUME s.kind = "quads", NEW q \in 1 .. Len(s.quads)
                       PROVE  /\ SameRef(envelopes, s.quads[q].pos, envelopes', s2.quads[q].pos)
                              /\ SameRef(envelopes, s.quads[q].color, envelopes', s2.quads[q].color)
            BY <2>6, <2>8
        <3>2. s2.quads[q] = [pos |-> f[s.quads[q].pos], color |-> f[s.quads[q].color]]
            BY <2>6, <2>8, <3>1
        <3>3. s2.quads[q].pos = f[s.quads[q].pos] /\ s2.quads[q].color = f[s.quads[q].color]
            BY <3>2
        <3> QED
            BY <2>2, <2>5, <2>11, <3>1, <3>3
    <2>15. HasImage(s) => SameRef(images, s.image, images', s2.image)
        BY <2>10, <2>12
    <2>16. Match(images', envelopes', s2, cgroups[g][l], rgroups[g][l])
        BY <2>1, <2>9, <2>10, <2>13, <2>14, <2>15, Rematched
    <2> QED
        BY <2>16 DEF s2
<1> QED
    BY <1>0, <1>1, <1>2, <1>3, <1>5, <1>6, FollowsRenumbered

-----------------------------------------------------------------------------
(* Groups *)

LEMMA FollowsEdited ==
    ASSUME Follows, SoundMap', UNCHANGED <<images, envelopes, cimages, cenvs, textures>>,
           <<groups', cgroups', rgroups'>> \in Trees(images, envelopes)
    PROVE  Follows'
BY DEF Follows

LEMMA FollowsCreateGroup ==
    ASSUME Follows, OnCreateGroup
    PROVE  Follows'
<1>1. /\ PutGroup /\ groups' = Append(groups, <<>>) /\ cgroups' = Append(cgroups, <<>>)
      /\ rgroups' = Append(rgroups, <<>>)
      /\ UNCHANGED <<images, envelopes, cimages, cenvs, textures>>
    BY DEF OnCreateGroup, PutGroup
<1>2. SoundMap'
    BY <1>1, SoundGroupStep DEF Follows, GroupStep
<1> DEFINE A == Seq(Layer)
           B == Seq(ClientLayer)
           C == Seq(DrawnLayer)
           T == LayerRows(images, envelopes)
           e == <<>>
<1>3. e \in A /\ e \in B /\ e \in C
    BY EmptySeq
<1>4. <<e, e, e>> \in T
    BY RowsEmpty DEF LayerRows
<1>5. Trees(images, envelopes) = Rows(A, B, C, T)
    BY DEF Trees
<1>6. groups' = Append(groups, e) /\ cgroups' = Append(cgroups, e) /\ rgroups' = Append(rgroups, e)
    BY <1>1
<1> HIDE DEF A, B, C, T, e
<1>7. <<groups, cgroups, rgroups>> \in Rows(A, B, C, T)
    BY <1>5 DEF Follows
<1>8. <<Append(groups, e), Append(cgroups, e), Append(rgroups, e)>> \in Rows(A, B, C, T)
    BY <1>3, <1>4, <1>7, RowsAppend
<1> QED
    BY <1>1, <1>2, <1>5, <1>6, <1>8, FollowsEdited

LEMMA FollowsDeleteGroup ==
    ASSUME Follows, NEW dg \in 1 .. MaxGroups, OnDeleteGroup(dg)
    PROVE  Follows'
<1>1. /\ DeleteGroup(dg) /\ groups' = RemoveAt(groups, dg) /\ cgroups' = RemoveAt(cgroups, dg)
      /\ rgroups' = RemoveAt(rgroups, dg) /\ dg \in DOMAIN groups
      /\ UNCHANGED <<images, envelopes, cimages, cenvs, textures>>
    BY DEF OnDeleteGroup, DeleteGroup
<1>2. SoundMap'
    BY <1>1, SoundGroupStep DEF Follows, GroupStep
<1>3. <<groups, cgroups, rgroups>> \in Trees(images, envelopes)
    BY DEF Follows
<1>4. dg \in 1 .. Len(groups)
    BY <1>1, <1>3, TreeRow
<1>5. <<groups', cgroups', rgroups'>> \in Trees(images, envelopes)
    BY <1>1, <1>3, <1>4, RowsRemove DEF Trees
<1> QED
    BY <1>1, <1>2, <1>5, FollowsEdited

LEMMA FollowsReorderGroup ==
    ASSUME Followable, Follows,
           NEW src \in 1 .. MaxGroups, NEW tgt \in 1 .. MaxGroups, OnReorderGroup(src, tgt)
    PROVE  Follows'
<1>1. /\ MoveGroup(src, tgt) /\ groups' = Moved(groups, src, tgt)
      /\ cgroups' = Moved(cgroups, src, tgt) /\ rgroups' = Moved(rgroups, src, tgt)
      /\ src \in 1 .. Len(groups) /\ tgt \in 1 .. Len(groups)
      /\ UNCHANGED <<images, envelopes, cimages, cenvs, textures>>
    BY DEF OnReorderGroup, MoveGroup, Movable, Followable
<1>2. SoundMap'
    <2>1. src \in 1 .. MaxGroups + 1 /\ tgt \in 1 .. MaxGroups + 1
        BY BoundAssumption
    <2> QED
        BY <1>1, <2>1, SoundGroupStep DEF Follows, GroupStep
<1>3. <<groups, cgroups, rgroups>> \in Trees(images, envelopes)
    BY DEF Follows
<1>4. <<groups', cgroups', rgroups'>> \in Trees(images, envelopes)
    BY <1>1, <1>3, RowsMoved DEF Trees
<1> QED
    BY <1>1, <1>2, <1>4, FollowsEdited

-----------------------------------------------------------------------------
(* Layers *)

(* The client finds layers where the server does, and the same game layer. *)
LEMMA SameSpots ==
    ASSUME Follows
    PROVE  /\ CSpots(cgroups) = Spots
           /\ \A s \in Spots :
                 /\ s[1] \in 1 .. Len(groups) /\ s[2] \in 1 .. Len(groups[s[1]])
                 /\ At(s) = groups[s[1]][s[2]] /\ At(s) \in Sound
                 /\ cgroups[s[1]][s[2]] \in ClientLayer /\ rgroups[s[1]][s[2]] \in DrawnLayer
                 /\ Match(images, envelopes, At(s), cgroups[s[1]][s[2]], rgroups[s[1]][s[2]])
<1>1. <<groups, cgroups, rgroups>> \in Trees(images, envelopes)
    BY DEF Follows
<1>2. DOMAIN cgroups = DOMAIN groups /\ DOMAIN groups = 1 .. Len(groups)
    BY <1>1, TreeRow
<1>3. \A g \in DOMAIN groups : DOMAIN cgroups[g] = DOMAIN groups[g]
    <2> TAKE g \in DOMAIN groups
    <2>1. <<groups[g], cgroups[g], rgroups[g]>> \in LayerRows(images, envelopes)
        BY <1>1, <1>2, TreeRow
    <2> QED
        BY <2>1, RowLayer
<1>4. CSpots(cgroups) = Spots
    BY <1>2, <1>3 DEF CSpots, Spots
<1>5. ASSUME NEW s \in Spots
      PROVE  /\ s[1] \in 1 .. Len(groups) /\ s[2] \in 1 .. Len(groups[s[1]])
             /\ At(s) = groups[s[1]][s[2]] /\ At(s) \in Sound
             /\ cgroups[s[1]][s[2]] \in ClientLayer /\ rgroups[s[1]][s[2]] \in DrawnLayer
             /\ Match(images, envelopes, At(s), cgroups[s[1]][s[2]], rgroups[s[1]][s[2]])
    <2>1. s[1] \in 1 .. Len(groups) /\ s[2] \in 1 .. Len(groups[s[1]]) /\ At(s) \in Sound
        BY SpotIn DEF Follows
    <2>2. At(s) = groups[s[1]][s[2]]
        BY DEF At
    <2> QED
        BY <2>1, <2>2, LayersAt
<1> QED
    BY <1>4, <1>5

LEMMA SameGame ==
    ASSUME Follows, HasGameLayer
    PROVE  GameLayer \in Physical /\ CGame.w = GameLayer.w /\ CGame.h = GameLayer.h
<1> DEFINE s == CHOOSE spot \in Spots : At(spot).kind = "game"
<1>1. s \in Spots /\ At(s).kind = "game"
    BY Zenon DEF HasGameLayer
<1>2. GameLayer = At(s)
    BY DEF GameLayer
<1>3. \A spot \in Spots : cgroups[spot[1]][spot[2]].kind = At(spot).kind
    BY SameSpots DEF Match
<1>4. GameIndex(cgroups) = s
    BY <1>3, SameSpots DEF GameIndex
<1> HIDE DEF s
<1>5. CGame = cgroups[s[1]][s[2]]
    BY <1>4 DEF CGame
<1>6. At(s) \in Sound /\ Match(images, envelopes, At(s), cgroups[s[1]][s[2]], rgroups[s[1]][s[2]])
    BY <1>1, SameSpots
<1> QED
    BY <1>1, <1>2, <1>5, <1>6, SoundKinds DEF Match, IsPhysics

LEMMA FollowsAdded ==
    ASSUME Follows, SoundMap', NEW g, NEW s, NEW c, NEW texture, NewLayer(g, s), AddLayer(g, c, texture),
           s \in Layer, c \in ClientLayer, [id |-> c.id, texture |-> texture] \in DrawnLayer,
           Match(images, envelopes, s, c, [id |-> c.id, texture |-> texture])
    PROVE  Follows'
<1> DEFINE r == [id |-> c.id, texture |-> texture]
           rowS == Append(groups[g], s)
           rowC == Append(cgroups[g], c)
           rowR == Append(rgroups[g], r)
<1>1. /\ g \in DOMAIN groups /\ groups' = [groups EXCEPT ![g] = rowS]
      /\ cgroups' = [cgroups EXCEPT ![g] = rowC] /\ rgroups' = [rgroups EXCEPT ![g] = rowR]
      /\ UNCHANGED <<images, envelopes, cimages, cenvs, textures>>
    BY DEF NewLayer, AddLayer
<1>2. <<s, c, r>> \in Matching(images, envelopes) /\ r \in DrawnLayer
    BY Matches
<1> HIDE DEF r
<1>3. <<groups, cgroups, rgroups>> \in Trees(images, envelopes)
    BY DEF Follows
<1>4. g \in 1 .. Len(groups) /\ <<groups[g], cgroups[g], rgroups[g]>> \in LayerRows(images, envelopes)
    BY <1>1, <1>3, TreeRow
<1>5. <<rowS, rowC, rowR>> \in LayerRows(images, envelopes)
    BY <1>2, <1>4, RowsAppend DEF LayerRows
<1> HIDE DEF rowS, rowC, rowR
<1>6. <<groups', cgroups', rgroups'>> \in Trees(images, envelopes)
    BY <1>1, <1>3, <1>4, <1>5, RowInTrees
<1> QED
    BY <1>1, <1>6, FollowsEdited

(* An image or an envelope that a request names is an object the client has. *)
LEMMA Referred ==
    ASSUME Follows
    PROVE  /\ \A i \in 0 .. Len(images) :
                 /\ ImageAt(i) = Ref(images, i) /\ ImageAt(i) \in Images \cup {Nothing}
                 /\ TextureAt(i) = (IF i = None THEN Blank ELSE images[i])
                 /\ TextureAt(i) \in Images \cup {Nothing, Blank, Own}
           /\ \A e \in 0 .. Len(envelopes) :
                 EnvAt(e) = Ref(envelopes, e) /\ EnvAt(e) \in Envs \cup {Nothing}
<1>1. /\ Len(images) \in Nat /\ \A i \in 1 .. Len(images) : images[i] \in Images
      /\ Len(envelopes) \in Nat /\ \A e \in 1 .. Len(envelopes) : envelopes[e] \in Envs
    BY Listed DEF Follows, SoundMap
<1>2. cimages = images /\ cenvs = envelopes /\ textures = images
    BY DEF Follows
<1> QED
    BY <1>1, <1>2 DEF ImageAt, EnvAt, TextureAt, Ref, None

LEMMA FollowsCreatePhysics ==
    ASSUME Follows, NEW g, NEW kind \in PhysicsKinds, OnCreatePhysics(g, kind)
    PROVE  Follows'
<1> DEFINE s == PhysicsLayer(kind, GameLayer.w, GameLayer.h)
           c == Physics(kind)
           r == [id |-> c.id, texture |-> Own]
<1>1. PutPhysics(g, kind) /\ HasGameLayer /\ NewLayer(g, s) /\ AddLayer(g, c, Own)
    BY DEF OnCreatePhysics, PutPhysics
<1>2. SoundMap'
    BY <1>1, SoundPut DEF Follows
<1>3. GameLayer.w \in Nat /\ GameLayer.h \in Nat /\ CGame.w = GameLayer.w /\ CGame.h = GameLayer.h
    BY <1>1, SameGame DEF Physical
<1>4. s \in Layer /\ s.kind = kind /\ s.w = GameLayer.w /\ s.h = GameLayer.h
    BY <1>3 DEF PhysicsLayer, Layer
<1>5. c \in ClientLayer /\ c.kind = kind /\ c.w = CGame.w /\ c.h = CGame.h /\ c.id \in Ids
    BY <1>3, NewIdIn DEF Physics, ClientLayer, ClientPhysical
<1> HIDE DEF s, c
<1>6. r \in DrawnLayer /\ r.id = c.id /\ r.texture = Own
    BY <1>5 DEF DrawnLayer
<1>7. kind \notin {"tiles", "quads"}
    BY Kinds
<1> HIDE DEF r
<1>8. Match(images, envelopes, s, c, r)
    BY <1>3, <1>4, <1>5, <1>6, <1>7 DEF Match, HasImage
<1> QED
    BY <1>1, <1>2, <1>4, <1>5, <1>6, <1>8, FollowsAdded DEF r

LEMMA FollowsCreateTiles ==
    ASSUME Follows, NEW g, NEW i, NEW e, OnCreateTiles(g, i, e)
    PROVE  Follows'
<1> DEFINE s == TilesLayer(GameLayer.w, GameLayer.h, i, e)
           c == Tiles(i, e)
           r == [id |-> c.id, texture |-> TextureAt(i)]
<1>1. /\ PutTiles(g, i, e) /\ HasGameLayer /\ NewLayer(g, s) /\ AddLayer(g, c, TextureAt(i))
      /\ i \in TileImageRefs /\ e \in ColorRefs
    BY DEF OnCreateTiles, PutTiles
<1>2. SoundMap'
    BY <1>1, SoundPut DEF Follows
<1>3. GameLayer.w \in Nat /\ GameLayer.h \in Nat /\ CGame.w = GameLayer.w /\ CGame.h = GameLayer.h
    BY <1>1, SameGame DEF Physical
<1>4. i \in 0 .. Len(images) /\ e \in 0 .. Len(envelopes) /\ i \in Nat /\ e \in Nat
    BY <1>1, RefsAreNat DEF Follows
<1>5. /\ ImageAt(i) = Ref(images, i) /\ ImageAt(i) \in Images \cup {Nothing}
      /\ TextureAt(i) = (IF i = None THEN Blank ELSE images[i])
      /\ TextureAt(i) \in Images \cup {Nothing, Blank, Own}
      /\ EnvAt(e) = Ref(envelopes, e) /\ EnvAt(e) \in Envs \cup {Nothing}
    BY <1>4, Referred
<1>6. s \in Layer /\ s.kind = "tiles" /\ s.w = GameLayer.w /\ s.h = GameLayer.h /\ s.image = i /\ s.env = e
    BY <1>3, <1>4 DEF TilesLayer, Layer
<1>7. c \in ClientLayer /\ c.kind = "tiles" /\ c.w = CGame.w /\ c.h = CGame.h /\ c.id \in Ids
      /\ c.image = ImageAt(i) /\ c.env = EnvAt(e)
    BY <1>3, <1>5, NewIdIn DEF Tiles, ClientLayer, ClientTiles
<1> HIDE DEF s, c
<1>8. r \in DrawnLayer /\ r.id = c.id /\ r.texture = TextureAt(i)
    BY <1>5, <1>7 DEF DrawnLayer
<1> HIDE DEF r
<1>9. ~ IsPhysics(s)
    BY <1>6, Kinds DEF IsPhysics
<1>10. Match(images, envelopes, s, c, r)
    BY <1>3, <1>5, <1>6, <1>7, <1>8, <1>9 DEF Match
<1> QED
    BY <1>1, <1>2, <1>6, <1>7, <1>8, <1>10, FollowsAdded DEF r

LEMMA FollowsCreateQuads ==
    ASSUME Follows, NEW g, NEW i, NEW named \in BOOLEAN, OnCreateQuads(g, i, named)
    PROVE  Follows'
<1> DEFINE s == QuadsLayer(i, <<>>)
           c == Quads(i)
           texture == IF named THEN TextureAt(i) ELSE Nothing
           r == [id |-> c.id, texture |-> texture]
<1>1. PutQuads(g, i) /\ NewLayer(g, s) /\ AddLayer(g, c, texture)
    BY DEF OnCreateQuads, PutQuads
<1>0. i \in ImageRefs /\ (i # None => named)
    BY DEF OnCreateQuads, PutQuads
<1>2. SoundMap'
    BY <1>1, SoundPut DEF Follows
<1>3. i \in 0 .. Len(images) /\ i \in Nat
    BY <1>0, RefsAreNat DEF Follows
<1>4. /\ ImageAt(i) = Ref(images, i) /\ ImageAt(i) \in Images \cup {Nothing}
      /\ TextureAt(i) = (IF i = None THEN Blank ELSE images[i])
      /\ TextureAt(i) \in Images \cup {Nothing, Blank, Own}
    BY <1>3, Referred
<1>5. /\ IF i = None THEN texture \in {Nothing, Blank} ELSE texture = images[i]
      /\ texture \in Images \cup {Nothing, Blank, Own}
    <2>1. CASE named
        BY <1>4, <2>1
    <2>2. CASE ~ named
        BY <1>0, <2>2
    <2> QED
        BY <2>1, <2>2
<1>6. <<>> \in Seq(Quad) /\ <<>> \in Seq(ClientQuad) /\ Len(<<>>) = 0
    BY EmptySeq
<1>7. s \in Layer /\ s.kind = "quads" /\ s.image = i /\ s.quads = <<>>
    BY <1>3, <1>6 DEF QuadsLayer, Layer
<1>8. c \in ClientLayer /\ c.kind = "quads" /\ c.id \in Ids /\ c.image = ImageAt(i) /\ c.quads = <<>>
    BY <1>4, <1>6, NewIdIn DEF Quads, ClientLayer, ClientQuads
<1> HIDE DEF s, c, texture
<1>9. r \in DrawnLayer /\ r.id = c.id /\ r.texture = texture
    BY <1>5, <1>8 DEF DrawnLayer
<1> HIDE DEF r
<1>10. ~ IsPhysics(s)
    BY <1>7, Kinds DEF IsPhysics
<1>11. Match(images, envelopes, s, c, r)
    BY <1>4, <1>5, <1>6, <1>7, <1>8, <1>9, <1>10 DEF Match
<1> QED
    BY <1>1, <1>2, <1>7, <1>8, <1>9, <1>11, FollowsAdded DEF r

(* One layer is replaced by one that still belongs together with the client's. *)
LEMMA FollowsReplaced ==
    ASSUME Follows, SoundMap', UNCHANGED <<images, envelopes>>, NEW s \in Spots,
           NEW new \in Layer, NEW c \in ClientLayer, NEW r \in DrawnLayer,
           Match(images, envelopes, new, c, r),
           groups' = [groups EXCEPT ![s[1]][s[2]] = new],
           EditLayers([cgroups EXCEPT ![s[1]][s[2]] = c], [rgroups EXCEPT ![s[1]][s[2]] = r])
    PROVE  Follows'
<1>1. s[1] \in 1 .. Len(groups) /\ s[2] \in 1 .. Len(groups[s[1]])
    BY SameSpots
<1>2. <<new, c, r>> \in Matching(images, envelopes)
    BY Matches
<1>3. <<groups, cgroups, rgroups>> \in Trees(images, envelopes)
    BY DEF Follows
<1>4. /\ cgroups' = [cgroups EXCEPT ![s[1]][s[2]] = c]
      /\ rgroups' = [rgroups EXCEPT ![s[1]][s[2]] = r]
      /\ UNCHANGED <<cimages, cenvs, textures>>
    BY DEF EditLayers
<1>5. <<groups', cgroups', rgroups'>> \in Trees(images, envelopes)
    BY <1>1, <1>2, <1>3, <1>4, LayerInTrees
<1> QED
    BY <1>4, <1>5, FollowsEdited

LEMMA SizedIs ==
    ASSUME NEW c \in ClientPhysical \cup ClientTiles, NEW size \in Nat \X Nat
    PROVE  /\ c \in ClientPhysical => Sized(c, size) \in ClientPhysical
           /\ c \in ClientTiles => Sized(c, size) \in ClientTiles
           /\ Sized(c, size).id = c.id /\ Sized(c, size).kind = c.kind
           /\ Sized(c, size).w = Resized(size[1], c.w)
           /\ Sized(c, size).h = Resized(size[2], c.h)
<1> DEFINE a == Resized(size[1], c.w)
           b == Resized(size[2], c.h)
           wide == [c EXCEPT !.w = a]
<1>1. a \in Nat /\ b \in Nat
    BY DEF Resized, ClientPhysical, ClientTiles
<1>2. Sized(c, size) = [wide EXCEPT !.h = b]
    BY DEF Sized
<1> HIDE DEF a, b
<1>3. /\ c \in ClientPhysical => wide \in ClientPhysical
      /\ c \in ClientTiles => wide \in ClientTiles
      /\ wide.id = c.id /\ wide.kind = c.kind /\ wide.w = a
    BY <1>1, Kinds DEF ClientPhysical, ClientTiles
<1> HIDE DEF wide
<1>4. /\ wide \in ClientPhysical => [wide EXCEPT !.h = b] \in ClientPhysical
      /\ wide \in ClientTiles => [wide EXCEPT !.h = b] \in ClientTiles
      /\ [wide EXCEPT !.h = b].id = wide.id /\ [wide EXCEPT !.h = b].kind = wide.kind
      /\ [wide EXCEPT !.h = b].w = wide.w /\ [wide EXCEPT !.h = b].h = b
    <2>1. wide \in ClientPhysical \cup ClientTiles
        BY <1>3
    <2> QED
        BY <1>1, <2>1, Kinds DEF ClientPhysical, ClientTiles
<1> QED
    BY <1>2, <1>3, <1>4 DEF a, b

(* Writing back what is there changes nothing. *)
LEMMA WrittenBack ==
    ASSUME NEW S, NEW s \in Seq(S), NEW i \in 1 .. Len(s)
    PROVE  [s EXCEPT ![i] = s[i]] = s
<1>1. Len(s) \in Nat /\ DOMAIN s = 1 .. Len(s) /\ s = [j \in 1 .. Len(s) |-> s[j]]
    BY Listed, SeqDef
<1> QED
    BY <1>1

LEMMA FollowsEditPhysics ==
    ASSUME Follows, NEW s, NEW size \in Resizes, OnEditPhysics(s, size)
    PROVE  Follows'
<1> DEFINE g == s[1]
           rowS == groups[g]
           rowC == cgroups[g]
           newS == [l \in DOMAIN rowS |-> IF IsPhysics(rowS[l]) THEN Reshaped(rowS[l], size) ELSE rowS[l]]
           newC == [l \in DOMAIN rowC |-> IF IsPhysics(rowC[l]) THEN Sized(rowC[l], size) ELSE rowC[l]]
<1>1. /\ Accepted(size) /\ EditPhysics(s, size) /\ s \in Spots
      /\ UNCHANGED <<images, envelopes, cimages, cenvs, textures, rgroups>>
    BY DEF OnEditPhysics, EditPhysics, EditLayers
<1>2. SoundMap'
    BY <1>1, SoundResize DEF Follows
<1>3. Fits(size[1]) /\ Fits(size[2]) /\ size \in Nat \X Nat
    BY <1>1, ResizeAssumption DEF Accepted
<1>4. groups' = [groups EXCEPT ![g] = newS]
    BY <1>1, <1>3 DEF EditPhysics
<1>5. cgroups' = [cgroups EXCEPT ![g] = newC]
    BY DEF OnEditPhysics, EditLayers
<1>6. <<groups, cgroups, rgroups>> \in Trees(images, envelopes) /\ g \in 1 .. Len(groups)
    BY <1>1, SameSpots DEF Follows
<1>7. <<rowS, rowC, rgroups[g]>> \in LayerRows(images, envelopes)
      /\ rgroups \in Seq(Seq(DrawnLayer)) /\ Len(rgroups) = Len(groups)
    BY <1>6, TreeRow, InRows DEF Trees
<1>8. /\ Len(rowS) \in Nat /\ DOMAIN rowS = 1 .. Len(rowS) /\ DOMAIN rowC = 1 .. Len(rowS)
      /\ rgroups[g] \in Seq(DrawnLayer) /\ Len(rgroups[g]) = Len(rowS)
      /\ \A l \in 1 .. Len(rowS) :
            /\ rowS[l] \in Sound /\ rowC[l] \in ClientLayer /\ rgroups[g][l] \in DrawnLayer
            /\ Match(images, envelopes, rowS[l], rowC[l], rgroups[g][l])
    <2>1. rgroups[g] \in Seq(DrawnLayer)
        BY <1>6, TreeRow
    <2>2. \A l \in 1 .. Len(rowS) : rowS[l] \in Sound
        BY <1>6, LayersAt
    <2> QED
        BY <1>7, <2>1, <2>2, RowLayer
<1>9. ASSUME NEW l \in 1 .. Len(rowS)
      PROVE  newS[l] \in Layer /\ newC[l] \in ClientLayer
             /\ Match(images, envelopes, newS[l], newC[l], rgroups[g][l])
    <2> DEFINE a == rowS[l]
               b == rowC[l]
    <2>0. /\ a \in Sound /\ b \in ClientLayer /\ Match(images, envelopes, a, b, rgroups[g][l])
          /\ newS[l] = IF IsPhysics(a) THEN Reshaped(a, size) ELSE a
          /\ newC[l] = IF IsPhysics(b) THEN Sized(b, size) ELSE b
        BY <1>8
    <2>1. Sound \subseteq Layer
        BY SoundIsLayer DEF Follows
    <2> HIDE DEF a, b, newS, newC
    <2>2. IsPhysics(a) <=> IsPhysics(b)
        BY <2>0 DEF Match, IsPhysics
    <2>3. CASE ~ IsPhysics(a)
        BY <2>0, <2>1, <2>2, <2>3
    <2>4. CASE IsPhysics(a)
        <3>1. a \in Physical /\ b \in ClientPhysical
            BY <2>0, <2>2, <2>4, SoundKinds, ClientKinds
        <3>2. /\ Reshaped(a, size) \in Physical
              /\ Reshaped(a, size).kind = a.kind
              /\ Reshaped(a, size).w = Resized(size[1], a.w)
              /\ Reshaped(a, size).h = Resized(size[2], a.h)
            BY <1>3, <3>1, ReshapedTypes
        <3>3. /\ Sized(b, size) \in ClientPhysical
              /\ Sized(b, size).id = b.id /\ Sized(b, size).kind = b.kind
              /\ Sized(b, size).w = Resized(size[1], b.w)
              /\ Sized(b, size).h = Resized(size[2], b.h)
            BY <1>3, <3>1, SizedIs
        <3>4. a.kind \notin {"tiles", "quads"}
            BY <3>1, Kinds DEF Physical
        <3>5. Match(images, envelopes, Reshaped(a, size), Sized(b, size), rgroups[g][l])
            BY <2>0, <3>2, <3>3, <3>4 DEF Match, HasImage, IsPhysics
        <3>6. Reshaped(a, size) \in Layer /\ Sized(b, size) \in ClientLayer
            BY <2>1, <3>2, <3>3 DEF Sound, ClientLayer
        <3> QED
            BY <2>0, <2>2, <2>4, <3>5, <3>6
    <2> QED
        BY <2>3, <2>4
<1>10. newS \in [1 .. Len(rowS) -> Layer] /\ newC \in [1 .. Len(rowS) -> ClientLayer]
    <2>1. newS = [l \in 1 .. Len(rowS) |-> newS[l]] /\ newC = [l \in 1 .. Len(rowS) |-> newC[l]]
        BY <1>8
    <2> HIDE DEF newS, newC
    <2> QED
        BY <1>9, <2>1
<1> HIDE DEF newS, newC, rowS, rowC
<1>11. newS \in Seq(Layer) /\ Len(newS) = Len(rowS) /\ newC \in Seq(ClientLayer) /\ Len(newC) = Len(rowS)
    BY <1>8, <1>10, FunctionIsSeq
<1>12. <<newS, newC, rgroups[g]>> \in LayerRows(images, envelopes)
    <2>1. \A l \in 1 .. Len(newS) : <<newS[l], newC[l], rgroups[g][l]>> \in Matching(images, envelopes)
        BY <1>8, <1>9, <1>11, Matches
    <2>2. Len(newS) = Len(newC) /\ Len(newS) = Len(rgroups[g])
        BY <1>8, <1>11
    <2> QED
        BY <1>8, <1>11, <2>1, <2>2, InRows DEF LayerRows
<1>13. [rgroups EXCEPT ![g] = rgroups[g]] = rgroups
    <2>1. g \in 1 .. Len(rgroups)
        BY <1>6, <1>7
    <2> QED
        BY <1>7, <2>1, WrittenBack
<1> HIDE DEF g
<1>14. <<groups', cgroups', rgroups'>> \in Trees(images, envelopes)
    <2>1. <<[groups EXCEPT ![g] = newS], [cgroups EXCEPT ![g] = newC], [rgroups EXCEPT ![g] = rgroups[g]]>>
            \in Trees(images, envelopes)
        BY <1>6, <1>12, RowInTrees
    <2>2. rgroups' = rgroups
        BY <1>1
    <2> QED
        BY <1>4, <1>5, <1>13, <2>1, <2>2
<1> QED
    BY <1>1, <1>2, <1>14, FollowsEdited

LEMMA FollowsEditTiles ==
    ASSUME Follows, NEW s, NEW size \in Nat \X Nat, NEW i, NEW e, OnEditTiles(s, size, i, e)
    PROVE  Follows'
<1> DEFINE old == At(s)
           c == cgroups[s[1]][s[2]]
           r == rgroups[s[1]][s[2]]
           sized == Reshaped(old, size)
           csized == Sized(c, size)
           new == [sized EXCEPT !.image = i, !.env = e]
           cnew == [csized EXCEPT !.image = ImageAt(i), !.env = EnvAt(e)]
           rnew == [r EXCEPT !.texture = TextureAt(i)]
<1>1. /\ Accepted(size) /\ EditTiles(s, size, i, e) /\ s \in Spots /\ old.kind = "tiles"
      /\ i \in TileImageRefs \cup {old.image} /\ e \in ColorRefs \cup {old.env}
      /\ UNCHANGED <<images, envelopes>>
    BY DEF OnEditTiles, EditTiles
<1>2. SoundMap'
    BY <1>1, SoundTilesEdit DEF Follows
<1>3. Fits(size[1]) /\ Fits(size[2])
    BY <1>1 DEF Accepted
<1>4. groups' = [groups EXCEPT ![s[1]][s[2]] = new]
    BY <1>3 DEF OnEditTiles, EditTiles, At
<1>5. EditLayers([cgroups EXCEPT ![s[1]][s[2]] = cnew], [rgroups EXCEPT ![s[1]][s[2]] = rnew])
    BY DEF OnEditTiles
<1>6. old \in Sound /\ c \in ClientLayer /\ r \in DrawnLayer /\ Match(images, envelopes, old, c, r)
    BY <1>1, SameSpots
<1> HIDE DEF old, c, r
<1>7. old \in SoundTiles /\ c \in ClientTiles
    BY <1>1, <1>6, SoundKinds, ClientKinds DEF Match
<1>8. i \in TileImageRefs /\ e \in ColorRefs
    BY <1>1, <1>7 DEF SoundTiles
<1>9. i \in 0 .. Len(images) /\ e \in 0 .. Len(envelopes)
    BY <1>8, RefsAreNat DEF Follows
<1>10. /\ ImageAt(i) = Ref(images, i) /\ ImageAt(i) \in Images \cup {Nothing}
       /\ TextureAt(i) = (IF i = None THEN Blank ELSE images[i])
       /\ TextureAt(i) \in Images \cup {Nothing, Blank, Own}
       /\ EnvAt(e) = Ref(envelopes, e) /\ EnvAt(e) \in Envs \cup {Nothing}
    BY <1>9, Referred
<1>11. /\ sized \in SoundTiles
       /\ sized.w = Resized(size[1], old.w) /\ sized.h = Resized(size[2], old.h)
    BY <1>3, <1>7, ReshapedTypes
<1>12. /\ csized \in ClientTiles /\ csized.id = c.id
       /\ csized.w = Resized(size[1], c.w) /\ csized.h = Resized(size[2], c.h)
    BY <1>7, SizedIs
<1> HIDE DEF sized, csized
<1>13. /\ new \in SoundTiles /\ new.kind = "tiles" /\ new.w = sized.w /\ new.h = sized.h
       /\ new.image = i /\ new.env = e
    BY <1>8, <1>11 DEF SoundTiles
<1>14. /\ cnew \in ClientTiles /\ cnew.kind = "tiles" /\ cnew.id = csized.id
       /\ cnew.w = csized.w /\ cnew.h = csized.h
       /\ cnew.image = ImageAt(i) /\ cnew.env = EnvAt(e)
    BY <1>10, <1>12 DEF ClientTiles
<1>15. rnew \in DrawnLayer /\ rnew.id = r.id /\ rnew.texture = TextureAt(i)
    BY <1>6, <1>10 DEF DrawnLayer
<1> HIDE DEF new, cnew, rnew
<1>16. new \in Layer /\ cnew \in ClientLayer
    BY <1>13, <1>14, SoundIsLayer DEF Follows, Sound, ClientLayer
<1>17. ~ IsPhysics(new)
    BY <1>13, Kinds DEF IsPhysics
<1>18. c.w = old.w /\ c.h = old.h /\ r.id = c.id
    BY <1>1, <1>6 DEF Match
<1>19. Match(images, envelopes, new, cnew, rnew)
    BY <1>10, <1>11, <1>12, <1>13, <1>14, <1>15, <1>17, <1>18 DEF Match
<1> QED
    BY <1>1, <1>2, <1>4, <1>5, <1>15, <1>16, <1>19, FollowsReplaced

LEMMA FollowsEditQuads ==
    ASSUME Follows, NEW s, NEW i, OnEditQuads(s, i)
    PROVE  Follows'
<1> DEFINE old == At(s)
           c == cgroups[s[1]][s[2]]
           r == rgroups[s[1]][s[2]]
           new == [old EXCEPT !.image = i]
           cnew == [c EXCEPT !.image = ImageAt(i)]
           rnew == [r EXCEPT !.texture = TextureAt(i)]
<1>1. /\ EditQuads(s, i) /\ s \in Spots /\ old.kind = "quads" /\ i \in ImageRefs
      /\ UNCHANGED <<images, envelopes>>
    BY DEF OnEditQuads, EditQuads
<1>2. SoundMap'
    BY <1>1, SoundQuadsEdit DEF Follows
<1>3. groups' = [groups EXCEPT ![s[1]][s[2]] = new]
    BY DEF OnEditQuads, EditQuads, At
<1>4. EditLayers([cgroups EXCEPT ![s[1]][s[2]] = cnew], [rgroups EXCEPT ![s[1]][s[2]] = rnew])
    BY DEF OnEditQuads
<1>5. old \in Sound /\ c \in ClientLayer /\ r \in DrawnLayer /\ Match(images, envelopes, old, c, r)
    BY <1>1, SameSpots
<1> HIDE DEF old, c, r
<1>6. old \in SoundQuads /\ c \in ClientQuads
    BY <1>1, <1>5, SoundKinds, ClientKinds DEF Match
<1>7. i \in 0 .. Len(images)
    BY <1>1, RefsAreNat DEF Follows
<1>8. /\ ImageAt(i) = Ref(images, i) /\ ImageAt(i) \in Images \cup {Nothing}
      /\ TextureAt(i) = (IF i = None THEN Blank ELSE images[i])
      /\ TextureAt(i) \in Images \cup {Nothing, Blank, Own}
    BY <1>7, Referred
<1>9. new \in SoundQuads /\ new.kind = "quads" /\ new.image = i /\ new.quads = old.quads
    BY <1>1, <1>6 DEF SoundQuads
<1>10. /\ cnew \in ClientQuads /\ cnew.kind = "quads" /\ cnew.id = c.id
       /\ cnew.image = ImageAt(i) /\ cnew.quads = c.quads
    BY <1>6, <1>8 DEF ClientQuads
<1>11. rnew \in DrawnLayer /\ rnew.id = r.id /\ rnew.texture = TextureAt(i)
    BY <1>5, <1>8 DEF DrawnLayer
<1> HIDE DEF new, cnew, rnew
<1>12. new \in Layer /\ cnew \in ClientLayer
    BY <1>9, <1>10, SoundIsLayer DEF Follows, Sound, ClientLayer
<1>13. ~ IsPhysics(new)
    BY <1>9, Kinds DEF IsPhysics
<1>14. Match(images, envelopes, new, cnew, rnew)
    BY <1>1, <1>5, <1>8, <1>9, <1>10, <1>11, <1>13 DEF Match
<1> QED
    BY <1>1, <1>2, <1>3, <1>4, <1>11, <1>12, <1>14, FollowsReplaced

LEMMA FollowsDeleteLayer ==
    ASSUME Follows, NEW s, OnDeleteLayer(s)
    PROVE  Follows'
<1> DEFINE g == s[1]
           l == s[2]
           rowS == RemoveAt(groups[g], l)
           rowC == RemoveAt(cgroups[g], l)
           rowR == RemoveAt(rgroups[g], l)
<1>1. /\ DeleteLayer(s) /\ s \in Spots
      /\ groups' = [groups EXCEPT ![g] = rowS] /\ cgroups' = [cgroups EXCEPT ![g] = rowC]
      /\ rgroups' = [rgroups EXCEPT ![g] = rowR]
      /\ UNCHANGED <<images, envelopes, cimages, cenvs, textures>>
    BY DEF OnDeleteLayer, DeleteLayer
<1>2. SoundMap'
    BY <1>1, SoundDelete DEF Follows
<1>3. g \in 1 .. Len(groups) /\ l \in 1 .. Len(groups[g])
    BY <1>1, SameSpots
<1>4. <<groups, cgroups, rgroups>> \in Trees(images, envelopes)
    BY DEF Follows
<1>5. <<groups[g], cgroups[g], rgroups[g]>> \in LayerRows(images, envelopes)
    BY <1>3, <1>4, TreeRow
<1>6. <<rowS, rowC, rowR>> \in LayerRows(images, envelopes)
    BY <1>3, <1>5, RowsRemove DEF LayerRows
<1> HIDE DEF rowS, rowC, rowR, g
<1>7. <<groups', cgroups', rgroups'>> \in Trees(images, envelopes)
    BY <1>1, <1>3, <1>4, <1>6, RowInTrees
<1> QED
    BY <1>1, <1>2, <1>7, FollowsEdited

LEMMA FollowsReorderLayer ==
    ASSUME Follows, NEW src, NEW tgt, OnReorderLayer(src, tgt)
    PROVE  Follows'
<1> DEFINE g == src[1]
           h == tgt[1]
           takenS == [groups EXCEPT ![g] = RemoveAt(groups[g], src[2])]
           takenC == [cgroups EXCEPT ![g] = RemoveAt(cgroups[g], src[2])]
           takenR == [rgroups EXCEPT ![g] = RemoveAt(rgroups[g], src[2])]
           rowS == InsertAt(takenS[h], tgt[2], groups[g][src[2]])
           rowC == InsertAt(takenC[h], tgt[2], cgroups[g][src[2]])
           rowR == InsertAt(takenR[h], tgt[2], rgroups[g][src[2]])
<1>1. /\ MoveLayer(src, tgt) /\ src \in Spots /\ h \in DOMAIN groups
      /\ tgt[2] \in 1 .. (Len(groups[h]) + (IF h = g THEN 0 ELSE 1))
      /\ groups' = [takenS EXCEPT ![h] = rowS]
      /\ cgroups' = [takenC EXCEPT ![h] = rowC]
      /\ rgroups' = [takenR EXCEPT ![h] = rowR]
      /\ UNCHANGED <<images, envelopes, cimages, cenvs, textures>>
    BY DEF OnReorderLayer, MoveLayer, Transfer, At
<1>2. SoundMap'
    BY <1>1, SoundMove DEF Follows
<1>3. g \in 1 .. Len(groups) /\ src[2] \in 1 .. Len(groups[g])
    BY <1>1, SameSpots
<1>4. <<groups, cgroups, rgroups>> \in Trees(images, envelopes)
    BY DEF Follows
<1>5. <<groups[g], cgroups[g], rgroups[g]>> \in LayerRows(images, envelopes)
      /\ h \in 1 .. Len(groups) /\ <<groups[h], cgroups[h], rgroups[h]>> \in LayerRows(images, envelopes)
    BY <1>1, <1>3, <1>4, TreeRow
<1>6. <<RemoveAt(groups[g], src[2]), RemoveAt(cgroups[g], src[2]), RemoveAt(rgroups[g], src[2])>>
          \in LayerRows(images, envelopes)
      /\ Len(RemoveAt(groups[g], src[2])) = Len(groups[g]) - 1
    <2>1. groups[g] \in Seq(Layer)
        BY <1>3, <1>4, TreeRow
    <2> QED
        BY <1>3, <1>5, <2>1, RowsRemove, RemovedFrom DEF LayerRows
<1>7. <<groups[g][src[2]], cgroups[g][src[2]], rgroups[g][src[2]]>> \in Matching(images, envelopes)
      /\ groups[g][src[2]] \in Layer /\ cgroups[g][src[2]] \in ClientLayer
      /\ rgroups[g][src[2]] \in DrawnLayer
    BY <1>3, <1>5, RowLayer, Matches
<1>8. /\ <<takenS, takenC, takenR>> \in Trees(images, envelopes)
      /\ Len(takenS) = Len(groups)
      /\ takenS[h] = IF h = g THEN RemoveAt(groups[g], src[2]) ELSE groups[h]
    <2> DEFINE x == RemoveAt(groups[g], src[2])
               y == RemoveAt(cgroups[g], src[2])
               z == RemoveAt(rgroups[g], src[2])
    <2>0. <<x, y, z>> \in LayerRows(images, envelopes)
        BY <1>6
    <2> HIDE DEF x, y, z
    <2>1. <<[groups EXCEPT ![g] = x], [cgroups EXCEPT ![g] = y], [rgroups EXCEPT ![g] = z]>>
              \in Trees(images, envelopes)
        BY <1>3, <1>4, <2>0, RowInTrees
    <2>2. groups \in Seq(Seq(Layer)) /\ x \in Seq(Layer)
        BY <1>4, <2>0, InRows DEF Trees, LayerRows
    <2>3. Len([groups EXCEPT ![g] = x]) = Len(groups)
          /\ [groups EXCEPT ![g] = x][h] = IF h = g THEN x ELSE groups[h]
        BY <1>3, <1>5, <2>2, ExceptSeq
    <2> QED
        BY <2>1, <2>3 DEF x, y, z
<1> HIDE DEF takenS, takenC, takenR
<1>9. <<takenS[h], takenC[h], takenR[h]>> \in LayerRows(images, envelopes) /\ h \in 1 .. Len(takenS)
    BY <1>5, <1>8, TreeRow
<1>10. tgt[2] \in 1 .. Len(takenS[h]) + 1
    <2>1. Len(groups[g]) \in Nat /\ Len(groups[h]) \in Nat
        BY <1>5, RowLayer
    <2>2. CASE h = g
        <3>1. Len(takenS[h]) + 1 = Len(groups[h])
            BY <1>6, <1>8, <2>1, <2>2
        <3> QED
            BY <1>1, <2>1, <2>2, <3>1
    <2>3. CASE h # g
        BY <1>1, <1>8, <2>1, <2>3
    <2> QED
        BY <2>2, <2>3
<1>11. <<rowS, rowC, rowR>> \in LayerRows(images, envelopes)
    BY <1>7, <1>9, <1>10, RowsInsert DEF LayerRows
<1> HIDE DEF rowS, rowC, rowR, g, h
<1>12. <<groups', cgroups', rgroups'>> \in Trees(images, envelopes)
    BY <1>1, <1>8, <1>9, <1>11, RowInTrees
<1> QED
    BY <1>1, <1>2, <1>12, FollowsEdited

-----------------------------------------------------------------------------
(* Quads *)

LEMMA DrawnWrittenBack ==
    ASSUME Follows, NEW s \in Spots
    PROVE  [rgroups EXCEPT ![s[1]][s[2]] = rgroups[s[1]][s[2]]] = rgroups
<1> DEFINE g == s[1]
           row == rgroups[g]
<1>1. <<groups, cgroups, rgroups>> \in Trees(images, envelopes)
      /\ g \in 1 .. Len(groups) /\ s[2] \in 1 .. Len(groups[g])
    BY SameSpots DEF Follows
<1>2. rgroups \in Seq(Seq(DrawnLayer))
    BY <1>1, InRows DEF Trees
<1>3. Len(rgroups) = Len(groups) /\ row \in Seq(DrawnLayer)
      /\ <<groups[g], cgroups[g], row>> \in LayerRows(images, envelopes)
    BY <1>1, TreeRow
<1>4. s[2] \in 1 .. Len(row)
    BY <1>1, <1>3, RowLayer
<1>5. [row EXCEPT ![s[2]] = row[s[2]]] = row
    BY <1>3, <1>4, WrittenBack
<1>6. [rgroups EXCEPT ![g] = row] = rgroups
    BY <1>1, <1>2, <1>3, WrittenBack
<1> QED
    BY <1>5, <1>6

LEMMA FollowsQuads ==
    ASSUME Follows, SoundMap', NEW s \in QuadSpots, NEW qs \in Seq(Quad), NEW cqs \in Seq(ClientQuad),
           EditedQuads(s, qs), WithQuads(s, cqs), Len(cqs) = Len(qs),
           \A q \in 1 .. Len(qs) :
               /\ cqs[q].pos = Ref(envelopes, qs[q].pos)
               /\ cqs[q].color = Ref(envelopes, qs[q].color)
    PROVE  Follows'
<1> DEFINE old == At(s)
           c == cgroups[s[1]][s[2]]
           r == rgroups[s[1]][s[2]]
           new == [old EXCEPT !.quads = qs]
           cnew == [c EXCEPT !.quads = cqs]
<1>1. /\ s \in Spots /\ old.kind = "quads" /\ UNCHANGED <<images, envelopes>>
      /\ groups' = [groups EXCEPT ![s[1]][s[2]] = new]
    BY DEF EditedQuads, QuadSpots, At
<1>2. EditLayers([cgroups EXCEPT ![s[1]][s[2]] = cnew], rgroups)
    BY DEF WithQuads
<1>3. [rgroups EXCEPT ![s[1]][s[2]] = r] = rgroups
    BY <1>1, DrawnWrittenBack
<1>4. old \in Sound /\ c \in ClientLayer /\ r \in DrawnLayer /\ Match(images, envelopes, old, c, r)
    BY <1>1, SameSpots
<1> HIDE DEF old, c, r
<1>5. old \in SoundQuads /\ c \in ClientQuads
    BY <1>1, <1>4, SoundKinds, ClientKinds DEF Match
<1>6. new.kind = "quads" /\ new.image = old.image /\ new.quads = qs
    BY <1>1, <1>5 DEF SoundQuads
<1>7. new \in Layer
    <2>1. old.image \in Nat
        BY <1>5, RefsAreNat DEF Follows, SoundQuads
    <2>2. new = [kind |-> "quads", image |-> old.image, quads |-> qs]
        BY <1>5 DEF SoundQuads
    <2> HIDE DEF new
    <2> QED
        BY <2>1, <2>2 DEF Layer
<1>8. cnew \in ClientQuads /\ cnew.kind = "quads" /\ cnew.id = c.id /\ cnew.image = c.image /\ cnew.quads = cqs
    BY <1>5 DEF ClientQuads
<1> HIDE DEF new, cnew
<1>9. cnew \in ClientLayer
    BY <1>8 DEF ClientLayer
<1>10. ~ IsPhysics(new)
    BY <1>6, Kinds DEF IsPhysics
<1>11. Match(images, envelopes, new, cnew, r)
    BY <1>1, <1>4, <1>6, <1>8, <1>10 DEF Match, HasImage
<1> QED
    BY <1>1, <1>2, <1>3, <1>4, <1>7, <1>9, <1>11, FollowsReplaced

(* The quads of a layer, on both sides. *)
LEMMA QuadsAt ==
    ASSUME Follows, NEW s \in QuadSpots
    PROVE  LET qs == At(s).quads
               cqs == CQuads(s)
           IN  /\ qs \in Seq(Quad) /\ cqs \in Seq(ClientQuad) /\ Len(cqs) = Len(qs)
               /\ Len(qs) \in Nat /\ DOMAIN qs = 1 .. Len(qs)
               /\ \A q \in 1 .. Len(qs) :
                     /\ cqs[q].pos = Ref(envelopes, qs[q].pos)
                     /\ cqs[q].color = Ref(envelopes, qs[q].color)
<1> DEFINE s0 == At(s)
           c == cgroups[s[1]][s[2]]
           r == rgroups[s[1]][s[2]]
<1>1. /\ s0.kind = "quads" /\ s0 \in Sound /\ c \in ClientLayer
      /\ Match(images, envelopes, s0, c, r)
    BY SameSpots DEF QuadSpots
<1>2. CQuads(s) = c.quads
    BY DEF CQuads
<1> HIDE DEF s0, c, r
<1>3. s0 \in Layer /\ s0 \in SoundQuads /\ c \in ClientQuads
    BY <1>1, SoundIsLayer, SoundKinds, ClientKinds DEF Follows, Match
<1>4. s0.quads \in Seq(Quad)
    BY <1>1, <1>3, Kinds DEF Layer
<1>5. c.quads \in Seq(ClientQuad)
    BY <1>3 DEF ClientQuads
<1>6. Len(s0.quads) \in Nat /\ DOMAIN s0.quads = 1 .. Len(s0.quads)
    BY <1>4, Listed
<1>7. /\ Len(c.quads) = Len(s0.quads)
      /\ \A q \in 1 .. Len(s0.quads) :
            /\ c.quads[q].pos = Ref(envelopes, s0.quads[q].pos)
            /\ c.quads[q].color = Ref(envelopes, s0.quads[q].color)
    BY <1>1 DEF Match
<1> QED
    BY <1>2, <1>4, <1>5, <1>6, <1>7 DEF s0

LEMMA SoundQuadChange ==
    ASSUME SoundMap,
           \/ \E s \in Positions, p \in PositionRefs, c \in ColorRefs : PutQuad(s, p, c)
           \/ \E s \in Positions, q \in 1 .. MaxQuads, p \in PositionRefs, c \in ColorRefs :
                  EditQuad(s, q, p, c)
           \/ \E s \in Positions, q \in 1 .. MaxQuads : DeleteQuad(s, q)
    PROVE  SoundMap'
BY SoundQuadStep DEF QuadStep

LEMMA FollowsCreateQuad ==
    ASSUME Follows, NEW s \in Positions, NEW p \in PositionRefs, NEW c \in ColorRefs, OnCreateQuad(s, p, c)
    PROVE  Follows'
<1> DEFINE qs == At(s).quads
           cqs == CQuads(s)
           q == [pos |-> p, color |-> c]
           cq == [pos |-> EnvAt(p), color |-> EnvAt(c)]
           newQs == Append(qs, q)
           newCs == Append(cqs, cq)
<1>1. PutQuad(s, p, c) /\ s \in QuadSpots /\ EditedQuads(s, newQs) /\ WithQuads(s, newCs)
    BY DEF OnCreateQuad, PutQuad
<1>2. SoundMap'
    BY <1>1, SoundQuadChange DEF Follows
<1>3. /\ p \in 0 .. Len(envelopes) /\ c \in 0 .. Len(envelopes) /\ p \in Nat /\ c \in Nat
    BY RefsAreNat DEF Follows
<1>4. /\ EnvAt(p) = Ref(envelopes, p) /\ EnvAt(p) \in Envs \cup {Nothing}
      /\ EnvAt(c) = Ref(envelopes, c) /\ EnvAt(c) \in Envs \cup {Nothing}
    BY <1>3, Referred
<1>5. q \in Quad /\ cq \in ClientQuad /\ cq.pos = Ref(envelopes, q.pos) /\ cq.color = Ref(envelopes, q.color)
    BY <1>3, <1>4 DEF Quad, ClientQuad
<1>6. /\ qs \in Seq(Quad) /\ cqs \in Seq(ClientQuad) /\ Len(cqs) = Len(qs) /\ Len(qs) \in Nat
      /\ \A k \in 1 .. Len(qs) :
            cqs[k].pos = Ref(envelopes, qs[k].pos) /\ cqs[k].color = Ref(envelopes, qs[k].color)
    BY <1>1, QuadsAt
<1> HIDE DEF qs, cqs, q, cq
<1>7. /\ newQs \in Seq(Quad) /\ Len(newQs) = Len(qs) + 1 /\ newQs[Len(qs) + 1] = q
      /\ \A k \in 1 .. Len(qs) : newQs[k] = qs[k]
    BY <1>5, <1>6, AppendProperties
<1>8. /\ newCs \in Seq(ClientQuad) /\ Len(newCs) = Len(cqs) + 1 /\ newCs[Len(cqs) + 1] = cq
      /\ \A k \in 1 .. Len(cqs) : newCs[k] = cqs[k]
    <2>1. cqs \in Seq(ClientQuad) /\ Len(cqs) \in Nat
        BY <1>6
    <2> QED
        BY <1>5, <2>1, AppendProperties
<1> HIDE DEF newQs, newCs
<1>9. \A k \in 1 .. Len(newQs) :
          newCs[k].pos = Ref(envelopes, newQs[k].pos) /\ newCs[k].color = Ref(envelopes, newQs[k].color)
    BY <1>5, <1>6, <1>7, <1>8
<1> QED
    BY <1>1, <1>2, <1>6, <1>7, <1>8, <1>9, FollowsQuads

LEMMA FollowsDeleteQuad ==
    ASSUME Follows, NEW s \in Positions, NEW q \in 1 .. MaxQuads, OnDeleteQuad(s, q)
    PROVE  Follows'
<1> DEFINE qs == At(s).quads
           cqs == CQuads(s)
           newQs == RemoveAt(qs, q)
           newCs == RemoveAt(cqs, q)
<1>1. /\ DeleteQuad(s, q) /\ s \in QuadSpots /\ EditedQuads(s, newQs) /\ WithQuads(s, newCs)
      /\ q \in DOMAIN qs
    BY DEF OnDeleteQuad, DeleteQuad
<1>2. SoundMap'
    BY <1>1, SoundQuadChange DEF Follows
<1>3. /\ qs \in Seq(Quad) /\ cqs \in Seq(ClientQuad) /\ Len(cqs) = Len(qs) /\ Len(qs) \in Nat
      /\ DOMAIN qs = 1 .. Len(qs)
      /\ \A k \in 1 .. Len(qs) :
            cqs[k].pos = Ref(envelopes, qs[k].pos) /\ cqs[k].color = Ref(envelopes, qs[k].color)
    BY <1>1, QuadsAt
<1>4. q \in 1 .. Len(qs) /\ q \in 1 .. Len(cqs) /\ Len(cqs) \in Nat
    BY <1>1, <1>3
<1> HIDE DEF qs, cqs
<1>5. /\ newQs \in Seq(Quad) /\ Len(newQs) = Len(qs) - 1
      /\ \A k \in 1 .. Len(qs) - 1 : newQs[k] = IF k < q THEN qs[k] ELSE qs[k + 1]
    BY <1>3, <1>4, RemovedFrom
<1>6. /\ newCs \in Seq(ClientQuad) /\ Len(newCs) = Len(cqs) - 1
      /\ \A k \in 1 .. Len(cqs) - 1 : newCs[k] = IF k < q THEN cqs[k] ELSE cqs[k + 1]
    BY <1>3, <1>4, RemovedFrom
<1> HIDE DEF newQs, newCs
<1>7. ASSUME NEW k \in 1 .. Len(newQs)
      PROVE  newCs[k].pos = Ref(envelopes, newQs[k].pos) /\ newCs[k].color = Ref(envelopes, newQs[k].color)
    <2>1. k \in 1 .. Len(qs) /\ k + 1 \in 1 .. Len(qs) /\ k \in 1 .. Len(qs) - 1 /\ k \in 1 .. Len(cqs) - 1
        BY <1>3, <1>5
    <2>2. CASE k < q
        BY <1>3, <1>5, <1>6, <2>1, <2>2
    <2>3. CASE ~ (k < q)
        BY <1>3, <1>5, <1>6, <2>1, <2>3
    <2> QED
        BY <2>2, <2>3
<1>8. Len(newCs) = Len(newQs)
    BY <1>3, <1>5, <1>6
<1> QED
    BY <1>1, <1>2, <1>5, <1>6, <1>7, <1>8, FollowsQuads

(* A quad that keeps its envelopes stays as it is. *)
LEMMA FollowsEditQuad ==
    ASSUME Followable, Follows, NEW s \in Positions, NEW q \in 1 .. MaxQuads,
           NEW p \in PositionRefs, NEW c \in ColorRefs, OnEditQuad(s, q, p, c)
    PROVE  Follows' /\ UNCHANGED allVars
<1> DEFINE qs == At(s).quads
           g == s[1]
           row == groups[g]
<1>1. /\ EditQuad(s, q, p, c) /\ s \in QuadSpots /\ q \in DOMAIN qs
      /\ [pos |-> p, color |-> c] = qs[q] /\ UNCHANGED client
      /\ EditedQuads(s, [qs EXCEPT ![q] = [pos |-> p, color |-> c]])
    BY DEF OnEditQuad, EditQuad, Followable
<1>2. s \in Spots /\ qs \in Seq(Quad) /\ q \in 1 .. Len(qs)
    BY <1>1, QuadsAt DEF QuadSpots
<1>3. [qs EXCEPT ![q] = qs[q]] = qs
    BY <1>2, WrittenBack
<1>4. EditedQuads(s, qs)
    <2> HIDE DEF qs
    <2> QED
        BY <1>1, <1>3
<1>5. /\ groups' = [groups EXCEPT ![g][s[2]] = [At(s) EXCEPT !.quads = At(s).quads]]
      /\ UNCHANGED <<images, envelopes>>
    BY <1>4 DEF EditedQuads, At
<1>6. [At(s) EXCEPT !.quads = At(s).quads] = At(s)
    <2>1. At(s) \in SoundQuads
        BY <1>1, SpotIn, SoundKinds DEF QuadSpots, Follows
    <2> QED
        BY <2>1 DEF SoundQuads
<1>7. /\ groups \in Seq(Seq(Sound)) /\ row \in Seq(Sound) /\ At(s) = row[s[2]]
      /\ g \in 1 .. Len(groups) /\ s[2] \in 1 .. Len(row)
    BY <1>2, SpotIn DEF Follows, SoundMap, At
<1>8. groups' = [groups EXCEPT ![g] = [row EXCEPT ![s[2]] = row[s[2]]]]
    BY <1>5, <1>6, <1>7
<1>9. [row EXCEPT ![s[2]] = row[s[2]]] = row
    BY <1>7, WrittenBack
<1>10. [groups EXCEPT ![g] = row] = groups
    BY <1>7, WrittenBack
<1>11. groups' = groups
    BY <1>8, <1>9, <1>10
<1>12. UNCHANGED allVars
    BY <1>1, <1>5, <1>11 DEF allVars, vars
<1>13. SoundMap'
    BY <1>1, SoundQuadChange DEF Follows
<1> QED
    BY <1>12, <1>13 DEF Follows, allVars, vars, client, objects, drawn

-----------------------------------------------------------------------------
LEMMA FollowsNext ==
    ASSUME Followable
    PROVE  Follows /\ [ClientNext]_allVars => Follows'
<1>1. CASE UNCHANGED <<vars, objects, drawn>>
    <2>1. SoundMap => SoundMap'
        BY <1>1 DEF vars, SoundMap, Sound, Physical, SoundTiles, SoundQuads, SoundQuad,
                    TileImageRefs, ImageRefs, ColorRefs, PositionRefs
    <2> QED
        BY <1>1, <2>1 DEF Follows, vars, objects, drawn
<1>2. ASSUME Follows, Followed PROVE Follows'
    <2>1. Resizes \cup {<<0, 0>>} \subseteq Nat \X Nat
        BY ResizeAssumption
    <2> QED
        BY <1>2, <2>1, FollowsCreateImage, FollowsDeleteImage, FollowsCreateEnvelope,
           FollowsDeleteEnvelope, FollowsCreateGroup, FollowsDeleteGroup, FollowsReorderGroup,
           FollowsCreatePhysics, FollowsCreateTiles, FollowsCreateQuads, FollowsEditPhysics,
           FollowsEditTiles, FollowsEditQuads, FollowsDeleteLayer, FollowsReorderLayer,
           FollowsCreateQuad, FollowsEditQuad, FollowsDeleteQuad
           DEF Followed
<1>3. ASSUME NEW g, NEW l, NEW shift, Select(g, l, shift) PROVE UNCHANGED <<vars, objects, drawn>>
    BY <1>3 DEF Select
<1> QED
    BY <1>1, <1>2, <1>3 DEF ClientNext, allVars, client

-----------------------------------------------------------------------------
(* Trees that go in step are the same map, and drawn as it is *)

LEMMA PositionOf ==
    ASSUME NEW S, NEW list \in Seq(S), IsInjective(list), Nothing \notin S, NEW i \in 0 .. Len(list)
    PROVE  /\ Position(list, Ref(list, i)) = i
           /\ Known(list, Ref(list, i))
           /\ Ref(list, i) = Nothing <=> i = None
           /\ \A k \in 1 .. Len(list) : Ref(list, i) = list[k] <=> i = k
<1>1. Len(list) \in Nat /\ DOMAIN list = 1 .. Len(list) /\ \A k \in 1 .. Len(list) : list[k] \in S
    BY Listed
<1>2. CASE i = 0
    BY <1>1, <1>2 DEF Position, Known, Ref, None
<1>3. CASE i \in 1 .. Len(list)
    <2>1. Ref(list, i) = list[i] /\ list[i] # Nothing
        BY <1>1, <1>3 DEF Ref, None
    <2>2. \A k \in DOMAIN list : list[k] = list[i] => k = i
        BY <1>1, <1>3 DEF IsInjective
    <2>3. Position(list, Ref(list, i)) = CHOOSE k \in DOMAIN list : list[k] = list[i]
        BY <2>1 DEF Position
    <2>4. (CHOOSE k \in DOMAIN list : list[k] = list[i]) = i
        BY <1>1, <1>3, <2>2
    <2>5. Known(list, Ref(list, i))
        BY <1>1, <1>3, <2>1 DEF Known, Range
    <2>6. i # None
        BY <1>3 DEF None
    <2> QED
        BY <1>1, <2>1, <2>2, <2>3, <2>4, <2>5, <2>6
<1> QED
    BY <1>1, <1>2, <1>3

LEMMA ImagePosition ==
    ASSUME Follows, NEW i \in 0 .. Len(images)
    PROVE  /\ Position(cimages, Ref(images, i)) = i
           /\ Known(cimages, Ref(images, i))
           /\ Ref(images, i) = Nothing <=> i = None
           /\ \A k \in 1 .. Len(images) : Ref(images, i) = cimages[k] <=> i = k
<1>1. images \in Seq(Images) /\ IsInjective(images) /\ Nothing \notin Images /\ cimages = images
    BY ObjectAssumption DEF Follows, SoundMap
<1> QED
    BY <1>1, PositionOf

LEMMA EnvPosition ==
    ASSUME Follows, NEW e \in 0 .. Len(envelopes)
    PROVE  /\ Position(cenvs, Ref(envelopes, e)) = e
           /\ Known(cenvs, Ref(envelopes, e))
           /\ Ref(envelopes, e) = Nothing <=> e = None
           /\ \A k \in 1 .. Len(envelopes) : Ref(envelopes, e) = cenvs[k] <=> e = k
<1>1. envelopes \in Seq(Envs) /\ IsInjective(envelopes) /\ Nothing \notin Envs /\ cenvs = envelopes
    BY ObjectAssumption DEF Follows, SoundMap
<1> QED
    BY <1>1, PositionOf

(* What the client's layer at s is, in words of the server's. *)
LEMMA LayerIs ==
    ASSUME Follows, NEW s \in Spots
    PROVE  LET x == At(s)
               c == cgroups[s[1]][s[2]]
               r == rgroups[s[1]][s[2]]
           IN  /\ x \in Sound /\ x \in Layer /\ c \in ClientLayer
               /\ Match(images, envelopes, x, c, r)
               /\ IsPhysics(x) <=> IsPhysics(c)
               /\ HasImage(x) <=> HasImage(c)
               /\ HasImage(x) => x.image \in 0 .. Len(images)
               /\ x.kind = "tiles" => x.env \in 0 .. Len(envelopes)
               /\ x.kind = "quads" =>
                    /\ x.quads \in Seq(Quad) /\ DOMAIN x.quads = 1 .. Len(x.quads)
                    /\ DOMAIN c.quads = DOMAIN x.quads
                    /\ \A q \in DOMAIN x.quads :
                          /\ x.quads[q].pos \in 0 .. Len(envelopes)
                          /\ x.quads[q].color \in 0 .. Len(envelopes)
                          /\ c.quads[q].pos = Ref(envelopes, x.quads[q].pos)
                          /\ c.quads[q].color = Ref(envelopes, x.quads[q].color)
<1> DEFINE x == At(s)
           c == cgroups[s[1]][s[2]]
           r == rgroups[s[1]][s[2]]
<1>1. /\ x \in Sound /\ x \in Layer /\ c \in ClientLayer /\ Match(images, envelopes, x, c, r)
    BY SameSpots, SoundIsLayer DEF Follows
<1>2. /\ HasImage(x) => x.image \in 0 .. Len(images)
      /\ x.kind = "tiles" => x.env \in 0 .. Len(envelopes)
      /\ x.kind = "quads" => \A q \in DOMAIN x.quads :
            x.quads[q].pos \in 0 .. Len(envelopes) /\ x.quads[q].color \in 0 .. Len(envelopes)
    BY ReferencesOf DEF Follows
<1>3. ASSUME x.kind = "quads"
      PROVE  /\ x.quads \in Seq(Quad) /\ DOMAIN x.quads = 1 .. Len(x.quads)
             /\ DOMAIN c.quads = DOMAIN x.quads
             /\ \A q \in DOMAIN x.quads :
                   /\ c.quads[q].pos = Ref(envelopes, x.quads[q].pos)
                   /\ c.quads[q].color = Ref(envelopes, x.quads[q].color)
    <2>1. s \in QuadSpots /\ CQuads(s) = c.quads
        BY <1>3 DEF QuadSpots, CQuads
    <2>2. /\ x.quads \in Seq(Quad) /\ c.quads \in Seq(ClientQuad) /\ Len(c.quads) = Len(x.quads)
          /\ DOMAIN x.quads = 1 .. Len(x.quads)
          /\ \A q \in 1 .. Len(x.quads) :
                /\ c.quads[q].pos = Ref(envelopes, x.quads[q].pos)
                /\ c.quads[q].color = Ref(envelopes, x.quads[q].color)
        BY <2>1, QuadsAt
    <2>3. DOMAIN c.quads = 1 .. Len(c.quads)
        BY <2>2, Listed
    <2> QED
        BY <2>2, <2>3
<1> HIDE DEF x, c, r
<1>4. /\ IsPhysics(x) <=> IsPhysics(c)
      /\ HasImage(x) <=> HasImage(c)
    BY <1>1 DEF Match, IsPhysics, HasImage
<1> QED
    BY <1>1, <1>2, <1>3, <1>4 DEF x, c, r

LEMMA ServedLayer ==
    ASSUME Follows, NEW s \in Spots
    PROVE  /\ AsServed(cgroups[s[1]][s[2]]) = At(s)
           /\ Resolved(cgroups[s[1]][s[2]])
<1> DEFINE x == At(s)
           c == cgroups[s[1]][s[2]]
           r == rgroups[s[1]][s[2]]
<1>1. /\ x \in Sound /\ x \in Layer /\ c \in ClientLayer
      /\ Match(images, envelopes, x, c, r)
      /\ IsPhysics(x) <=> IsPhysics(c)
      /\ HasImage(x) <=> HasImage(c)
      /\ HasImage(x) => x.image \in 0 .. Len(images)
      /\ x.kind = "tiles" => x.env \in 0 .. Len(envelopes)
      /\ x.kind = "quads" =>
           /\ x.quads \in Seq(Quad) /\ DOMAIN x.quads = 1 .. Len(x.quads)
           /\ DOMAIN c.quads = DOMAIN x.quads
           /\ \A q \in DOMAIN x.quads :
                 /\ x.quads[q].pos \in 0 .. Len(envelopes)
                 /\ x.quads[q].color \in 0 .. Len(envelopes)
                 /\ c.quads[q].pos = Ref(envelopes, x.quads[q].pos)
                 /\ c.quads[q].color = Ref(envelopes, x.quads[q].color)
    BY LayerIs
<1> HIDE DEF x, c, r
<1>2. HasImage(x) => Position(cimages, c.image) = x.image /\ Known(cimages, c.image)
    BY <1>1, ImagePosition DEF Match
<1>3. x.kind = "tiles" => Position(cenvs, c.env) = x.env /\ Known(cenvs, c.env)
    BY <1>1, EnvPosition DEF Match
<1>4. x.kind = "quads" => \A q \in DOMAIN x.quads :
          /\ Position(cenvs, c.quads[q].pos) = x.quads[q].pos /\ Known(cenvs, c.quads[q].pos)
          /\ Position(cenvs, c.quads[q].color) = x.quads[q].color /\ Known(cenvs, c.quads[q].color)
    BY <1>1, EnvPosition
<1>5. c.kind = x.kind
    BY <1>1 DEF Match
<1>6. Resolved(c)
    BY <1>1, <1>2, <1>3, <1>4, <1>5 DEF Resolved
<1>7. ASSUME IsPhysics(x) PROVE AsServed(c) = x
    <2>1. x \in Physical /\ c.w = x.w /\ c.h = x.h
        BY <1>1, <1>7, SoundKinds, Kinds DEF Match, Physical
    <2>2. AsServed(c) = PhysicsLayer(c.kind, c.w, c.h)
        <3>1. IsPhysics(c) /\ c.kind # "tiles" /\ c.kind # "quads"
            BY <1>1, <1>7, Kinds DEF IsPhysics
        <3> QED
            BY <3>1 DEF AsServed
    <2>3. x = [kind |-> x.kind, w |-> x.w, h |-> x.h]
        BY <2>1 DEF Physical
    <2> QED
        BY <1>5, <2>1, <2>2, <2>3 DEF PhysicsLayer
<1>8. ASSUME x.kind = "tiles" PROVE AsServed(c) = x
    <2>1. x \in SoundTiles /\ c.w = x.w /\ c.h = x.h /\ HasImage(x)
        BY <1>1, <1>8, SoundKinds DEF Match, HasImage
    <2>2. AsServed(c) =
            TilesLayer(c.w, c.h, Position(cimages, c.image), Position(cenvs, c.env))
        BY <1>1, <1>5, <1>8, Kinds DEF AsServed, IsPhysics
    <2>3. x = [kind |-> "tiles", w |-> x.w, h |-> x.h, image |-> x.image, env |-> x.env]
        BY <2>1 DEF SoundTiles
    <2> QED
        BY <1>2, <1>3, <1>8, <2>1, <2>2, <2>3 DEF TilesLayer
<1>9. ASSUME x.kind = "quads" PROVE AsServed(c) = x
    <2> DEFINE qs == [q \in DOMAIN c.quads |-> [pos |-> Position(cenvs, c.quads[q].pos),
                                                color |-> Position(cenvs, c.quads[q].color)]]
    <2>1. x \in SoundQuads /\ HasImage(x)
        BY <1>1, <1>9, SoundKinds DEF HasImage
    <2>2. AsServed(c) = QuadsLayer(Position(cimages, c.image), qs)
        BY <1>1, <1>5, <1>9, Kinds DEF AsServed, IsPhysics
    <2>3. qs = x.quads
        <3>1. x.quads \in Seq(Quad) /\ x.quads = [q \in DOMAIN x.quads |-> x.quads[q]]
            BY <1>1, <1>9, SeqDef
        <3>2. \A q \in DOMAIN x.quads : x.quads[q] \in Quad
            BY <3>1, Listed
        <3>3. ASSUME NEW q \in DOMAIN x.quads PROVE qs[q] = x.quads[q]
            <4>1. qs[q] = [pos |-> x.quads[q].pos, color |-> x.quads[q].color]
                BY <1>1, <1>4, <1>9
            <4>2. x.quads[q] = [pos |-> x.quads[q].pos, color |-> x.quads[q].color]
                BY <3>2 DEF Quad
            <4> QED
                BY <4>1, <4>2
        <3>4. qs = [q \in DOMAIN x.quads |-> qs[q]]
            BY <1>1, <1>9
        <3> HIDE DEF qs
        <3> QED
            BY <3>1, <3>3, <3>4
    <2> HIDE DEF qs
    <2>4. x = [kind |-> "quads", image |-> x.image, quads |-> x.quads]
        BY <2>1 DEF SoundQuads
    <2> QED
        BY <1>2, <2>1, <2>2, <2>3, <2>4 DEF QuadsLayer
<1>10. IsPhysics(x) \/ x.kind = "tiles" \/ x.kind = "quads"
    BY <1>1, SoundKinds DEF Sound
<1>11. AsServed(c) = x
    BY <1>7, <1>8, <1>9, <1>10
<1> QED
    BY <1>6, <1>11 DEF x, c

LEMMA FollowsServed == Follows => Served = groups
<1> SUFFICES ASSUME Follows PROVE Served = groups
    OBVIOUS
<1>1. <<groups, cgroups, rgroups>> \in Trees(images, envelopes) /\ groups \in Seq(Seq(Layer))
    BY InRows DEF Follows, Trees
<1>2. DOMAIN groups = 1 .. Len(groups) /\ DOMAIN cgroups = DOMAIN groups
      /\ groups = [g \in DOMAIN groups |-> groups[g]]
    BY <1>1, TreeRow, SeqDef
<1>3. ASSUME NEW g \in DOMAIN groups PROVE Served[g] = groups[g]
    <2>1. groups[g] \in Seq(Layer) /\ <<groups[g], cgroups[g], rgroups[g]>> \in LayerRows(images, envelopes)
        BY <1>1, <1>2, TreeRow
    <2>2. DOMAIN cgroups[g] = DOMAIN groups[g] /\ groups[g] = [l \in DOMAIN groups[g] |-> groups[g][l]]
        BY <2>1, RowLayer, SeqDef
    <2>3. Served[g] = [l \in DOMAIN groups[g] |-> AsServed(cgroups[g][l])]
        BY <1>2, <2>2 DEF Served
    <2>4. ASSUME NEW l \in DOMAIN groups[g] PROVE AsServed(cgroups[g][l]) = groups[g][l]
        <3>1. <<g, l>> \in Spots /\ At(<<g, l>>) = groups[g][l]
            BY InSpots
        <3> QED
            BY <3>1, ServedLayer
    <2> QED
        BY <2>2, <2>3, <2>4
<1>4. Served = [g \in DOMAIN groups |-> Served[g]]
    BY <1>2 DEF Served
<1> QED
    BY <1>2, <1>3, <1>4

LEMMA SameImageUse ==
    ASSUME Follows, NEW i \in DOMAIN images
    PROVE  CImageInUse(i) <=> ImageInUse(i)
<1>1. i \in 1 .. Len(images) /\ CSpots(cgroups) = Spots
    BY SameSpots, Listed DEF Follows, SoundMap
<1>2. ASSUME NEW s \in Spots
      PROVE  HasImage(cgroups[s[1]][s[2]]) /\ cgroups[s[1]][s[2]].image = cimages[i]
                <=> HasImage(At(s)) /\ At(s).image = i
    <2> DEFINE x == At(s)
               c == cgroups[s[1]][s[2]]
    <2>1. /\ HasImage(x) <=> HasImage(c)
          /\ HasImage(x) => x.image \in 0 .. Len(images) /\ c.image = Ref(images, x.image)
        BY LayerIs DEF Match
    <2> HIDE DEF x, c
    <2>2. HasImage(x) => (c.image = cimages[i] <=> x.image = i)
        BY <1>1, <2>1, ImagePosition
    <2>3. HasImage(c) /\ c.image = cimages[i] <=> HasImage(x) /\ x.image = i
        BY <2>1, <2>2
    <2> QED
        BY <2>3 DEF x, c
<1> QED
    BY <1>1, <1>2 DEF CImageInUse, ImageInUse

LEMMA SameEnvUse ==
    ASSUME Follows, NEW e \in DOMAIN envelopes
    PROVE  CEnvInUse(e) <=> EnvInUse(e)
<1> DEFINE CUses(c) ==
               \/ c.kind = "tiles" /\ c.env = cenvs[e]
               \/ c.kind = "quads" /\ \E q \in DOMAIN c.quads :
                      cenvs[e] \in {c.quads[q].pos, c.quads[q].color}
           Uses(x) ==
               \/ x.kind = "tiles" /\ x.env = e
               \/ x.kind = "quads" /\ \E q \in DOMAIN x.quads :
                      x.quads[q].pos = e \/ x.quads[q].color = e
<1>1. e \in 1 .. Len(envelopes) /\ CSpots(cgroups) = Spots
    BY SameSpots, Listed DEF Follows, SoundMap
<1>2. ASSUME NEW s \in Spots PROVE CUses(cgroups[s[1]][s[2]]) <=> Uses(At(s))
    <2> DEFINE x == At(s)
               c == cgroups[s[1]][s[2]]
    <2>1. /\ c.kind = x.kind
          /\ x.kind = "tiles" => x.env \in 0 .. Len(envelopes) /\ c.env = Ref(envelopes, x.env)
          /\ x.kind = "quads" =>
                /\ DOMAIN c.quads = DOMAIN x.quads
                /\ \A q \in DOMAIN x.quads :
                      /\ x.quads[q].pos \in 0 .. Len(envelopes)
                      /\ x.quads[q].color \in 0 .. Len(envelopes)
                      /\ c.quads[q].pos = Ref(envelopes, x.quads[q].pos)
                      /\ c.quads[q].color = Ref(envelopes, x.quads[q].color)
        BY LayerIs DEF Match
    <2> HIDE DEF x, c
    <2>2. \A k \in 0 .. Len(envelopes) : Ref(envelopes, k) = cenvs[e] <=> k = e
        BY <1>1, EnvPosition
    <2>3. x.kind = "tiles" => (c.env = cenvs[e] <=> x.env = e)
        BY <2>1, <2>2
    <2>4. x.kind = "quads" => \A q \in DOMAIN x.quads :
              cenvs[e] \in {c.quads[q].pos, c.quads[q].color}
                <=> x.quads[q].pos = e \/ x.quads[q].color = e
        BY <2>1, <2>2
    <2>5. CUses(c) <=> Uses(x)
        BY <2>1, <2>3, <2>4
    <2> QED
        BY <2>5 DEF x, c
<1>3. CEnvInUse(e) <=> \E s \in Spots : CUses(cgroups[s[1]][s[2]])
    BY <1>1 DEF CEnvInUse
<1>4. EnvInUse(e) <=> \E s \in Spots : Uses(At(s))
    BY DEF EnvInUse
<1> HIDE DEF CUses, Uses
<1> QED
    BY <1>2, <1>3, <1>4

LEMMA FollowsSame == Follows => SameMap
<1> SUFFICES ASSUME Follows PROVE SameMap
    OBVIOUS
<1>1. ClientTypeOK
    BY SoundTypes DEF ClientTypeOK, Follows, SoundMap
<1>2. \A s \in CSpots(cgroups) : Resolved(cgroups[s[1]][s[2]])
    BY SameSpots, ServedLayer
<1> QED
    BY <1>1, <1>2, FollowsServed, SameImageUse, SameEnvUse DEF SameMap, Follows

LEMMA FollowsDrawn == Follows => DrawnIsMap
<1> SUFFICES ASSUME Follows PROVE DrawnIsMap
    OBVIOUS
<1>1. <<groups, cgroups, rgroups>> \in Trees(images, envelopes)
    BY DEF Follows
<1>2. /\ Len(cgroups) = Len(groups) /\ Len(rgroups) = Len(groups)
      /\ DOMAIN cgroups = 1 .. Len(groups) /\ DOMAIN groups = 1 .. Len(groups)
    BY <1>1, TreeRow
<1>3. ASSUME NEW g \in DOMAIN cgroups
      PROVE  /\ Len(rgroups[g]) = Len(cgroups[g])
             /\ \A l \in DOMAIN cgroups[g] :
                   /\ rgroups[g][l].id = cgroups[g][l].id
                   /\ rgroups[g][l].texture \in TextureOf(cgroups[g][l])
    <2>1. <<groups[g], cgroups[g], rgroups[g]>> \in LayerRows(images, envelopes)
        BY <1>1, <1>2, TreeRow
    <2>2. /\ Len(cgroups[g]) = Len(groups[g]) /\ Len(rgroups[g]) = Len(groups[g])
          /\ DOMAIN cgroups[g] = 1 .. Len(groups[g]) /\ DOMAIN groups[g] = 1 .. Len(groups[g])
        BY <2>1, RowLayer
    <2>3. ASSUME NEW l \in DOMAIN cgroups[g]
          PROVE  /\ rgroups[g][l].id = cgroups[g][l].id
                 /\ rgroups[g][l].texture \in TextureOf(cgroups[g][l])
        <3> DEFINE x == groups[g][l]
                   c == cgroups[g][l]
                   r == rgroups[g][l]
        <3>1. <<g, l>> \in Spots /\ At(<<g, l>>) = x
            BY <1>2, <2>2, InSpots
        <3>2. /\ x \in Sound /\ Match(images, envelopes, x, c, r)
              /\ IsPhysics(x) <=> IsPhysics(c)
              /\ HasImage(x) => x.image \in 0 .. Len(images)
            BY <3>1, LayerIs
        <3> HIDE DEF x, c, r
        <3>3. HasImage(x) => (c.image = Nothing <=> x.image = None)
            BY <3>2, ImagePosition DEF Match
        <3>4. HasImage(x) /\ x.image # None => c.image = images[x.image]
            BY <3>2 DEF Match, Ref
        <3>5. IsPhysics(x) \/ x.kind = "tiles" \/ x.kind = "quads"
            BY <3>2, SoundKinds DEF Sound
        <3>6. c.kind = x.kind /\ r.id = c.id
            BY <3>2 DEF Match
        <3>7. ASSUME IsPhysics(x) PROVE r.texture \in TextureOf(c)
            <4>1. IsPhysics(c) /\ c.kind # "tiles" /\ c.kind # "quads"
                BY <3>2, <3>7, Kinds DEF IsPhysics
            <4>2. TextureOf(c) = {Own}
                BY <4>1 DEF TextureOf
            <4> QED
                BY <3>2, <3>7, <4>2 DEF Match
        <3>8. ASSUME x.kind = "tiles" PROVE r.texture \in TextureOf(c)
            <4>1. TextureOf(c) = {IF c.image = Nothing THEN Blank ELSE c.image}
                BY <3>6, <3>8, Kinds DEF TextureOf, IsPhysics
            <4> QED
                BY <3>2, <3>3, <3>4, <3>8, <4>1 DEF Match, HasImage
        <3>9. ASSUME x.kind = "quads" PROVE r.texture \in TextureOf(c)
            <4>1. TextureOf(c) = IF c.image = Nothing THEN {Nothing, Blank} ELSE {c.image}
                BY <3>6, <3>9, Kinds DEF TextureOf, IsPhysics
            <4> QED
                BY <3>2, <3>3, <3>4, <3>9, <4>1 DEF Match, HasImage
        <3>10. r.id = c.id /\ r.texture \in TextureOf(c)
            BY <3>5, <3>6, <3>7, <3>8, <3>9
        <3> QED
            BY <3>10 DEF r, c
    <2> QED
        BY <2>2, <2>3
<1> QED
    BY <1>2, <1>3 DEF DrawnIsMap, Follows

(* Whatever is created, edited, moved and deleted on the server, the client's
   map, whose references nobody repairs, stays the server's, and it agrees with
   the server on what may be deleted. *)
THEOREM ClientHasTheMap ==
    ASSUME Followable
    PROVE  ClientSpec => []SameMap
<1>1. Follows /\ [ClientNext]_allVars => Follows'
    BY FollowsNext
<1> QED
    BY <1>1, FollowsInit, FollowsSame, PTL DEF ClientSpec

(* ... and what it draws is that map, each layer with its image's texture. *)
THEOREM ClientDrawsTheMap ==
    ASSUME Followable
    PROVE  ClientSpec => []DrawnIsMap
<1>1. Follows /\ [ClientNext]_allVars => Follows'
    BY FollowsNext
<1> QED
    BY <1>1, FollowsInit, FollowsDrawn, PTL DEF ClientSpec

=============================================================================
