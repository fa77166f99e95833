------------------------------ MODULE ClientMap ------------------------------
(***************************************************************************)
(* The map a client keeps beside the server's (twmap/map.ts and            *)
(* gl/renderMap.ts), and what the handlers of mapEditor.svelte make of the *)
(* operations the server relays.  The server names images, envelopes,      *)
(* groups and layers by position, and repairs its references when          *)
(* positions shift.  The client refers to the objects themselves, which    *)
(* need no repair, and keeps a second tree of what it draws, with the      *)
(* texture of each layer, beside the map.                                  *)
(*                                                                         *)
(* Every action is an operation the server accepts, as MapDoc has it,      *)
(* together with the client's handling of it: Collab is about the order in *)
(* which they arrive.  Images and envelopes are their own objects here,    *)
(* and layers have an identity.                                            *)
(***************************************************************************)
EXTENDS MapDoc

CONSTANTS
    EnvEdits,       \* TRUE when the envelopes of a quad are edited too
    MaxPictures,    \* how many tiles and quads layers there may be
    MaxSelected     \* how many layers may be selected together

ASSUME EditAssumption ==
    EnvEdits \in BOOLEAN /\ MaxPictures \in Nat /\ MaxSelected \in Nat \ {0} /\ 0 < MaxLayers

VARIABLES
    cimages, cenvs, \* Map.images and Map.envelopes
    cgroups,        \* Map.groups: each is the sequence of its layers
    textures,       \* RenderMap.textures, by their images
    rgroups,        \* RenderMap.groups: the identity and texture of each layer
    selected        \* $selected: groups and layers (0 for none), the active one last

objects == <<cimages, cenvs, cgroups>>
drawn == <<textures, rgroups>>
client == <<objects, drawn, selected>>
allVars == <<vars, client>>

Nothing == "null"
Blank == "blank"
Own == "own"    \* the texture of a kind of physics layer

ASSUME ObjectAssumption == Nothing \notin Images \cup Envs

-----------------------------------------------------------------------------
(* Reading the client's map *)

ImageAt(i) == IF i = None THEN Nothing ELSE cimages[i]
EnvAt(e) == IF e = None THEN Nothing ELSE cenvs[e]

CSpots(gs) == UNION {{g} \X DOMAIN gs[g] : g \in DOMAIN gs}
LayerIds == {cgroups[s[1]][s[2]].id : s \in CSpots(cgroups)}
NewId == CHOOSE id \in 1 .. MaxLayers :
             id \notin LayerIds /\ \A k \in 1 .. (id - 1) : k \in LayerIds

(* Map.layerIndex and Map.physicsLayerIndex(GameLayer) *)
LayerIndex(gs, id) == CHOOSE s \in CSpots(gs) : gs[s[1]][s[2]].id = id
GameIndex(gs) == CHOOSE s \in CSpots(gs) : gs[s[1]][s[2]].kind = "game"

(* Map.imageInUse and Map.envelopeInUse *)
CImageInUse(i) ==
    \E s \in CSpots(cgroups) :
        LET layer == cgroups[s[1]][s[2]] IN HasImage(layer) /\ layer.image = cimages[i]
CEnvInUse(e) ==
    \E s \in CSpots(cgroups) :
        LET layer == cgroups[s[1]][s[2]]
        IN \/ layer.kind = "tiles" /\ layer.env = cenvs[e]
           \/ layer.kind = "quads" /\ \E q \in DOMAIN layer.quads :
                  cenvs[e] \in {layer.quads[q].pos, layer.quads[q].color}

-----------------------------------------------------------------------------
(* The selection: what is active, and how it is found again *)

Active == IF selected = <<>> THEN <<0, 0>> ELSE Last(selected)
ActiveLayer ==
    IF Active[1] \in DOMAIN rgroups /\ Active[2] \in DOMAIN rgroups[Active[1]]
    THEN rgroups[Active[1]][Active[2]].id ELSE 0

(* The handlers of moves find the active layer again, or else the active   *)
(* group, or else they select the game layer; the rest of the selection is *)
(* left as it is.                                                          *)
Reselected(groupIndex) ==
    LET others == IF selected = <<>> THEN <<>> ELSE Front(selected)
        active == IF ActiveLayer # 0 THEN LayerIndex(cgroups', ActiveLayer)
                  ELSE IF Active[1] \in DOMAIN rgroups THEN <<groupIndex[Active[1]], 0>>
                  ELSE GameIndex(cgroups')
    IN Append(others, active)

(* treeView: with shift, within a group, layers are added to the selection. *)
Select(g, l, shift) ==
    /\ g \in DOMAIN rgroups /\ l \in {0} \cup DOMAIN rgroups[g]
    /\ selected' = IF shift /\ g = Active[1]
                   THEN Append(SelectSeq(selected, LAMBDA s : s[2] # 0 /\ s[2] # l), <<g, l>>)
                   ELSE << <<g, l>> >>
    /\ Len(selected') <= MaxSelected
    /\ UNCHANGED <<vars, objects, drawn>>

-----------------------------------------------------------------------------
(* Images and envelopes *)

OnCreateImage(i) ==
    /\ PutImage(i)
    /\ cimages' = Append(cimages, i)
    /\ textures' = Append(textures, i)
    /\ UNCHANGED <<cenvs, cgroups, rgroups, selected>>

(* Mutant of OnDeleteImage: the texture stays. *)
OnDeleteImageOnly(i) ==
    /\ DeleteImage(i)
    /\ cimages' = RemoveAt(cimages, i)
    /\ UNCHANGED <<cenvs, cgroups, drawn, selected>>

OnDeleteImage(i) ==
    /\ DeleteImage(i)
    /\ cimages' = RemoveAt(cimages, i)
    /\ textures' = RemoveAt(textures, i)
    /\ UNCHANGED <<cenvs, cgroups, rgroups, selected>>

OnCreateEnvelope(e) ==
    /\ PutEnvelope(e)
    /\ cenvs' = Append(cenvs, e)
    /\ UNCHANGED <<cimages, cgroups, drawn, selected>>

OnDeleteEnvelope(e) ==
    /\ DeleteEnvelope(e)
    /\ cenvs' = RemoveAt(cenvs, e)
    /\ UNCHANGED <<cimages, cgroups, drawn, selected>>

-----------------------------------------------------------------------------
(* Groups *)

OnCreateGroup ==
    /\ PutGroup
    /\ cgroups' = Append(cgroups, <<>>)
    /\ rgroups' = Append(rgroups, <<>>)
    /\ UNCHANGED <<cimages, cenvs, textures, selected>>

OnDeleteGroup(dg) ==
    /\ DeleteGroup(dg)
    /\ cgroups' = RemoveAt(cgroups, dg)
    /\ rgroups' = RemoveAt(rgroups, dg)
    /\ LET kept == SelectSeq(selected, LAMBDA s : s[1] # dg)
       IN selected' = [k \in DOMAIN kept |->
              IF kept[k][1] > dg THEN <<kept[k][1] - 1, kept[k][2]>> ELSE kept[k]]
    /\ UNCHANGED <<cimages, cenvs, textures>>

OnReorderGroup(src, tgt) ==
    /\ MoveGroup(src, tgt)
    /\ cgroups' = Moved(cgroups, src, tgt)
    /\ rgroups' = Moved(rgroups, src, tgt)
    /\ LET before == Moved([g \in DOMAIN cgroups |-> g], src, tgt)
       IN selected' = Reselected([g \in DOMAIN before |-> CHOOSE k \in DOMAIN before : before[k] = g])
    /\ UNCHANGED <<cimages, cenvs, textures>>

-----------------------------------------------------------------------------
(* Layers *)

(* createLayer: a new layer is as large as the game layer, then edited. *)
AddLayer(g, layer, texture) ==
    /\ cgroups' = [cgroups EXCEPT ![g] = Append(@, layer)]
    /\ rgroups' = [rgroups EXCEPT ![g] = Append(@, [id |-> layer.id, texture |-> texture])]
    /\ UNCHANGED <<cimages, cenvs, textures, selected>>

CGame == LET s == GameIndex(cgroups) IN cgroups[s[1]][s[2]]
Physics(kind) == [id |-> NewId, kind |-> kind, w |-> CGame.w, h |-> CGame.h]
Tiles(i, e) ==
    [id |-> NewId, kind |-> "tiles", w |-> CGame.w, h |-> CGame.h,
     image |-> ImageAt(i), env |-> EnvAt(e)]
Quads(i) == [id |-> NewId, kind |-> "quads", image |-> ImageAt(i), quads |-> <<>>]
TextureAt(i) == IF i = None THEN Blank ELSE textures[i]

OnCreatePhysics(g, kind) ==
    PutPhysics(g, kind) /\ AddLayer(g, Physics(kind), Own)
RoomForPicture == Cardinality({s \in Spots : HasImage(At(s))}) < MaxPictures
OnCreateTiles(g, i, e) ==
    RoomForPicture /\ PutTiles(g, i, e) /\ AddLayer(g, Tiles(i, e), TextureAt(i))
(* A quads layer has no texture until one, or none, is named. *)
OnCreateQuads(g, i, named) ==
    /\ i # None => named
    /\ RoomForPicture /\ PutQuads(g, i)
    /\ AddLayer(g, Quads(i), IF named THEN TextureAt(i) ELSE Nothing)

Accepted(size) == Fits(size[1]) /\ Fits(size[2])
Sized(layer, size) ==
    [layer EXCEPT !.w = Resized(size[1], @), !.h = Resized(size[2], @)]
EditLayers(gs, rgs) ==
    /\ cgroups' = gs /\ rgroups' = rgs
    /\ UNCHANGED <<cimages, cenvs, textures, selected>>

(* Mutant of OnEditPhysics: the layer alone is resized. *)
OnEditPhysicsAlone(s, size) ==
    /\ Accepted(size) /\ EditPhysics(s, size)
    /\ EditLayers([cgroups EXCEPT ![s[1]][s[2]] = Sized(@, size)], rgroups)

(* setLayerWidth and setLayerHeight: all physics layers of the group. *)
OnEditPhysics(s, size) ==
    /\ Accepted(size) /\ EditPhysics(s, size)
    /\ EditLayers([cgroups EXCEPT ![s[1]] = [l \in DOMAIN @ |->
                       IF IsPhysics(@[l]) THEN Sized(@[l], size) ELSE @[l]]],
                  rgroups)

OnEditTiles(s, size, i, e) ==
    /\ Accepted(size) /\ EditTiles(s, size, i, e)
    /\ EditLayers([cgroups EXCEPT ![s[1]][s[2]] =
                       [Sized(@, size) EXCEPT !.image = ImageAt(i), !.env = EnvAt(e)]],
                  [rgroups EXCEPT ![s[1]][s[2]].texture = TextureAt(i)])

OnEditQuads(s, i) ==
    /\ EditQuads(s, i)
    /\ EditLayers([cgroups EXCEPT ![s[1]][s[2]].image = ImageAt(i)],
                  [rgroups EXCEPT ![s[1]][s[2]].texture = TextureAt(i)])

(* A position that shifts is not followed: the selection may come to point *)
(* to the next layer, or past the last.                                    *)
OnDeleteLayer(s) ==
    /\ DeleteLayer(s)
    /\ cgroups' = [cgroups EXCEPT ![s[1]] = RemoveAt(@, s[2])]
    /\ rgroups' = [rgroups EXCEPT ![s[1]] = RemoveAt(@, s[2])]
    /\ selected' = SelectSeq(selected, LAMBDA x : x # s)
    /\ UNCHANGED <<cimages, cenvs, textures>>

Transfer(gs, src, tgt) ==
    LET taken == [gs EXCEPT ![src[1]] = RemoveAt(@, src[2])]
    IN [taken EXCEPT ![tgt[1]] = InsertAt(@, tgt[2], gs[src[1]][src[2]])]

(* Mutant of OnReorderLayer: the selection keeps its positions. *)
OnReorderLayerOnly(src, tgt) ==
    /\ MoveLayer(src, tgt)
    /\ cgroups' = Transfer(cgroups, src, tgt)
    /\ rgroups' = Transfer(rgroups, src, tgt)
    /\ UNCHANGED <<cimages, cenvs, textures, selected>>

OnReorderLayer(src, tgt) ==
    /\ MoveLayer(src, tgt)
    /\ cgroups' = Transfer(cgroups, src, tgt)
    /\ rgroups' = Transfer(rgroups, src, tgt)
    /\ selected' = Reselected([g \in DOMAIN rgroups |-> g])
    /\ UNCHANGED <<cimages, cenvs, textures>>

-----------------------------------------------------------------------------
(* Quads *)

WithQuads(s, quads) ==
    EditLayers([cgroups EXCEPT ![s[1]][s[2]].quads = quads], rgroups)
CQuads(s) == cgroups[s[1]][s[2]].quads

OnCreateQuad(s, p, c) ==
    /\ PutQuad(s, p, c)
    /\ WithQuads(s, Append(CQuads(s), [pos |-> EnvAt(p), color |-> EnvAt(c)]))

(* The envelopes of a quad are looked for under names they do not have in  *)
(* the message, and stay as they are.                                      *)
OnEditQuad(s, q, p, c) ==
    /\ EditQuad(s, q, p, c)
    /\ EnvEdits \/ [pos |-> p, color |-> c] = At(s).quads[q]
    /\ UNCHANGED client

OnDeleteQuad(s, q) ==
    /\ DeleteQuad(s, q)
    /\ WithQuads(s, RemoveAt(CQuads(s), q))

-----------------------------------------------------------------------------
ClientInit ==
    /\ Init
    /\ cimages = <<>> /\ cenvs = <<>> /\ textures = <<>>
    /\ cgroups = << <<[id |-> 1, kind |-> "game", w |-> Smallest, h |-> Smallest]>> >>
    /\ rgroups = << <<[id |-> 1, texture |-> Own]>> >>
    /\ selected = << <<1, 1>> >>

Followed ==
    \/ \E i \in Images : OnCreateImage(i)
    \/ \E i \in 1 .. MaxImages : OnDeleteImage(i)
    \/ \E e \in Envs : OnCreateEnvelope(e)
    \/ \E e \in 1 .. MaxEnvelopes : OnDeleteEnvelope(e)
    \/ OnCreateGroup
    \/ \E g \in 1 .. MaxGroups : OnDeleteGroup(g)
    \/ \E src, tgt \in 1 .. MaxGroups : OnReorderGroup(src, tgt)
    \/ \E g \in 1 .. MaxGroups, kind \in PhysicsKinds : OnCreatePhysics(g, kind)
    \/ \E g \in 1 .. MaxGroups, i \in ImageRefs, e \in ColorRefs : OnCreateTiles(g, i, e)
    \/ \E g \in 1 .. MaxGroups, i \in ImageRefs, named \in BOOLEAN : OnCreateQuads(g, i, named)
    \/ \E s \in Positions, size \in Resizes : OnEditPhysics(s, size)
    \/ \E s \in Positions, size \in Resizes \cup {<<0, 0>>}, i \in ImageRefs, e \in ColorRefs :
           OnEditTiles(s, size, i, e)
    \/ \E s \in Positions, i \in ImageRefs : OnEditQuads(s, i)
    \/ \E s \in Positions : OnDeleteLayer(s)
    \/ \E src, tgt \in Positions : OnReorderLayer(src, tgt)
    \/ \E s \in Positions, p \in PositionRefs, c \in ColorRefs : OnCreateQuad(s, p, c)
    \/ \E s \in Positions, q \in 1 .. MaxQuads, p \in PositionRefs, c \in ColorRefs :
           OnEditQuad(s, q, p, c)
    \/ \E s \in Positions, q \in 1 .. MaxQuads : OnDeleteQuad(s, q)

ClientNext ==
    \/ Followed
    \/ \E g \in 1 .. MaxGroups, l \in 0 .. MaxLayers, shift \in BOOLEAN : Select(g, l, shift)

ClientSpec == ClientInit /\ [][ClientNext]_allVars

-----------------------------------------------------------------------------
(* Properties *)

ClientTypeOK ==
    /\ TypeOK
    /\ cimages \in Seq(Images) /\ cenvs \in Seq(Envs) /\ textures \in Seq(Images)

(* The client's map as the server writes it: objects by their positions. *)
Position(s, x) == IF x = Nothing THEN None ELSE CHOOSE i \in DOMAIN s : s[i] = x
Known(s, x) == x = Nothing \/ x \in Range(s)
AsServed(layer) ==
    CASE IsPhysics(layer) -> PhysicsLayer(layer.kind, layer.w, layer.h)
      [] layer.kind = "tiles" ->
           TilesLayer(layer.w, layer.h, Position(cimages, layer.image), Position(cenvs, layer.env))
      [] layer.kind = "quads" ->
           QuadsLayer(Position(cimages, layer.image),
               [q \in DOMAIN layer.quads |-> [pos |-> Position(cenvs, layer.quads[q].pos),
                                              color |-> Position(cenvs, layer.quads[q].color)]])
Resolved(layer) ==
    /\ HasImage(layer) => Known(cimages, layer.image)
    /\ layer.kind = "tiles" => Known(cenvs, layer.env)
    /\ layer.kind = "quads" => \A q \in DOMAIN layer.quads :
           Known(cenvs, layer.quads[q].pos) /\ Known(cenvs, layer.quads[q].color)

(* The whole map, so written. *)
Served == [g \in DOMAIN cgroups |-> [l \in DOMAIN cgroups[g] |-> AsServed(cgroups[g][l])]]

(* References by object that nobody repairs and references by position     *)
(* that the server repairs after every deletion lead to the same map, and  *)
(* to the same answer to whether an image or an envelope may be deleted.   *)
SameMap ==
    /\ ClientTypeOK
    /\ cimages = images /\ cenvs = envelopes
    /\ \A s \in CSpots(cgroups) : Resolved(cgroups[s[1]][s[2]])
    /\ Served = groups
    /\ \A i \in DOMAIN images : CImageInUse(i) <=> ImageInUse(i)
    /\ \A e \in DOMAIN envelopes : CEnvInUse(e) <=> EnvInUse(e)

(* The tree that is drawn is the map's, and every layer is drawn with the  *)
(* texture of its image.                                                   *)
TextureOf(layer) ==
    CASE IsPhysics(layer) -> {Own}
      [] layer.kind = "tiles" -> {IF layer.image = Nothing THEN Blank ELSE layer.image}
      [] layer.kind = "quads" -> IF layer.image = Nothing THEN {Nothing, Blank} ELSE {layer.image}
DrawnIsMap ==
    /\ textures = cimages
    /\ Len(rgroups) = Len(cgroups)
    /\ \A g \in DOMAIN cgroups :
         /\ Len(rgroups[g]) = Len(cgroups[g])
         /\ \A l \in DOMAIN cgroups[g] :
              /\ rgroups[g][l].id = cgroups[g][l].id
              /\ rgroups[g][l].texture \in TextureOf(cgroups[g][l])

(* What a selection may name: no more than may be selected together. *)
Selections ==
    /\ Len(selected) <= MaxSelected
    /\ \A k \in DOMAIN selected : selected[k] \in (1 .. MaxGroups) \X (0 .. MaxLayers)

(* What others create, move and delete does not make another layer the     *)
(* active one, whose properties and tiles the user is editing: except a    *)
(* layer deleted from its group.                                           *)
ActiveKept ==
    []Selections /\ [][cgroups' # cgroups /\ ActiveLayer \in LayerIds'
         /\ (Len(cgroups') = Len(cgroups) => LayerIds \subseteq LayerIds')
         => ActiveLayer' = ActiveLayer]_allVars
==============================================================================
