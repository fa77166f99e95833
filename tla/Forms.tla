--------------------------------- MODULE Forms ---------------------------------
(***************************************************************************)
(* The forms of a layer or a group: fields that are stores synchronised    *)
(* with the server, and the choice of an image, which uploads the image    *)
(* first.  Fields that the protocol sends together (the coordinates of an  *)
(* offset) form a part.  The form shows one target (a layer or a group);   *)
(* other users edit the same targets.                                      *)
(***************************************************************************)
EXTENDS Pending, FiniteSets, FiniteSetsExt

CONSTANTS
    Targets,        \* the layers or groups that can be shown
    PartOf,         \* the fields, each with the part it is sent in
    Values,         \* the numbers typed into the fields
    Low, High,      \* the limits of a field
    Uploads,        \* names of images that this user uploads
    Pictures,       \* names of images that other users create
    MaxCalls,       \* bound on the requests on their way
    MaxSteps,       \* bound on the operations of a behaviour
    OthersParts,    \* the parts that other users edit
    Refusals,       \* FALSE: an edit is refused only when the field, and the history,
                    \* were left alone since it was sent
    SetsBack,       \* FALSE: the user never types the value a store keeps while it
                    \* shows another
    Reselects,      \* TRUE: another target may be selected during an upload
    Crossings       \* FALSE: one operation of others crosses a request, if it is the
                    \* only one on its way

ASSUME FormsAssumption == Low \in Int /\ High \in Int /\ Low <= High

Fields == DOMAIN PartOf
FieldsOf(part) == {f \in Fields : PartOf[f] = part}
NoImage == "none"

VARIABLES
    images,   \* the images of the map, by name
    map,      \* what each target holds: its fields and its image
    at,       \* the target shown
    shown,    \* the values the stores told their subscribers
    page,     \* the values of the number components
    input,    \* the numbers that stand in their inputs
    val,      \* the value each store keeps for itself
    picking,  \* an image is being read from a file or the network
    calls,    \* the requests that are not answered
    steps     \* operations so far

vars == <<images, map, at, shown, page, input, val, picking, calls, steps>>
-----------------------------------------------------------------------------
(* Operations, as the listeners of the map and of the stores handle them.  *)

EditOp(t, fields) == [kind |-> "fields", t |-> t, fields |-> fields]
ImageOp(t, i)     == [kind |-> "image", t |-> t, index |-> i]
CreateOp(name)    == [kind |-> "create", name |-> name]
DeleteOp(i)       == [kind |-> "delete", index |-> i]

IndexOf(name) == SelectInSeq(images, LAMBDA x : x = name)

ReverseOp(op) ==
    CASE op.kind = "fields" ->
            EditOp(op.t, [f \in DOMAIN op.fields |-> map[op.t].fields[f]])
      [] op.kind = "image"  -> ImageOp(op.t, IndexOf(map[op.t].image))
      [] op.kind = "create" -> DeleteOp(Len(images) + 1)
      [] op.kind = "delete" -> [kind |-> "none"]

Overlay(new, old) == [f \in DOMAIN old |-> IF f \in DOMAIN new THEN new[f] ELSE old[f]]

\* An index that no image has leaves the layer without one.
ImageAt(s, i) == IF i \in DOMAIN s.images THEN s.images[i] ELSE NoImage

ApplyToMap(s, op) ==
    CASE op.kind = "fields" -> [s EXCEPT !.map[op.t].fields = Overlay(op.fields, @)]
      [] op.kind = "image"  -> [s EXCEPT !.map[op.t].image = ImageAt(s, op.index)]
      [] op.kind = "create" -> [s EXCEPT !.images = Append(@, op.name)]
      [] op.kind = "delete" ->
            IF op.index \in DOMAIN s.images
            THEN [s EXCEPT !.images = RemoveAt(@, op.index)] ELSE s

\* Every store whose pattern the operation matches tells its subscribers the
\* new value, which goes on to the components; the store's own value stays.
Tell(s, fields) ==
    [s EXCEPT !.shown = Overlay(fields, @),
              !.page  = [f \in Fields |-> IF f \in DOMAIN fields /\ fields[f] # s.shown[f]
                                          THEN fields[f] ELSE @[f]]]
TellStores(s, op) ==
    IF op.kind = "fields" THEN IF op.t = at THEN Tell(s, op.fields) ELSE s ELSE s

Handle(s, op) == TellStores(ApplyToMap(s, op), op)

Now == [images |-> images, map |-> map, shown |-> shown, page |-> page, val |-> val]

\* The page is drawn once a handler has ended: an input is written to where the
\* value of its component is another than before.
Become(s) ==
    /\ images' = s.images
    /\ map' = s.map
    /\ shown' = s.shown
    /\ page' = s.page
    /\ input' = [f \in Fields |-> IF s.page[f] = page[f] THEN input[f] ELSE s.page[f]]
    /\ val' = s.val

Step == steps < MaxSteps /\ steps' = steps + 1

Call(op, then) ==
    [op |-> op, reverse |-> ReverseOp(op), then |-> then, tracked |-> op.kind # "delete"]
-----------------------------------------------------------------------------
(* The user.                                                               *)

\* The stores are made anew for the target that is selected, the inputs are
\* not; a request of a store that is no longer there restores nothing.
Select(t) ==
    /\ Step
    /\ t # at
    /\ Reselects \/ ~\E k \in DOMAIN calls : calls[k].op.kind = "create"
    /\ Reselects \/ picking = NoImage
    /\ at' = t
    /\ LET fields == map[t].fields
       IN  Become([Now EXCEPT !.shown = fields, !.page = fields, !.val = fields])
    /\ calls' = [k \in DOMAIN calls |->
                   IF calls[k].then.kind = "restore"
                   THEN [calls[k] EXCEPT !.then = [kind |-> "none"]] ELSE calls[k]]
    /\ UNCHANGED picking

Clamp(v) == Min({Max({v, Low}), High})

\* The component takes the number, whatever the store does with it.
Typed(f, v) == [Now EXCEPT !.page[f] = v]

\* A store ignores the value it keeps.  Otherwise the whole part is sent, with
\* what the stores of the other fields show.
Set(f, v) ==
    IF v = val[f]
    THEN /\ Become(Typed(f, v))
         /\ calls' = calls
    ELSE LET s  == [Typed(f, v) EXCEPT !.val[f] = v, !.shown[f] = v]
             op == EditOp(at, [g \in FieldsOf(PartOf[f]) |-> s.shown[g]])
         IN  /\ Len(calls) < MaxCalls
             /\ Become(Handle(s, op))
             /\ calls' = Append(calls, Call(op, [kind |-> "restore", f |-> f, old |-> val[f]]))

\* A number that the limits make the one held is not told to the store, which
\* is bound to the component's value, and stays in the input as it was typed.
OnChange(f, v) ==
    /\ Step
    /\ v # input[f]
    /\ SetsBack \/ Clamp(v) # val[f] \/ shown[f] = val[f]
    /\ IF Clamp(v) = page[f]
       THEN /\ input' = [input EXCEPT ![f] = v]
            /\ UNCHANGED <<images, map, shown, page, val, calls>>
       ELSE Set(f, Clamp(v))
    /\ UNCHANGED <<at, picking>>

\* Nothing tells which layer the file was picked for: it is read, and then
\* created, and then set on the layer that is shown.
PickFile(name) ==
    /\ Step
    /\ picking = NoImage /\ name \notin Range(images)
    /\ ~\E k \in DOMAIN calls : calls[k].op.kind = "create"
    /\ picking' = name
    /\ UNCHANGED <<images, map, at, shown, page, input, val, calls>>

UploadImage ==
    /\ picking # NoImage /\ Len(calls) < MaxCalls
    /\ Become(Handle(Now, CreateOp(picking)))
    /\ calls' = Append(calls, Call(CreateOp(picking), [kind |-> "pick", for |-> at]))
    /\ picking' = NoImage
    /\ UNCHANGED <<at, steps>>

\* An image of the map, or none, is picked.
PickExisting(i) ==
    /\ Step
    /\ i \in 0..Len(images) /\ Len(calls) < MaxCalls
    /\ Become(Handle(Now, ImageOp(at, i)))
    /\ calls' = Append(calls, Call(ImageOp(at, i), [kind |-> "none"]))
    /\ UNCHANGED <<at, picking>>

InUse(i) == \E t \in Targets : map[t].image = images[i]

OnImageDelete(i) ==
    /\ Step
    /\ i \in DOMAIN images /\ ~InUse(i) /\ calls = <<>>
    /\ Become(Handle(Now, DeleteOp(i)))
    /\ calls' = Append(calls, Call(DeleteOp(i), [kind |-> "none"]))
    /\ UNCHANGED <<at, picking>>
-----------------------------------------------------------------------------
(* Messages of the server.                                                 *)

\* After the upload the last image of the map is set on the layer shown.
PickedIndexFirst == 1
PickedIndex == Len(images)

Accepted ==
    LET c  == Head(calls)
        op == ImageOp(at, PickedIndex)
    IN  /\ calls # <<>>
        /\ IF c.then.kind = "pick"
           THEN /\ Become(Handle(Now, op))
                /\ calls' = Append(Tail(calls),
                              Call(op, [kind |-> "picked", name |-> c.op.name, for |-> c.then.for]))
           ELSE /\ calls' = Tail(calls)
                /\ Become(Now)
        /\ UNCHANGED <<at, picking, steps>>

Restore(s, then) ==
    IF then.kind = "restore"
    THEN [Tell(s, [f \in {then.f} |-> then.old]) EXCEPT !.val[then.f] = then.old]
    ELSE s

LeftAlone(c) ==
    /\ Len(calls) = 1 /\ c.tracked
    /\ c.then.kind = "restore" => c.reverse.fields[c.then.f] = c.then.old

Refused ==
    /\ calls # <<>>
    /\ LET c == Head(calls)
       IN  /\ c.op.kind \in {"create", "fields"}
           /\ Refusals \/ LeftAlone(c)
           /\ Become(Restore(FoldLeft(Handle, Now, AfterRefusal(calls)), c.then))
    /\ calls' = Tail(calls)
    /\ UNCHANGED <<at, picking, steps>>

Others(op) ==
    /\ Step
    /\ Crossings \/ calls = <<>> \/ (Len(calls) = 1 /\ calls[1].tracked)
    /\ Become(FoldLeft(Handle, Now, Around(calls, op)))
    /\ calls' = FirstForgotten(calls)
    /\ UNCHANGED <<at, picking>>

OthersEdit(t, part, v) == Others(EditOp(t, [f \in FieldsOf(part) |-> v[f]]))
OthersCreate(name) == name \notin Range(images) /\ Others(CreateOp(name))
OthersImage(t, i) == i \in 0..Len(images) /\ Others(ImageOp(t, i))
-----------------------------------------------------------------------------
Init ==
    /\ images = <<>>
    /\ \E v \in [Fields -> {Low}] : map = [t \in Targets |-> [fields |-> v, image |-> NoImage]]
    /\ at \in Targets
    /\ shown = map[at].fields /\ page = shown /\ input = shown /\ val = shown
    /\ picking = NoImage
    /\ calls = <<>>
    /\ steps = 0

User ==
    \/ \E t \in Targets : Select(t)
    \/ \E f \in Fields, v \in Values : OnChange(f, v)
    \/ \E n \in Uploads : PickFile(n)
    \/ UploadImage
    \/ \E i \in 0..MaxSteps : PickExisting(i) \/ OnImageDelete(i)

FromServer ==
    \/ Accepted
    \/ Refused
    \/ \E t \in Targets, p \in OthersParts, v \in [Fields -> {Low, High}] : OthersEdit(t, p, v)
    \/ \E n \in Pictures : OthersCreate(n)
    \/ \E t \in Targets, i \in 0..MaxSteps : OthersImage(t, i)

Next == User \/ FromServer

Spec == Init /\ [][Next]_vars
-----------------------------------------------------------------------------
\* Every field stays within its limits, in the map and on the page, and a layer
\* has an image of the map or none.
TypeOK ==
    /\ \A t \in Targets : /\ map[t].fields \in [Fields -> Low..High]
                          /\ map[t].image \in {NoImage} \cup Range(images)
    /\ page \in [Fields -> Low..High]
    /\ IsInjective(images)

\* The form holds what the map holds for the target shown, whoever changed it,
\* with requests on their way and refused, and in every input stands that
\* number, or one out of the limits that they make that number.
ShownIsStored ==
    /\ TypeOK
    /\ shown = map[at].fields /\ page = shown
    /\ \A f \in Fields : Clamp(input[f]) = map[at].fields[f]

\* What stands in the inputs is within the limits.  It is not so: a number out
\* of them stays, if it changes nothing (and if another target is shown).
InputsInLimits == input = page

\* The image that is set after an upload is the one that was uploaded, on the
\* layer it was picked for, even when other users create images meanwhile.
PickedIsUploaded ==
    \A k \in DOMAIN calls : calls[k].then.kind = "picked" =>
        /\ images[calls[k].op.index] = calls[k].then.name
        /\ calls[k].op.t = calls[k].then.for
=============================================================================
