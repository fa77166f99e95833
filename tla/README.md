# TWWE in TLA+

TWWE is a collaborative editor for Teeworlds and DDNet maps: a Rust server
(`src/server/src`, tokio, axum and parking_lot locks) keeps the maps and relays
the edits of the clients (`src/client/src`, TypeScript and Svelte) that work on
the same map. This directory holds TLA+ specifications of the parts where the
order of events or the arithmetic of positions decides whether the system is
right, TLC configurations that check them on small instances, and proofs for
instances of any size.

| file | what it is |
| --- | --- |
| `Occupancy.tla` | what the server promises about its rooms: who is in which, and when a map leaves memory |
| `Session.tla`, `SessionProofs.tla` | the server's registries: connections, table of rooms, membership, maps in memory, which implement `Occupancy`; theorems |
| `MapDoc.tla` | a room's map: images, envelopes, groups, layers, quads and the indices between them |
| `Collab.tla`, `CollabProofs.tla` | clients with predictions and undo lists, and the server that orders their edits; theorems |
| `SeqFacts.tla` | what removing from, inserting into, folding over and flattening sequences does, for the proofs |
| `ClientMap.tla`, `MapProofs.tla` | the client's map of objects and the tree it draws, beside the server's of `MapDoc`; theorems about both |
| `Canvas.tla`, `CanvasProofs.tla` | a tiles layer on the graphics card: chunks, textures, numbers, resizing; theorems |
| `Tiles.tla`, `Brush.tla` | turning and adapting tiles; the brush of the map editor |
| `Automapper.tla` | linter, parser and runs of automapper files |
| `Pending.tla` | what the history does with a panel's requests (used by the next three) |
| `Envelopes.tla`, `EnvelopesProofs.tla` | the envelope editor; theorems |
| `QuadsView.tla`, `QuadsViewProofs.tla` | the view of a quads layer: drags, menu, buffers; theorems |
| `Forms.tla` | synchronised fields of groups and layers, upload of an image |
| `Lobby.tla`, `LobbyProofs.tla` | the list of servers, what of it is stored, creation and joining of maps; theorems |
| `MC*.tla` | constants of the instances that TLC checks |
| `*.cfg` | one configuration per run |
| `PROJECT.json` | components, runs, mutants, map from definitions to lines, hazards, theorems |

Check a run with `tlc -workers 2 -config collab_watchers.cfg MCCollab.tla`, and
proofs with `tlapm CollabProofs.tla`.

## 1. The system

### Components, their state and their operations

**Server session** (`server.rs`, `room.rs`). State: `Server.users` (token to
`User`), `Server.rooms` (name to `Arc<RwLock<Room>>`), and in each room the
configuration, the users, and the map, which is loaded on first use and dropped
with the last user. Each `User` points back to its room. A websocket task per
connection (`handle_websocket`) registers the user, serves one message at a
time, and cleans up when the socket closes; HTTP handlers (`router.rs`,
`route_http`) run requests of the same users in parallel. Operations: join,
leave, edit, save, edit the configuration, create and delete maps.
*Hard:* every handler takes and drops several locks and uses under one what it
read under another. *Correct when:* both halves of each membership agree, nobody
is in two rooms, closed connections are forgotten, unsaved work is dropped only
when nobody is left, limits hold.

**Map document** (`server.rs` from `put_image` on, `util.rs`, `checks.rs`, and
the `twmap` library). State: vectors of images, envelopes and groups of layers,
which refer to each other by index. *Hard:* every operation that shifts an index
must repair every reference; physics layers share a group and a size; a request
may fail after it changed something. *Correct when:* every reference leads to an
object of the right kind, renumbering changes no picture, the game layer stays
and the physics layers keep their rules.

**Dispatch and broadcast** (`handle_request`, `do_request`, `do_broadcast`). A
request is applied under the room's write lock, then sent to the other users of
the room, then answered. *Hard:* these are separate critical sections. *Correct
when:* all clients see the edits in the order the room's map saw them.

**Client history** (`history.ts`) and **client connection** (`server.ts`).
State: pending requests with their reverses, the undo list with its index and
the count of sends to skip. A request is applied by the client at once; a
refusal or anything broadcast, another client's operation or the news that somebody
joined, left or saved, makes the history take predictions back and make them again.
*Hard:* answers and broadcasts meet predictions in many orders. *Correct when:* the
client's map ends up as the server's, nothing stays pending, and undo accounts for
what the user did.

**Client map** (`twmap/map.ts`, `gl/renderMap.ts`, `mapEditor.svelte`). State:
images, envelopes and layers as objects that refer to each other, a second tree
of render layers with textures, the positions of the active and the selected
layers. *Hard:* it repairs other things than the server does. *Correct when:* it
is the server's map under another notation, is drawn as it is, and the user's
active layer does not change under the user.

**Tiles on the card** (`gl/renderTilesLayer.ts`, `gl/texture.ts`,
`twmap/tilesLayer.ts`). State: the flat array of tiles, a grid of buffers, the
buffer of numbers, the texture and whether its image arrived. *Hard:* images
arrive and frames are drawn between any two edits. *Correct when:* what is on
the card is the layer, all of it, in the end.

**Brush** (`editor.ts`, `editBrush.svelte`, the mouse handlers of
`mapEditor.svelte`, `tilePicker.svelte`). State: the brush's layers with the
layer each came from, the mouse rectangle, the mode. *Hard:* rectangles cut at
edges, flags that mean different turns for different kinds of tiles. *Correct
when:* the brush looks as it was turned, a stroke fits its layer, a drag leaves
no gap, the outline is the brush.

**Automapping** (`automap.ts`). State: a position in a text, the configurations
read; the layer a configuration runs on. *Hard:* linter and parser are written
apart and must agree. *Correct when:* what the linter lets pass is read to its
end, implicit rules are there exactly when the text leaves them out, a run that
copies the layer reads the copy.

**Panels** (`envelopeEditor.svelte`, `quadsView.svelte`, `editQuad.svelte`,
`editGroup.svelte`, `editLayer.svelte`, `util.ts`). State: an index into the
map, a copy of the values shown, a drag. *Hard:* the map changes under an open
drag, field or upload, by answers, refusals and others. *Correct when:* what is
shown is what the map holds, and edits go to the object shown.

**Lobby** (`lobby.svelte`, `storage.ts`). State: the servers and the current
one in the page, in the tab's storage and in the browser's, the list of maps,
requests on their way. *Hard:* every tab of the browser is a page of its own over
one storage. *Correct when:* the maps shown are those of the selected server and the
next page connects to it, in every tab.

**Map store** (`room.rs`, `create_map`, `delete_map`, `lib.rs`). State: the map
file, `config.json` and automappers of every map, the scan of the folders at
start-up. *Hard:* crashes and failures between two writes, two creations at
once. *Correct when:* a map that was saved survives, a restart finds what the
table had. Not modelled yet.

**Bridge** (`bridge_in.rs`, `bridge_out.rs`, `bridge_router.rs`). A public
server relays clients to a private one over one socket, each message preceded by
the client's address. *Hard:* pairs of messages on a shared channel, users that
are never forgotten, two bridges opened at once. *Correct when:* every answer
reaches the client that asked. Not modelled yet.

**Locks.** Table of rooms (mutex), rooms and users (read-write locks whose
waiting writers stop new readers). *Correct when:* no cycle of waiting. Not
modelled yet.

**The rest**: wire protocol, command line, checks of field lengths, automapper
files on the server, parsing of map files, shaders, the desktop shell and the
editor grammars. Sequential or declarative; see section 7.

### Interaction

    panels, brush --query--> History --predicts--> client map --> buffers on the card
         |                     ^  resp / recv          |
         v                     |                       +--> panels refreshed
      websocket  --------->  handle_request --lock--> Room.map
         HTTP    --------->  route_http          |
                                                 +--> broadcast to Room.users
                                                 +--> answer to the sender

The modules meet the same way. `Collab` is about the order in which operations
arrive and keeps the map abstract; `ClientMap` is about what one operation does
at both ends and keeps the order trivial (it extends `MapDoc`, and each of its
actions is an action of `MapDoc` together with the client's handler); the panels
take from `Pending` what the history does to them, with the requests on their
way, and look at one part of the map.

## 2. Modules and code

### Session

One action per critical section. `pc[t]` is where the handler of a task is
between two locks, `arg[t]` and `found[t]` are the map name and the room it
learned before. A task is a user with a channel, `"ws"` or `"http"`.

| code | actions |
| --- | --- |
| `handle_websocket` | `Accept`, `Register`, `Disconnect`, `CloseRemove`, `Unregister` |
| `user_join` | `BeginJoin`, `JoinVerify`, `JoinFind`, `JoinAdd`, `JoinSet` |
| `user_leave` | `LeaveRemove`, `LeaveTake` |
| `do_request` on the user's map | `BeginOnOwnMap`, then `EditMap` and `BroadcastEdit`, `SaveMap`, `EditConfig` or `NotFound` |
| `create_map`, `delete_map` | `CreateCheck`, `CreateInsert`, `DeleteLookup`, `DeleteRemove` |
| `Room::remove_user` | `RemoveUser` |

Abstractions: a map is unloaded, clean or dirty; a password check may fail; room
objects and users come from finite sets and are used once; cursors, names and
the broadcast of user counts are left out. `LeaveByKey` says whether clients may
leave under the name in the table (`edit.svelte` does) besides the room's own;
`Renames` whether a configuration request also gives the room another name.

`Occupancy` is the abstract specification: users come, go, enter a room and leave it,
each at once, and the last to go takes the map out of memory with the work that was
not saved. Nothing else does, and nobody changes rooms without leaving. The refinement
mapping reads the place of a user off the rooms' lists (`Place`), so that of the
windows in which list and `User.inner.room` disagree nothing is left to see.
`ImplementsOccupancy` says more than `WorkKept`, which leaves out maps that are
unloaded clean or not unloaded at all.

### MapDoc

A handler holds the room's write lock throughout, so each is one action, named
after it. An image is a model value that is fit for tiles or not, an envelope
one that is a colour or a position envelope, so that identity survives
renumbering; a layer is a record with its kind, size and references, a quad its
two references. Positions count from 1, and 0 is `None`. Requests that change
nothing are no steps. Requests that panic or fail halfway are: `Moved` gives
what `Vec::remove` and `Vec::insert` leave behind (parking_lot does not poison,
so the map stays in use), and `EditPhysics` stops at the first layer that refuses a size.
Names, points, tiles, quad positions, sounds and automapper references are left
out. `BackwardMoves` and `MovesPastEnd` switch on the requests for which
section 4 reports a disagreement, so that the other properties can be checked
without them. Every insertion is bounded by the code's own limit, made small.

### Collab

`doc` is the room's map, `client[c]` a client's map with its `History` and the
number of packets it sent (which serves as the id), `toServer` and `toClient`
the websockets, `stage[c]` where the handler of `c`'s first request is. The map
is a function from cells to values: a request sets a cell, as a request for a
layer's properties, a quad or a rectangle of tiles sets that part of the map. A
value in `Untracked` stands for a deletion, for which `reverse` has nothing.
Besides edits the users are told when one of them saves (`Save`) and when another
user joins, leaves or is cut off (`Visit`); `MaxNotices` bounds how often. Such news
writes nothing, but goes through `History.recv` as an edit does.

| code | definitions |
| --- | --- |
| `History.send` | `Remembered`, `Queried` |
| `History.resp` | `Answered`, `Refused`, `Unlisted` |
| `History.recv`, of an edit or of news | `Overtaken`, `Told` |
| `History.undo`, `redo` | `Undo`, `Redo` |
| `WebSocketServer.query`, `handleWsMessage` | `Query`, `Edit`, `Receive` |
| `handle_request` | `Apply`, `Cast`, `Answer` |
| `do_broadcast` of a save, `broadcast_users` | `Save`, `Visit` |

A message handler in the browser runs to its end, hence one action. On the
server `Workers` bounds how many handlers are between their lock and their
answer, as tokio's worker threads do. Whether a request is refused is left open
for the requests in `Refusable`: what the server checks depends on limits and
names that cells do not have. Ids are unique here; in the code they are drawn
from 65536. `MaxInFlight` and `MaxSends` bound a client's requests.

`HistoryExplains` says of each client's undo list, as it is at any time, that it leads
from some map to the one the client shows. It does not say that all edits are listed:
a broadcast clears the list, and when it meets predictions it leaves marks that keep
later edits off it (`EditsListed`, section 4). While marks are left the list is empty,
which is why an edit that is not listed never lies between two that are.

### ClientMap

`ClientMap` extends `MapDoc`: images and envelopes are their own objects, layers
have an identity, and every action `On...` conjoins the server's action with the
handler of `mapEditor.svelte` and the method of `RenderMap` it calls, on
`cimages`, `cenvs`, `cgroups` (`Map`), `textures`, `rgroups` (what is drawn) and
`selected`. `AsServed` writes a layer of objects back as one of positions, and
`SameMap` says that the client's map written so is the server's: the two are
changed side by side, each in its own notation, by what the code of each side does.
Images and envelopes are not moved here, as `mapEditor.svelte` neither sends nor
hears of such a move. `EnvEdits` adds the edits of a quad's envelopes, which
`editQuad` reads under names the protocol does not have.

### Canvas

One layer (its kind is `lines`, how many numbers a tile has), its chunks, the
texture and the images that arrived. Handlers (`EditTiles`, resizes, automapping,
another image), image arrivals, `Texture.load`, and a frame are the actions; the
frame loads textures, hence `Fair`. `ChunkSize` is 2 where the code has 64.
`ChunksInView` is the loop of `render` over the view.

### Tiles and Brush

`Tiles` holds the functions on a tile and on rows of tiles, with `TexCoords` and
`ScreenCorners` as the renderer has them, so that a turn can be compared with
what is seen. `Brush` has the mouse handlers, the brush editor and the picker as
actions, each with the reactive statements that follow it; `copied` and `turned`
are history variables: the brush as it came and the matrix of the turns since.
Flags are sets, angles degrees.

### Automapper

A text is a sequence of lines of tokens. `Lint` folds the linter over the lines;
the parser is one action per turn of its loop (`ReadHeader`, `ReadInvalid`, one
per command), so that a turn that does not advance is a stutter a liveness
property sees; the runs are applied one by one to a layer. The hash of a place is
a constant operator.

`InGrammar` is the grammar of `doc/automap.md`: a line is a command (`Command`) and
whatever is left at its end (`EndLine = ".*\n"` there). What it derives need not pass
the linter, which takes text left after the flags of an `Index` and after the tiles of
a `Pos ... INDEX` for an error (section 4); `EndedListsAccepted` is about the texts in
which these two end with their line (`ListsEnd`) and any other command may not.

### Envelopes, QuadsView, Forms

Each has the client's objects, the panel's copies, and `calls`, the requests on
their way with operation, reverse and what follows the answer. `Accepted`,
`Refused` and `Others` take predictions back and make them again with the
operators of `Pending`. `Envelopes` keeps envelopes by identity and one channel,
evaluates curves as fractions, and refreshes the panel's variables once per
message, as Svelte does. `QuadsView` keeps the server's quads (`doc`) beside the
client's, points as integer vectors, and the drawn vertices, colours and indices.

`Forms` keeps what a store told its subscribers (`shown`), what the form holds (`page`),
what stands in the input (`input`) and what the store kept for itself (`val`), which
`util.ts` does not keep equal. `number.svelte` clamps what is typed when it becomes the
value and writes the value into the input only when the value changes: a number out of
the limits that clamps to the value held stays in the input, and nothing is sent. It
stays when another target is selected too, if that has the same value. So
`ShownIsStored` says that the form holds what the map holds, and that each input has
that number or one that stands for it; `InputsInLimits`, that it has no other, is false
(section 4). Two or three numbers, and one on either side of the limits, stand for the
ranges of the fields.

These modules deliver the operations of others, and not the news of joins, leaves and
saves: to the requests on their way such news does what an operation on an object that
the panel does not show does, and those are delivered.

### Lobby

`tab[t]` is a tab of the browser with its page: the page's list and selection, what is
stored for the tab, the lists of maps on their way (the number under which the answer
will be stored, and the server asked; `late` for those asked for by a lobby that was
left, which still store their number), the request that creates a map or tries a key,
and the page of the map. `page.meant` records the server the user acted on. `local` is
stored for all tabs: they live side by side, any of them opens (`NewTab`), closes,
reloads and selects, and a tab with nothing of its own in its session storage goes by
what another has stored last. `left` has the maps that an upload has created and not
configured. `Fail` lets each of the three requests of an upload be refused; the
deletion after a refused configuration may itself be refused when the upload was to
have a password (`Undone`), because the server may have set it before it refused the
rest, and the deletion carries no token.

The constants `AnyDelete`, `AnyRefusal`, `Crossings`, `Disturbed`, `Outside`,
`Unsets`, `SetsBack`, `Refusals`, `Reselects`, `Crossing`, `Hasty`, `Renumbers`, `Returns`,
`Phantoms`, `Breaks`, `EarlyEdits`, `EnvEdits` switch on the situations for which
section 4 reports a failure. They are set to `FALSE` in the runs, so that what is
checked is everything else. `Crossing` is the one for tabs: while it is `FALSE`, a tab
selects or removes a server, and saves a list that differs from the stored one, only
while every other tab is closed or has servers and a current one of its own (`Alone`).

## 3. Runs

| run | shows |
| --- | --- |
| `session_registry` | two connections join, leave, edit, save, configure and close while they create and delete maps under each other, and names are used again: memberships agree (`MembershipConsistent`), no work is dropped under a user (`WorkKept`), an edit is broadcast where it was applied as long as the room is in the table (`BroadcastWhereEdited`), the handlers implement `Occupancy` (`ImplementsOccupancy`), and every closed connection is forgotten (`ClosedIsForgotten`) |
| `mapdoc_references` | images and envelopes of two kinds added, deleted and moved towards the back, under physics, tiles and quads layers and quads that change places and size: no dangling or unfit reference (`RefsResolve`), renumbering changes no picture (`ReferentsKept`), one game layer, one physics group, one size (`PhysicsIntact`) |
| `client_map` | all that the server relays, with the client's handlers: `SameMap`, `DrawnIsMap`, `ActiveKept` |
| `collab_watchers` | two clients edit one cell, the server refuses some, one worker, a third client watches, once somebody saves, joins or leaves: it sees the cell as the room has it, in the room's order (`WatchersFollow`), and no prediction stays pending (`Settles`) |
| `collab_own_cells` | each client edits its own cell, one with undo and redo, two workers, a list of two entries, news: all maps agree once the messages have arrived (`Converges`), answers meet their requests (`AnswersInOrder`), the undo list accounts for the map (`HistoryExplains`) |
| `canvas_buffers` | edits, resizes, automapping, other images, arrivals and frames in any order: buffers hold the layer (`DrawnIsCurrent`), numbers are read as they are (`NumbersRead`), no tile in view is left out (`NoTileLeftOut`), rows keep their places (`ResizeKeepsTiles`), the layer is drawn in the end (`EventuallyDrawn`) |
| `brush_strokes` | brushes over five layers copied, picked, turned, mirrored, set and adapted, and strokes at and over the edges: `BrushTurned`, `StrokesFit`, `LineIsDrawn`, `OutlineIsBrush` |
| `automapper_texts` | texts of every command, well and badly written, some with text left at the end of a line, of up to five lines: the linter passes the texts of the grammar in which lists of flags and tiles end with their line (`EndedListsAccepted`), what it passes is read to its end (`LintedFilesParse`), implicit rules (`DefaultRuleOnce`), runs on a copy (`RunsReadTheirCopy`) |
| `envelopes_panel` | the user drags, types, adds and deletes points and envelopes while others create, edit and delete them: times stay in order (`TimesInOrder`), the panel shows and edits what the map has, with colours in their range (`ShownIsStored`, which contains `TypeOK`), curves run between their points (`CurveMeetsPoints`) |
| `quads_view` | quads dragged by a point, an edge or as a whole, edited, copied and deleted, accepted and refused, while others edit the rest: `DragFromStart`, `SameQuads`, `DrawnIsMap` |
| `forms_fields` | fields of two groups typed, within the limits and out of them, while others edit them, an image uploaded and picked: `ShownIsStored`, `PickedIsUploaded` |
| `lobby_servers` | in two live tabs over one storage servers selected, added, removed, lists in any order, maps created, with and without a password, and joined, reloads, tabs closed and opened: `ListedIsStored`, `JoinsTheRightServer`, `UploadAllOrNothing` |

Every run has its mutants in `PROJECT.json`: one change of a definition per
property, as a mistake in the code would make it, that breaks the property.

## 4. Where the code departs

The constants of the runs leave out what is known to fail, so that the rest can
be checked. TLC shows each of these failures when the constants are changed (and
`INVARIANT` lines of other properties removed where they fail too). A quotation in
brackets is what the repository says of itself, which the failure contradicts.

| what fails | from | change |
| --- | --- | --- |
| `EditsListed`: `recv` leaves a mark for every operation it hands out when a broadcast, even of a visit or a save, meets a prediction; nothing takes these marks away but later edits, which are not listed (`history.ts:415`) ["tracks all undo/redo-able requests", `history.ts:321`] | `collab_own_cells` | `PROPERTY EditsListed` alone |
| `GrammarAccepted`: text left after the flags of an `Index` or the tiles of a `Pos ... INDEX` is an error (`automap.ts:278`, `367`) [`EndLine = ".*\n"`, `doc/automap.md:6`; text after any other command is a warning] | `automapper_texts` | `INVARIANT GrammarAccepted` alone |
| `WatchersFollow`: two handlers broadcast in the order opposite to that of their edits (`server.rs:338`) ["This guarantees synchronization", `protocol.rs:20`] | `collab_watchers` | `Workers = 2` |
| `LeftMeansGone`: a user that left under the name in the table, after a rename, is still on the room's list and keeps its map in memory (`server.rs:1879`) | `session_registry` | `WsKinds = {"join", "leave", "config"}`, `Renames = TRUE`, `LeaveByKey = TRUE`, `PROPERTY LeftMeansGone` alone |
| `RefsResolve`, `ReferentsKept`: a move to the front leaves references on the wrong image or envelope (`server.rs:1657`) ["wrong envelope type" is refused, `error.rs:103`] | `mapdoc_references` | `BackwardMoves = TRUE` |
| `ShownIsStored`: a field that is set back to the value its store kept tells nobody (`util.ts`, `sync`) | `forms_fields` | `SetsBack = TRUE` |
| the parser does not end on a line with an invalid first token (`automap.ts:609`) ["invalid line, skip", `automap.ts:610`] | `automapper_texts` | `PROPERTY EveryFileEnds` |
| a reverse made before an operation of others is replayed as it was (`history.ts`) [`server.ts:169`: the history "will take care of resyncing"] | `forms_fields` | `Crossings = TRUE` |
| connections accepted together pass the limit, which is checked before the insertion (`server.rs:350`) | `session_registry` | check `Cardinality(users) <= MaxConnections`, `MaxConnections = 1` |
| so do maps (`server.rs:439`) | `session_registry` | check `MapCount <= MaxMaps`, `Initial <- InitialNone`, `MaxMaps = 1` |
| `OneRoom`: a token joins over the websocket and over HTTP at once (`server.rs:1838`) | `session_registry` | `HttpKinds = {"join"}`, `INVARIANT OneRoom` |
| an empty room holds a map: an edit by name, from a user whose map was deleted and made anew, loads the new map, which nobody leaves (`server.rs:190`) | `session_registry` | check `roomUsers[r] = {} => map[r] = "unloaded"` |
| `BroadcastWhereEdited`: an edit by name reaches another map after two renames | `session_registry` | `Renames = TRUE` |
| `BroadcastWhereEdited`: of two channels of one user, one leaves or changes rooms between the edit and the broadcast of the other, and those who stay never see the edit (`server.rs:338`) | `session_registry` | `HttpKinds = {"edit"}`, or `{"leave"}`, or `{"join"}`; `INVARIANT BroadcastWhereEdited` alone |
| `RefsResolve`, `PhysicsIntact`: the element moved to the position after the last is lost when `Vec::insert` panics (`server.rs:1653`, `1715`) | `mapdoc_references` | `MovesPastEnd = TRUE` |
| `PhysicsIntact`: a resize with a good width and a bad height is refused after the first layer took the width (`server.rs:1064`), and not broadcast | `mapdoc_references` | `Resizes <- PartialResizes` |
| `Converges`: `recv` takes the first request off the pending list though it was made again, and the next operation that overtakes it is applied on top (`history.ts:413`) | `collab_own_cells` | `Writes <- Everybody` |
| `Converges`: the refusal of such a request is not taken back, and of two refused requests for one part the second is taken back to the value of the first (`history.ts:382`) | `collab_own_cells` | `Refusable <- RefusesV` |
| `Converges`: a deletion, which is not pending, is lost when predictions are made again (`history.ts:343`) | `collab_own_cells` | `Values = {blank, v, gone}`, `Untracked = {gone}`, `Undoers = {}`, no `HistoryExplains` |
| `HistoryExplains`: after undoing the creation of a part, `send` returns before it uses up the mark that `undo` left, and the next edit is not listed (`history.ts:428`) | `collab_own_cells` | `Values = {v, gone}`, `Blank = gone`, `Untracked = {gone}` |
| `HistoryExplains`: an edit that was refused leaves the list, the next one keeps its value as reverse, and marks keep those made then off the list (`history.ts:385`) | `collab_own_cells` | `Refusable <- RefusesV` |
| `SameMap`: `editQuad` looks for `posEnv` and `colorEnv`, the protocol says `position_env` and `color_env` (`renderMap.ts:327`) | `client_map` | `EnvEdits = TRUE` |
| `DrawnIsCurrent`: an edit between the loading of a texture and its first frame fills one buffer and marks the layer as done (`renderTilesLayer.ts:43`) | `canvas_buffers` | `EarlyEdits = TRUE` |
| `OutlineIsBrush`, `StrokesFit`: moves of layers by others leave the brush on layers of another kind | `brush_strokes` | `Moves <- AllMoves` |
| `ShownIsStored`: others delete the envelope shown, one before it, or one that a request on its way is about | `envelopes_panel` | `AnyDelete = TRUE` |
| `ShownIsStored`: a refused edit of points stays in the panel | `envelopes_panel` | `AnyRefusal = TRUE` |
| `DragFromStart`, `SameQuads`: others delete a quad before the one held, or edit it, or their operation crosses the request | `quads_view` | `Disturbed = TRUE` |
| `SameQuads`: a refused choice of an envelope is not put back | `quads_view` | `AnyRefusal = TRUE` |
| `SameQuads`: the button released outside the view keeps the drag | `quads_view` | `Outside = TRUE` |
| `SameQuads`: choosing "None" stores `undefined`, and the reverse of the next edit throws | `quads_view` | `Unsets = TRUE` |
| `DrawnIsMap`: indices have 16 bits, which is enough for 16384 quads and no more (`renderQuadsLayer.ts:117`) | `quads_view` | `IndexRange = 8` |
| `ShownIsStored`: a refusal puts back the store's old value after the history did | `forms_fields` | `Refusals = TRUE` |
| `InputsInLimits`: a number out of the limits that clamps to the value held stays in the input (`number.svelte:19`) | `forms_fields` | `INVARIANT InputsInLimits` |
| `PickedIsUploaded`: the layer is read after the upload | `forms_fields` | `Reselects = TRUE` |
| `ListedIsStored`, `JoinsTheRightServer`: a server selected, or removed, in one live tab is the one that another tab's page or reload connects to (`index.svelte:13`) | `lobby_servers` | `Crossing = TRUE` |
| `ListedIsStored`, `JoinsTheRightServer`: a map is made, or a key entered, before the list of maps stored the server | `lobby_servers` | `Hasty = TRUE` |
| the same: answers come by the place in the list, which a removal shifts | `lobby_servers` | `Renumbers = TRUE` |
| `ListedIsStored`: the bridge's place is stored for the tab and outlives it | `lobby_servers` | `Returns = TRUE` |
| the same: a key that failed leaves its server in the page's list only | `lobby_servers` | `Phantoms = TRUE` |
| `UploadAllOrNothing`: the connection breaks or the tab closes between the upload and its configuration, or the deletion is refused | `lobby_servers` | `Breaks = TRUE` |
| the same, of an upload with a password: `edit_config` sets it before it refuses the version, say of an 0.7 map, and the deletion without a token is refused, which `uploadMap` does not look at (`server.rs:573`, `router.rs:292`, `util.ts:49`) | `lobby_servers` | drop `~ map.secret =>` from `UploadAllOrNothing` |

## 5. Bounds and fairness

### Bounds

- *Session*: two users let two handlers interleave at every pair of labels, and one
  keep a room occupied while the other goes; a third room object lets a name be
  used again while somebody still sits in the room that bore it first. Renames
  and HTTP are left to the theorems, which hold for every mixture of request
  kinds they allow. No symmetry, because liveness is checked too.
- *MapDoc*: two images have a first and a last, which is what renumbering tells
  apart; two envelopes, one of each kind, show a reference on the wrong one; two
  groups and up to three layers each let layers change groups and put layers of
  each kind in front of and behind each other. Sizes 2 and 3 with a request that
  is granted and one that is refused. Every insertion is bounded by the code's
  own limit, made small.
- *ClientMap*: as MapDoc with two layers per group and one tiles or quads layer,
  which is enough for a layer in front of it, behind it and in the other group.
- *Collab*: two requests in flight are what the history's take-back needs to have
  a first and a later prediction; two writers and a watcher are what an order of
  broadcasts needs. One piece of news meets every state of the predictions.
  `MaxHistory` is 100, the code's number, or 2 for operations to fall off the list.
- *Canvas*: sizes 2 and 3 with chunks of 2 make one chunk and four, complete and
  not. Views begin and end before, in and behind the layer.
- *Brush*: one stroke after up to four changes, on layers of 1 by 2 to 2 by 2;
  the mouse is outside on the left, inside, and on and behind the edge.
- *Automapper*: one rule with up to three further lines (two, if they may have text
  left at their end), or any two lines.
- *Panels*: two requests on their way (`MaxCalls`) and three to five operations
  (`MaxSteps`), which let an operation of others fall between any two of the
  user's; three points and three quads have a first, a middle and a last.
- *Lobby*: two tabs, one to select what the other goes by; the default server, two more
  and a bridge; three lists on their way; nine operations, which let both tabs come
  to the page of a map and back.

`CHECK_DEADLOCK FALSE` where the users may stop or a bound ends the behaviour.

### Fairness

- *Session*: a handler and the clean-up are synchronous code in a task that stays
  runnable, so what has started goes on (`WF` on `Continue`, `Register`,
  `Cleanup`). Nothing is assumed of requests and disconnections. Locks are held
  for one action, so no lock is waited for; that they cannot block each other for
  ever is a question for a module of locks.
- *Collab*: `WF` on `Cast`, `Answer` and `Receive` for the same reason and because
  both ends keep reading their sockets; `SF` on `Apply`, because a worker may be
  free and taken again infinitely often while a task waits, and tokio's run queue
  is fair. Nobody has to edit.
- *Canvas*: `WF` on the loading of textures and on frames, which the browser asks
  for again and again; the arrival of an image is not fair, as a download may fail.
- *Automapper*: `WF` on the reader, which is a loop.

## 6. Proofs

TLAPS checks these for every number of users, rooms, clients, cells and values,
and for maps, layers and lists of any size. The assumptions named below exclude
what section 4 shows to fail, and nothing more than the argument needs; where a
theorem has none, it holds for all of its module.

`SessionProofs`:
- `TypeCorrect`: `Spec => []TypeOK`. The inductive invariant adds
  `ReachedRoomsNamed`: a room that the table, a user or a handler can reach has a
  name, which is what keeps `BeginOnOwnMap` from working on a map without one.
- `MembershipAgrees`, `InOneRoom`, `WorkIsKept` under `OwnNames`: joins and leaves
  come by websocket, and clients leave under the room's own name. Neither
  can be dropped: see `LeftMeansGone` and the join over HTTP in
  section 4. The inductive invariant is
  `MembershipConsistent`, which says for every label of a user's websocket task
  where the user is listed, with `HttpKeepsOut`: no HTTP handler is at a label of
  join or leave. `InOneRoom` and `WorkIsKept` follow from it.
- `SessionImplementsOccupancy`: `Spec => ImplementsOccupancy` under `OwnNames`. With the
  same invariant every user is on one list at most, so `Place` is a function that the
  lists determine (`PlacesRight`), and each action is one of `Occupancy` or a stutter:
  `Register` is `Come`, `JoinAdd` is `Enter`, `LeaveRemove` is `Leave`, `CloseRemove` is
  `Go` (`RemovedIsEmptied` for the two that call `remove_user`), edits and saves are `Work`.
- `BroadcastsWhereEdited`: `Spec => []BroadcastWhereEdited` under `OneWay`: joins,
  leaves and edits come by websocket, and rooms keep their names (after two renames
  an edit by name reaches another map). None of these can be dropped (section 4). A
  handler edits the room that has the name by then and broadcasts to the room its
  user is in by then; that both are one depends on the whole life of rooms, hence the
  invariant `Casting`: HTTP handlers move nobody (`HttpLooksOn`), the table
  has every room under its own name (`TableNamesRooms`), a room that is being made is
  known to its maker only (`NewRoomsPrivate`), and what a handler is about to edit
  bears the name it edits under (`EditsNameTheirRoom`).

`CollabProofs`:
- `TypeCorrect`: `Spec => []TypeOK`, any number of workers. The inductive
  invariant `Shape` adds that what a client has pending, listed and asked is about
  cells it writes; lemmas follow the lists through `History` (`RememberedSound`,
  `QueriedSound`, `UnlistedSound`, `RefusedSound`, `AnsweredSound`,
  `OvertakenSound`), which also say which cells of the client's map change.
- `WatchersAreOnlyLate`: `Spec => []WatchersFollow` under `InTurn`: one worker, or
  one writer of each part of the map with any number of workers. The
  invariant `Following` adds `Single` (one handler at a time is past its lock, if
  there is one worker) and `Follows`, which says of every cell a client does not
  write that the handler about to broadcast holds the room's value or, if there is
  none, that the messages on their way lead there. A prediction is taken back and made
  again only in the client's own cells, so `OvertakenSound` reduces the whole
  rewriting of the history to one write in the cells of others. With two workers and
  two writers the statement is false (section 4).

- `AnswersMeetTheFirst`: `Spec => []AnswersInOrder`, for any clients and workers.
  What makes it inductive is `Numbered`, said of a client's pending list, requests
  and messages together: all three rise, every answer on its way is older than every
  request that is not applied, and whatever is pending is on its way in one
  direction or the other. `InOrder` says it of all clients.
- `OwnPartsConverge`: `Spec => []Converges` under `OwnParts`: each part of the map has
  one writer, nothing is refused and everything has a reverse (`Reversible`). Section 4
  has a failure for each of the three. The invariant `Converging` follows each
  cell to its end: for its writer, the requests still to be applied lead from the room's
  value to the one the client shows (`Closes`), and the client shows the newest of what
  is pending (`Shown`), which is why taking back and making again changes nothing.
- `ListExplainsMap`: `Spec => []HistoryExplains` under `Reversible`, with the news of
  visits and saves and with `MaxHistory` of any size. The invariant `Accounting` says of
  each client that its list leads from some map to the one it shows, and that there
  are marks only while the list is empty: `recv`, which leaves them, clears it first, and
  undo and redo, which leave one, send at once. Without the second part an edit that the
  marks keep off the list could lie between two that are on it. `WalkedTail` is what an
  operation that falls off the list does: it becomes part of the map one starts from.
- `UndoMeetsWhatItListed`: `Spec => UndoMeetsItsEdit` under `Reversible`: undo finds its part
  of the map as the operation it takes back left it, redo as undo left it. It is an action
  property without a run of its own.

`MapProofs`, about the server's document, under `ForwardMoves`: images and envelopes
move backwards only, and no move names the position behind the last. For references
neither can be dropped (section 4).
- `TypeCorrect` and `ReferencesResolve`: `Spec => []TypeOK` and `Spec =>
  []RefsResolve`. `RefsResolve` alone is not inductive, because renumbering has to know
  that what it renumbers is a number. The invariant `SoundMap` says that the lists
  of layers belong to `Seq(Seq(Sound))`, where `Sound` is the set of layers whose
  references resolve in the images and envelopes of the moment. Operations that
  leave images and envelopes alone keep the set (`GroupsReplaced`, `RowReplaced`,
  `LayerReplaced`); those on images and envelopes change it, and the renumbering
  takes the old set into the new (`ImagesReindexed`, `EnvsReindexed`).
- `RenumberingKeepsReferents`: `Spec => ReferentsKept`. `RemovalFollowed` and
  `MoveFollowed` say that a renumbered index leads to the element it led to;
  `ImagesKept` and `EnvsKept` carry that to the layers and quads.

- `PhysicsStaysIntact`: `Spec => []PhysicsIntact`, under `WholeResizes` besides (a request
  that changes the width is not refused for its height; section 4 shows what happens
  otherwise). With `SoundMap` the property is
  inductive. Most operations touch no physics layer (`PhysicsUntouched`); moving and
  deleting groups and layers lets each physics layer of the new map descend from
  one of the old, injectively (`Descent`, and for one group's layers
  `RowShortened`, `RowLengthened`, `RowReordered`); a resize gives all physics layers
  one size (`ReshapedAlike`), because they are all in the group it is made in.

`MapProofs`, about the client's map, under `Followable`: no move names the position
behind the last and no quad changes its envelopes. The first is what the server relays: it broadcasts a
move after it was carried out, and one behind the last panics before that. The
second is the name that `editQuad` gets wrong (section 4). Moves of images and
envelopes do not occur in `ClientMap`, in either direction: `mapEditor.svelte` has no
handler for them, and no part of the client sends them.
- `ClientHasTheMap`: `ClientSpec => []SameMap`; `ClientDrawsTheMap`: `ClientSpec =>
  []DrawnIsMap`. The invariant `Follows` keeps three lists of lists of layers in step,
  the server's, the client's and the tree that is drawn, as one set of triples
  (`Trees`, made of `Rows` of `Rows` of `Matching`): a triple of layers matches
  when the client's objects are those at the server's positions, and the drawn texture
  is the one of the client's image. Lemmas say that rows stay in step when the same
  position is removed, inserted or replaced in all three. Deleting an image is where
  positions and objects part: the server shifts the numbers, the client nothing, and
  the triples match again in the shorter list because images are pairwise different.

`LobbyProofs`:
- `ListingsAreStored` and `PagesFindTheirServer`: `Spec => []ListedIsStored` and `Spec =>
  []JoinsTheRightServer` under `Careful`, which is the negation of the six flags that
  section 4 lists for the lobby (`Crossing`, `Hasty`, `Renumbers`, `Returns`, `Phantoms`,
  `Breaks`), for any number of tabs. The invariant `Settled` says of each tab what holds
  in the lobby (the stored servers are a beginning of the page's list, every list on its
  way is that of a stored server, what was begun is about the server selected) and on the
  page of a map (the storage leads to the server that was meant, and a list that arrives
  late stores what is stored already), and of any two tabs that, while one of them goes
  by what is stored for all (`Relies`), no answer on its way to the other will store
  anything else (`Agrees`).
- `NoHalfUploads`: `Spec => []UploadAllOrNothing` under `~ Breaks`: no connection breaks, no
  tab closes, and the deletion is not refused to anyone, between the requests of an
  upload. `Careful` is not needed. The property is about uploads without a password; of the
  others it does not hold (section 4). The invariant `Uploading` ties every map left to
  the tab that still configures it.

`CanvasProofs`:
- `NumbersAreRead`: `Spec => []NumbersRead`. The invariant `Typed` says that the flat
  list has width times height tiles and that the numbers on the card are those made from
  the layer as it is, whatever was done to it. `DigitsRead` is
  the arithmetic of three digits whose leading zeros are left clear.
- `ViewIsCovered`: `Spec => []NoTileLeftOut`, arithmetic on quotients: the range of chunks
  that `render` goes through, clamped to the grid, has the chunk of every tile in view.
- `TilesKeepTheirPlaces`: `Spec => ResizeKeepsTiles`. A change of width splices the flat list
  once per row, from the last row to the first. `RowGrows` says what is left of the layer
  when the rows from one on have grown, and `WidenedIsGrown` follows that to the first row.
- `ChunksAreCurrent`: `Spec => []DrawnIsCurrent` under `~EarlyEdits` (no edit between the
  loading of a texture and its first frame; section 4). The invariant `AllOrNone` says that
  all chunks are drawn or none is, and that it takes a loaded texture to draw them; the
  code keeps one flag for all of them.

`QuadsViewProofs`, under `Tame`, which is what the run `quads_view` leaves out: others do
not disturb the quad held or cross a request they renumber, only what the server cannot
do is refused, the button is released over the view and no envelope is set to
`undefined`. Section 4 has a failure for each.
- `DragsDoNotAddUp`: `Spec => []DragFromStart`. By itself the property is not inductive: a
  refusal in the middle of a drag takes all that is pending back and makes it again. The
  invariant is `HoldOK`, by which the quad held is the one kept when the button was
  pressed, with its points carried by one vector, together with `Leads`.
- `QuadsAgree`: `Spec => []SameQuads`, and with it `TypeOK`. `Leads` says that the requests on
  their way form a chain from the server's list of quads to the client's (without the drag:
  `Based`), each possible in its turn, each taken back by its reverse. An acceptance
  shortens the chain at its beginning; a refusal, and an operation of others, take the
  chain back from its end and make it again from another beginning.
- `QuadsAreDrawn`: `Spec => []DrawnIsMap`, if `4 * MaxQuads <= IndexRange` (16384 quads with
  the code's 16 bits). The buffers are made again from the list in each
  action, so the work is in the flattened lists: what is at the place of a corner.

`EnvelopesProofs`, under `~AnyDelete`: others delete only envelopes behind the one shown and
behind those that requests on their way are about, and a deletion of the user is answered
before anything else happens. Without this a number leads nowhere (section 4).
- `PointsStayInOrder`: `Spec => []TimesInOrder`, whatever is refused and whatever crosses.
  `Between` keeps a point that is dragged or whose time is typed between the neighbours it
  has by then (`BetweenNeighbours`), and `InsertAt`, `RemoveAt` keep the order; but points
  also come back: from a request that is refused, from predictions that are taken back and
  made again, from the store that was replaced under the panel. So the invariant `IInv` is
  about all the places where points are kept, the requests with their reverses and what
  follows the answer included. For it to be inductive every number has to lead somewhere:
  the panel is empty only while the list is, a creation on its way has left an envelope in
  the list (which a refusal takes away last: `CreatesLast`), and a deletion on its way is
  the only request and knows an index that will exist. `HandledDone` says what handling
  any number of operations in one message does to the panel.
- `CurvesMeetTheirPoints`: `Spec => []CurveMeetsPoints`. `PointComputed` says it of any list of
  points in order and any time: time wraps into the interval between the first and the
  last point (`Wrapped`), the point found is the first one later (`FirstOf`), so the two
  points interpolated are a positive distance apart, and each of the five curves is a
  fraction between 0 and 1 (`CurveInUnit`, cubic inequalities over the integers).

`SeqFacts` has what all of these need of sequences: what is where after a removal, an
insertion, an append, and that rows stay in their sets. Its second half is about folds
and flattened lists, which the library defines as `CHOOSE` of a recursive function.
No induction scheme can be cited for those (it takes an operator as a parameter),
but the least position at which a statement fails can: `FoldExists` shows that such a
function exists, `FoldSteps` what it does with one more element, `KeptSteps` what is
left of a list of requests when those not tracked are taken out, and `Flattened` what
is where when rows of one length are laid end to end. Positions in lists need a first
and a last element of a set of numbers (`FirstPosition`, `LastPosition`, `Extremes`),
which come from the well-foundedness of `<`.

Only model-checked:
- liveness (`ClosedIsForgotten`, `Settles`, `EventuallyDrawn`, `LintedFilesParse`),
  which these provers do not treat;
- `ActiveKept`: the selection is filtered with `SelectSeq`, whose test is an operator
  given as a parameter, and no installed prover instantiates the facts about those;
- `BrushTurned`, `StrokesFit`, `LineIsDrawn`, `OutlineIsBrush` of `Brush` and `DefaultRuleOnce`,
  `EndedListsAccepted`, `RunsReadTheirCopy` of `Automapper`: what folds with a rich state
  (a linter's, a brush of several layers) compute, which is induction over data;
- `ShownIsStored` of `Envelopes`, with the range of colours in `TypeOK`, and `ShownIsStored`
  and `PickedIsUploaded` of `Forms`: within reach (section 7).

`InOneRoom` and `UndoMeetsWhatItListed` have no passing run that checks their property on an
instance; HTTP handlers beside the websocket's are in the theorems only.

## 7. Plan, and what is not modelled

Theorems to come: `ShownIsStored` for `Envelopes` and `Forms`, with the chain of requests of
`QuadsViewProofs`; the involutions of `Tiles`.

Modules to come:

1. `MapStore`: files and table, crash after every write, restart; automapper
   files; a map file that cannot be read, which panics the websocket task. The code
   truncates a file before it writes it, so what holds is little: no two rooms on
   one file, a restart that finds every map that was saved in peace.
2. `Bridge`: clients, relay, private server; every answer reaches who asked,
   pairs stay paired, closed users are forgotten.
3. `Locks`: `get_maps`, `delete_map`, `set_cursor`, `room_mut`, `get_cursors` as
   sequences of acquisitions on read-write locks with waiting writers.
4. A client in `Collab` that joins while others edit (`edit.svelte`: join,
   download, listen).

Not modelled:

- Files, restarts, bridge and locks on the server, as above.
- Time-outs of queries: `query` takes one, and nothing in the client passes it.
- Colliding ids of requests in the client: the code does nothing about them, so there
  is no statement to check.
- Passwords, but for one: an upload in `Lobby` may be meant to have one.
- Sounds and sounds layers on both sides, automapper references, names.
- Colour envelopes and texture coordinates of quads, the pointer arithmetic of the
  viewport, zoom and playing of envelopes.
- Automapping rules of the second format, which the client hands on unread.
- Wire formats, parsing of map files, shaders, dialogs, the desktop shell,
  grammars, password hashing, rate limits and TLS: no state that several actors
  share.
