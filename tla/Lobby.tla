--------------------------------- MODULE Lobby ---------------------------------
(***************************************************************************)
(* The lobby of the client, in one tab or several of a browser: the        *)
(* servers the user knows, the one selected, its list of maps, the         *)
(* creation of a map, the joining of a map by its name or by an access     *)
(* key, and what of this is stored.                                        *)
(*                                                                         *)
(* The page that edits a map learns from the storage alone which server to *)
(* connect to.  What is stored by a tab for itself (session) goes before   *)
(* what is stored for all tabs (local); a stored current server that the   *)
(* stored list does not have makes the storage start over.                 *)
(***************************************************************************)
EXTENDS Integers, Sequences, SequencesExt

CONSTANTS
    Tabs,        \* the tabs of the browser
    Default,     \* the server the program comes with
    Added,       \* the servers the user may add
    Bridge,      \* the server an access key may lead to
    MaxQueries,  \* bound on the lists of maps on their way
    MaxSteps,    \* bound on what the user does
    Crossing,    \* TRUE: in one tab the user selects another server, removes a server, or
                 \* saves another list than the stored one, while another tab goes by what
                 \* is stored; and opens a tab while the first waits for another server
    Hasty,       \* TRUE: the user creates maps and enters keys before the list is there,
                 \* goes on using the page while they are on their way, and comes back
                 \* to the lobby before the lists the old one asked for are there
    Renumbers,   \* TRUE: servers are removed while lists of maps are on their way
    Returns,     \* TRUE: the user comes back to the lobby from a bridge
    Phantoms,    \* TRUE: a server that is not stored, or in another place, may be selected
    Breaks       \* TRUE: the tab may be closed or the connection may break during
                 \* an upload, and the deletion of a map may be refused to anyone

None == "none"

VARIABLES
    tab,       \* by tab:
               \*   list     the servers of the page
               \*   sel      the one selected
               \*   maps     the server whose maps are listed
               \*   session  what is stored for this tab: servers, current
               \*   queries  lists of maps on their way: the number and the server asked
               \*   late     numbers that a lobby left meanwhile will still store
               \*   page     closed, the lobby, or the editing of a map: of which server,
               \*            and of which meant
               \*   job      a map that is created or a key that is tried
    local,     \* what is stored for every tab
    left,      \* maps whose creation is not finished: the tab, the server, and whether
               \* they were to have a password
    steps      \* operations so far

vars == <<tab, local, left, steps>>
-----------------------------------------------------------------------------
(* The storage.                                                            *)

Empty == [servers |-> <<>>, current |-> 0]
Fresh == [servers |-> <<Default>>, current |-> 1]
InLobby == [at |-> "lobby", server |-> None, meant |-> None]
NoJob == [kind |-> None, server |-> None, secret |-> FALSE]
Closed == [list |-> <<Default>>, sel |-> 1, maps |-> None, session |-> Empty,
           queries |-> <<>>, late |-> {}, page |-> [InLobby EXCEPT !.at = "closed"], job |-> NoJob]

StoredServers(ses) == IF ses.servers # <<>> THEN ses.servers ELSE local.servers
StoredCurrent(ses) == IF ses.current # 0 THEN ses.current ELSE local.current
Sanitary(ses) == StoredCurrent(ses) <= Len(StoredServers(ses))

\* load("servers"), then load("currentServer"), which may reset the storage.
LoadedCurrent(ses) == IF Sanitary(ses) THEN StoredCurrent(ses) ELSE 1
SessionLoaded(ses) == IF Sanitary(ses) THEN ses ELSE Empty
LocalLoaded(ses) == IF Sanitary(ses) THEN local ELSE Fresh
-----------------------------------------------------------------------------
(* The pages.                                                              *)

Step == steps < MaxSteps /\ steps' = steps + 1
Lobby(t) == Step /\ tab[t].page.at = "lobby" /\ (Hasty \/ tab[t].job = NoJob)
Becomes(t, k) == tab' = [tab EXCEPT ![t] = k]

\* No other tab goes by what is stored for every tab.
HasItsOwn(k) == k.session.servers # <<>> /\ k.session.current # 0
Alone(t) == \A u \in Tabs \ {t} : tab[u] = Closed \/ HasItsOwn(tab[u])

\* The list is emptied and asked for again.
Selected(k, id) ==
    [k EXCEPT !.sel = id, !.maps = None,
              !.queries = Append(@, [id |-> id, server |-> k.list[id]])]
MayAsk(t) == Len(tab[t].queries) < MaxQueries
AsStored(k, id) ==
    LET stored == StoredServers(k.session)
    IN  id \in DOMAIN stored /\ k.list[id] = stored[id]

SelectServer(t, id) ==
    /\ Lobby(t) /\ MayAsk(t)
    /\ id \in DOMAIN tab[t].list
    /\ Phantoms \/ AsStored(tab[t], id)
    /\ Crossing \/ Alone(t) \/ id = local.current
    /\ Becomes(t, Selected(tab[t], id))
    /\ UNCHANGED <<local, left>>

\* The answer counts, and its server is stored, if it is still the one selected.
Listed(k, q) ==
    IF k.sel = q.id THEN [k EXCEPT !.maps = q.server, !.session.current = 0] ELSE k
NotSaved(k, q) == local
LocalListed(k, q) == IF k.sel = q.id THEN [local EXCEPT !.current = q.id] ELSE local

Without(k, n) == [k EXCEPT !.queries = RemoveAt(@, n)]

QueryMaps(t, n) ==
    /\ n \in DOMAIN tab[t].queries
    /\ LET q == tab[t].queries[n]
       IN  /\ Becomes(t, Listed(Without(tab[t], n), q))
           /\ local' = LocalListed(tab[t], q)
    /\ UNCHANGED <<left, steps>>

QueryMapsFails(t, n) ==
    /\ n \in DOMAIN tab[t].queries
    /\ Becomes(t, Without(tab[t], n))
    /\ UNCHANGED <<local, left, steps>>

\* The list of the page is stored for every tab, over what another tab stored.
OnAddServer(t, server) ==
    /\ Lobby(t)
    /\ server \notin Range(tab[t].list)
    /\ Crossing \/ Alone(t) \/ tab[t].list = local.servers
    /\ LET list == Append(tab[t].list, server)
       IN  /\ Becomes(t, [tab[t] EXCEPT !.list = list, !.session.servers = <<>>])
           /\ local' = [local EXCEPT !.servers = list]
    /\ UNCHANGED left

StaysSelected(k, id) == k
SelectAfter(k, id) ==
    IF k.sel = id THEN Selected(k, 1)
    ELSE IF k.sel > id THEN Selected(k, k.sel - 1) ELSE k

\* The first server cannot be removed.
OnDeleteServer(t, id) ==
    /\ Lobby(t) /\ MayAsk(t)
    /\ id \in DOMAIN tab[t].list \ {1}
    /\ Renumbers \/ tab[t].queries = <<>>
    /\ Crossing \/ Alone(t)
    /\ LET list == RemoveAt(tab[t].list, id)
       IN  /\ Becomes(t, SelectAfter([tab[t] EXCEPT !.list = list, !.session.servers = <<>>], id))
           /\ local' = [local EXCEPT !.servers = list]
    /\ UNCHANGED left

\* To the page that edits a map of the stored server.  Lists on their way to
\* the lobby that is left store their server still.
Navigated(k, servers, current, meant) ==
    [k EXCEPT !.page = [at |-> "edit", server |-> servers[current], meant |-> meant],
              !.late = @ \cup {q.id : q \in {r \in Range(k.queries) : r.id = k.sel}},
              !.queries = <<>>]
Joined(k, meant) ==
    [Navigated(k, StoredServers(k.session), LoadedCurrent(k.session), meant) EXCEPT
        !.session = SessionLoaded(@)]

OnJoinMap(t) ==
    /\ Lobby(t)
    /\ tab[t].maps # None
    /\ Becomes(t, Joined(tab[t], tab[t].maps))
    /\ local' = LocalLoaded(tab[t].session)
    /\ UNCHANGED left

LateAnswer(t, id) ==
    /\ id \in tab[t].late
    /\ Becomes(t, [tab[t] EXCEPT !.late = @ \ {id}, !.session.current = 0])
    /\ local' = [local EXCEPT !.current = id]
    /\ UNCHANGED <<left, steps>>

\* The lobby opens, of a tab with the session ses.
Opened(ses, late) ==
    LET id == LoadedCurrent(ses)
        list == StoredServers(ses)
    IN  [list |-> list, sel |-> id, maps |-> None, session |-> SessionLoaded(ses),
         queries |-> <<[id |-> id, server |-> list[id]]>>, late |-> late,
         page |-> InLobby, job |-> NoJob]

Back(t) ==
    LET k == tab[t]
    IN  /\ Step
        /\ k.page.at = "edit"
        /\ k.job = NoJob
        /\ Hasty \/ k.late = {}
        /\ Returns \/ k.session = Empty
        /\ Becomes(t, Opened(k.session, k.late))
        /\ local' = LocalLoaded(k.session)
        /\ UNCHANGED left

NewTab(t) ==
    /\ Step
    /\ tab[t] = Closed
    /\ Crossing \/ \A u \in Tabs : \A q \in Range(tab[u].queries) : q.id = local.current
    /\ Becomes(t, Opened(Empty, {}))
    /\ local' = LocalLoaded(Empty)
    /\ UNCHANGED left

CloseTab(t) ==
    /\ tab[t] # Closed
    /\ Breaks \/ tab[t].job = NoJob
    /\ Becomes(t, Closed)
    /\ UNCHANGED <<local, left, steps>>

Reload(t) ==
    LET k == tab[t]
    IN  /\ Step
        /\ k.page.at = "edit"
        /\ Breaks \/ k.job = NoJob
        /\ Becomes(t, [Joined(k, k.page.meant) EXCEPT !.late = {}, !.job = NoJob])
        /\ local' = LocalLoaded(k.session)
        /\ UNCHANGED left
-----------------------------------------------------------------------------
(* Creation of a map and joining by key: each await is a step.  The server *)
(* is the one selected when the user began.                                *)

Begin(t, kind, secret) ==
    LET k == tab[t]
    IN  /\ Lobby(t)
        /\ k.job = NoJob
        /\ Hasty \/ (k.maps # None /\ k.queries = <<>>)
        /\ Becomes(t, [k EXCEPT !.job = [kind |-> kind, server |-> k.list[k.sel],
                                         secret |-> secret]])
        /\ UNCHANGED <<local, left>>

OnCreateMap(t) == Begin(t, "create", FALSE)
\* With a password, or without.
UploadMap(t, secret) == Begin(t, "put", secret)
OnDeleteMap(t) == Begin(t, "delete", FALSE)
OnJoinBridge(t) == Begin(t, "key", FALSE)

Upload(t) == [tab |-> t, server |-> tab[t].job.server, secret |-> tab[t].job.secret]
Finished(k) == [k EXCEPT !.job = NoJob]

\* The map is there, or its configuration is accepted: the page is opened.
Succeed(t) ==
    /\ tab[t].job.kind \in {"create", "config", "key"}
    /\ Becomes(t, Finished(Joined(tab[t], tab[t].job.server)))
    /\ local' = LocalLoaded(tab[t].session)
    /\ left' = left \ {Upload(t)}
    /\ UNCHANGED steps

\* Whether the map was deleted or not, the list is asked for again.
MapDeleted(t) ==
    /\ tab[t].job.kind = "delete" /\ MayAsk(t)
    /\ Becomes(t, Finished(Selected(tab[t], tab[t].sel)))
    /\ UNCHANGED <<local, left, steps>>

PutDone(t) ==
    /\ tab[t].job.kind = "put"
    /\ Becomes(t, [tab[t] EXCEPT !.job.kind = "config"])
    /\ left' = left \cup {Upload(t)}
    /\ UNCHANGED <<local, steps>>

Abandoned(t) == left' = left
\* A refused configuration takes the map away again, which the server refuses
\* if it has set the password of the map before it refused the rest.
Undone(t) == \/ left' = left \ {Upload(t)}
             \/ tab[t].job.secret /\ left' = left

Fail(t) ==
    /\ tab[t].job.kind \in {"create", "put", "config"}
    /\ Becomes(t, Finished(tab[t]))
    /\ IF tab[t].job.kind = "config"
       THEN Undone(t) \/ (Breaks /\ left' = left)
       ELSE left' = left
    /\ UNCHANGED <<local, steps>>

\* The key names no map here: it may be that of a bridge.
NotHere(t) ==
    /\ tab[t].job.kind = "key"
    /\ Becomes(t, [tab[t] EXCEPT !.list = Append(@, Bridge),
                                 !.job = [kind |-> "bridge", server |-> Bridge, secret |-> FALSE]])
    /\ UNCHANGED <<local, left, steps>>

\* The list of the page and its last server are stored for this tab.
JoinBridge(t) ==
    LET k == tab[t]
        n == Len(k.list)
    IN  /\ k.job.kind = "bridge"
        /\ Becomes(t, [Finished(Navigated(k, k.list, n, Bridge)) EXCEPT
                          !.session = [servers |-> k.list, current |-> n]])
        /\ UNCHANGED <<local, left, steps>>

NoBridge(t) ==
    /\ tab[t].job.kind = "bridge"
    /\ Becomes(t, Finished(tab[t]))
    /\ UNCHANGED <<local, left, steps>>
-----------------------------------------------------------------------------
Init ==
    /\ tab = [t \in Tabs |-> Closed]
    /\ local = Fresh
    /\ left = {}
    /\ steps = 0

Servers(t) ==
    \/ \E id \in 1..MaxSteps + 1 : SelectServer(t, id) \/ OnDeleteServer(t, id)
    \/ \E server \in Added : OnAddServer(t, server)
Answers(t) ==
    \/ \E n \in 1..MaxQueries : QueryMaps(t, n) \/ QueryMapsFails(t, n)
    \/ \E id \in tab[t].late : LateAnswer(t, id)
Jobs(t) ==
    \/ OnCreateMap(t) \/ (\E secret \in BOOLEAN : UploadMap(t, secret))
    \/ OnDeleteMap(t) \/ OnJoinBridge(t)
    \/ Succeed(t) \/ PutDone(t) \/ MapDeleted(t) \/ Fail(t)
    \/ NotHere(t) \/ JoinBridge(t) \/ NoBridge(t)
Pages(t) == OnJoinMap(t) \/ Back(t) \/ NewTab(t) \/ CloseTab(t) \/ Reload(t)

Next == \E t \in Tabs : Servers(t) \/ Answers(t) \/ Jobs(t) \/ Pages(t)

Spec == Init /\ [][Next]_vars
-----------------------------------------------------------------------------
\* In every tab the maps that are listed are those of the server that is
\* selected, whatever the order in which the lists arrive, and that server is
\* the current one that is stored, for this tab and for a tab that is opened then.
ListedIsStored ==
    \A t \in Tabs : LET k == tab[t] IN
        k.maps # None /\ k.page.at = "lobby" =>
          /\ k.sel \in DOMAIN k.list /\ k.list[k.sel] = k.maps
          /\ \A ses \in {k.session, Empty} :
                /\ Sanitary(ses)
                /\ StoredServers(ses)[StoredCurrent(ses)] = k.maps

\* The page of a map connects to the server on which the user joined or made
\* it, when it is opened and when it is loaded again, in every tab.
JoinsTheRightServer ==
    \A t \in Tabs : tab[t].page.at = "edit" => tab[t].page.server = tab[t].page.meant

\* An upload without a password that has failed leaves no map on the server:
\* such a map is there only while the tab still configures it.
UploadAllOrNothing ==
    \A map \in left : ~ map.secret =>
        tab[map.tab].job = [kind |-> "config", server |-> map.server, secret |-> FALSE]
=============================================================================
