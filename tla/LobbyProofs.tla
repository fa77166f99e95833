----------------------------- MODULE LobbyProofs -----------------------------
(***************************************************************************)
(* Proofs about Lobby, for any tabs, any servers and any use of the pages. *)
(***************************************************************************)
EXTENDS Lobby, SeqFacts

(* The user waits for the list of maps and for what was begun, removes no
   server meanwhile, goes from a bridge to a tab of its own, does not select the
   server of a key that failed, and selects another server in one tab only while
   no other tab goes by what is stored; nothing breaks during an upload. *)
Careful == ~ Crossing /\ ~ Hasty /\ ~ Renumbers /\ ~ Returns /\ ~ Phantoms /\ ~ Breaks

-----------------------------------------------------------------------------
(* Uploads *)

(* What was begun in a tab has a kind, a server and whether there is to be a
   password. *)
Shape(k) ==
    /\ "job" \in DOMAIN k
    /\ k.job = [kind |-> k.job.kind, server |-> k.job.server, secret |-> k.job.secret]
    /\ k.job.secret \in BOOLEAN

(* What an upload t without a password has stored is configured still. *)
Configures(k, map) == k.job = [kind |-> "config", server |-> map.server, secret |-> FALSE]

(* The inductive invariant: what a job leaves of a map is its own upload's. *)
Uploading ==
    /\ tab = [t \in Tabs |-> tab[t]]
    /\ \A t \in Tabs : Shape(tab[t])
    /\ \A map \in left :
          /\ map = [tab |-> map.tab, server |-> map.server, secret |-> map.secret]
          /\ map.tab \in Tabs /\ map.secret \in BOOLEAN
          /\ map.secret = FALSE => Configures(tab[map.tab], map)

LEMMA ClosedShape == Shape(Closed)
<1>1. NoJob = [kind |-> None, server |-> None, secret |-> FALSE] /\ NoJob.secret \in BOOLEAN
    BY DEF NoJob
<1>2. Closed.job = NoJob
    BY DEF Closed
<1>3. "job" \in DOMAIN Closed
    BY DEF Closed
<1>4. NoJob = [kind |-> NoJob.kind, server |-> NoJob.server, secret |-> NoJob.secret]
    BY <1>1
<1> QED
    BY <1>1, <1>2, <1>3, <1>4 DEF Shape

LEMMA UploadInit == Init => Uploading
<1> SUFFICES ASSUME Init PROVE Uploading
    OBVIOUS
<1>1. tab = [t \in Tabs |-> Closed] /\ left = {}
    BY DEF Init
<1>2. \A t \in Tabs : tab[t] = Closed
    BY <1>1
<1>3. tab = [t \in Tabs |-> tab[t]]
    BY <1>1
<1>4. \A t \in Tabs : Shape(tab[t])
    BY <1>2, ClosedShape
<1> QED
    BY <1>1, <1>3, <1>4 DEF Uploading

(* A tab becomes k, and no map is left of it but what k configures. *)
LEMMA UploadMoves ==
    ASSUME Uploading, NEW t \in Tabs, NEW k, Becomes(t, k), Shape(k),
           \A map \in left' \ left : map = Upload(t),
           \A map \in left' : map.tab = t /\ map.secret = FALSE => Configures(k, map)
    PROVE  Uploading'
<1>1. tab' = [tab EXCEPT ![t] = k]
    BY DEF Becomes
<1>2. tab'[t] = k /\ \A u \in Tabs \ {t} : tab'[u] = tab[u]
    BY <1>1 DEF Uploading
<1>3. tab' = [u \in Tabs |-> tab'[u]]
    BY <1>1 DEF Uploading
<1>4. \A u \in Tabs : Shape(tab'[u])
    BY <1>2 DEF Uploading
<1>5. ASSUME NEW map \in left'
      PROVE  /\ map = [tab |-> map.tab, server |-> map.server, secret |-> map.secret]
             /\ map.tab \in Tabs /\ map.secret \in BOOLEAN
             /\ map.secret = FALSE => Configures(tab'[map.tab], map)
    <2>1. CASE map.tab = t
        <3>1. /\ map = [tab |-> map.tab, server |-> map.server, secret |-> map.secret]
              /\ map.secret \in BOOLEAN
            <4>1. CASE map \in left
                BY <4>1 DEF Uploading
            <4>2. CASE map \notin left
                <5>1. map = [tab |-> t, server |-> tab[t].job.server, secret |-> tab[t].job.secret]
                    BY <4>2 DEF Upload
                <5>2. tab[t].job.secret \in BOOLEAN
                    BY DEF Uploading, Shape
                <5> QED
                    BY <5>1, <5>2
            <4> QED
                BY <4>1, <4>2
        <3> QED
            BY <1>2, <2>1, <3>1
    <2>2. CASE map.tab # t
        <3>1. map \in left
            <4>1. Upload(t).tab = t
                BY DEF Upload
            <4> QED
                BY <2>2, <4>1
        <3>2. map.tab \in Tabs \ {t}
            BY <2>2, <3>1 DEF Uploading
        <3> QED
            BY <1>2, <3>1, <3>2 DEF Uploading
    <2> QED
        BY <2>1, <2>2
<1> QED
    BY <1>3, <1>4, <1>5 DEF Uploading, Shape

(* A tab that becomes k goes on with what was begun in it. *)
LEMMA UploadGoesOn ==
    ASSUME Uploading, NEW t \in Tabs, NEW k, Becomes(t, k), Shape(k),
           k.job = tab[t].job, left' = left
    PROVE  Uploading'
<1>1. \A map \in left' \ left : map = Upload(t)
    OBVIOUS
<1>2. \A map \in left' : map.tab = t /\ map.secret = FALSE => Configures(k, map)
    BY DEF Uploading, Configures
<1> QED
    BY <1>1, <1>2, UploadMoves

(* In a tab that begins something, or ends it, no upload was half done. *)
LEMMA UploadElse ==
    ASSUME Uploading, NEW t \in Tabs, NEW k, Becomes(t, k), Shape(k),
           tab[t].job.kind # "config", left' \subseteq left
    PROVE  Uploading'
<1>1. \A map \in left' \ left : map = Upload(t)
    OBVIOUS
<1>2. ASSUME NEW map \in left', map.tab = t, map.secret = FALSE
      PROVE  FALSE
    <2>1. Configures(tab[t], map)
        BY <1>2 DEF Uploading
    <2>2. tab[t].job = [kind |-> "config", server |-> map.server, secret |-> FALSE]
        BY <2>1 DEF Configures
    <2>3. tab[t].job.kind = "config"
        BY <2>2
    <2> QED
        BY <2>3
<1> QED
    BY <1>1, <1>2, UploadMoves

(* What the handlers make of a tab keeps its fields, and what was begun. *)
LEMMA Shapes ==
    ASSUME NEW k, Shape(k)
    PROVE  /\ \A id : Shape(Selected(k, id)) /\ Selected(k, id).job = k.job
           /\ \A q : Shape(Listed(k, q)) /\ Listed(k, q).job = k.job
           /\ \A n : Shape(Without(k, n)) /\ Without(k, n).job = k.job
           /\ \A servers, current, meant :
                 /\ Shape(Navigated(k, servers, current, meant))
                 /\ Navigated(k, servers, current, meant).job = k.job
           /\ \A meant : Shape(Joined(k, meant)) /\ Joined(k, meant).job = k.job
           /\ Shape(Finished(k)) /\ Finished(k).job = NoJob
           /\ \A job : /\ job = [kind |-> job.kind, server |-> job.server, secret |-> job.secret]
                       /\ job.secret \in BOOLEAN
                       => Shape([k EXCEPT !.job = job]) /\ [k EXCEPT !.job = job].job = job
<1> USE DEF Shape
<1>1. ASSUME NEW id PROVE Shape(Selected(k, id)) /\ Selected(k, id).job = k.job
    <2> HIDE DEF Shape
    <2> DEFINE queries == Append(k.queries, [id |-> id, server |-> k.list[id]])
    <2>1. Selected(k, id) = [k EXCEPT !.sel = id, !.maps = None, !.queries = queries]
        BY DEF Selected
    <2> HIDE DEF queries
    <2> QED
        BY <2>1 DEF Shape
<1>2. ASSUME NEW q PROVE Shape(Listed(k, q)) /\ Listed(k, q).job = k.job
    BY DEF Listed
<1>3. ASSUME NEW n PROVE Shape(Without(k, n)) /\ Without(k, n).job = k.job
    BY DEF Without
<1>4. ASSUME NEW servers, NEW current, NEW meant
      PROVE  /\ Shape(Navigated(k, servers, current, meant))
             /\ Navigated(k, servers, current, meant).job = k.job
    <2> HIDE DEF Shape
    <2> DEFINE page == [at |-> "edit", server |-> servers[current], meant |-> meant]
               late == k.late \cup {q.id : q \in {r \in Range(k.queries) : r.id = k.sel}}
    <2>1. Navigated(k, servers, current, meant)
            = [k EXCEPT !.page = page, !.late = late, !.queries = <<>>]
        BY DEF Navigated
    <2> HIDE DEF page, late
    <2> QED
        BY <2>1 DEF Shape
<1>5. ASSUME NEW meant PROVE Shape(Joined(k, meant)) /\ Joined(k, meant).job = k.job
    BY <1>4 DEF Joined
<1>6. Shape(Finished(k)) /\ Finished(k).job = NoJob
    <2>1. NoJob = [kind |-> NoJob.kind, server |-> NoJob.server, secret |-> NoJob.secret]
          /\ NoJob.secret \in BOOLEAN
        BY DEF NoJob
    <2> QED
        BY <2>1 DEF Finished
<1>7. ASSUME NEW job,
             job = [kind |-> job.kind, server |-> job.server, secret |-> job.secret],
             job.secret \in BOOLEAN
      PROVE  Shape([k EXCEPT !.job = job]) /\ [k EXCEPT !.job = job].job = job
    BY <1>7
<1> QED
    BY <1>1, <1>2, <1>3, <1>4, <1>5, <1>6, <1>7

LEMMA OpenedShape ==
    ASSUME NEW ses, NEW late
    PROVE  Shape(Opened(ses, late)) /\ Opened(ses, late).job = NoJob
<1>1. NoJob = [kind |-> NoJob.kind, server |-> NoJob.server, secret |-> NoJob.secret]
      /\ NoJob.secret \in BOOLEAN
    BY DEF NoJob
<1>2. Opened(ses, late).job = NoJob
    BY DEF Opened
<1> DEFINE k == Opened(ses, late)
<1>3. "job" \in DOMAIN k
    BY DEF Opened
<1> QED
    BY <1>1, <1>2, <1>3 DEF Shape

LEMMA UploadJobs ==
    ASSUME ~ Breaks, Uploading, NEW t \in Tabs, Jobs(t)
    PROVE  Uploading'
<1> DEFINE k == tab[t]
<1>0. Shape(k) /\ NoJob.kind = None
    BY DEF Uploading, NoJob
<1>1. ASSUME NEW kind \in {"create", "put", "delete", "key"}, NEW secret \in BOOLEAN,
             Begin(t, kind, secret)
      PROVE  Uploading'
    <2> DEFINE job == [kind |-> kind, server |-> k.list[k.sel], secret |-> secret]
    <2>1. Becomes(t, [k EXCEPT !.job = job]) /\ left' = left /\ k.job = NoJob
        BY <1>1 DEF Begin
    <2>2. job = [kind |-> job.kind, server |-> job.server, secret |-> job.secret]
          /\ job.secret \in BOOLEAN
        OBVIOUS
    <2> HIDE DEF job
    <2>3. Shape([k EXCEPT !.job = job])
        BY <1>0, <2>2, Shapes
    <2>4. k.job.kind # "config"
        BY <1>0, <2>1 DEF None
    <2> QED
        BY <2>1, <2>3, <2>4, UploadElse
<1>2. ASSUME NEW j, Becomes(t, j), Shape(j), j.job = NoJob, k.job.kind # "config",
             left' \subseteq left
      PROVE  Uploading'
    BY <1>2, UploadElse
<1>3. ASSUME NEW j, Becomes(t, j), Shape(j),
             left' = left \ {Upload(t)} \/ (left' = left /\ k.job.secret)
      PROVE  Uploading'
    <2>1. \A map \in left' \ left : map = Upload(t)
        BY <1>3
    <2>2. ASSUME NEW map \in left', map.tab = t, map.secret = FALSE
          PROVE  FALSE
        <3>1. map \in left /\ map = [tab |-> t, server |-> map.server, secret |-> FALSE]
            BY <1>3, <2>2 DEF Uploading
        <3>2. k.job = [kind |-> "config", server |-> map.server, secret |-> FALSE]
            BY <2>2, <3>1 DEF Uploading, Configures
        <3>3. k.job.server = map.server /\ k.job.secret = FALSE
            BY <3>2
        <3>4. map = Upload(t)
            BY <3>1, <3>3 DEF Upload
        <3> QED
            BY <1>3, <2>2, <3>3, <3>4
    <2> QED
        BY <1>3, <2>1, <2>2, UploadMoves
<1>4. CASE Succeed(t)
    <2>1. Shape(Finished(Joined(k, k.job.server)))
        BY <1>0, Shapes
    <2> QED
        BY <1>3, <1>4, <2>1 DEF Succeed
<1>5. CASE PutDone(t)
    <2> DEFINE job == [kind |-> "config", server |-> k.job.server, secret |-> k.job.secret]
               j == [k EXCEPT !.job.kind = "config"]
    <2>1. Becomes(t, j) /\ left' = left \cup {Upload(t)} /\ k.job.kind = "put"
        BY <1>5 DEF PutDone
    <2>2. j = [k EXCEPT !.job = job] /\ j.job = job
        BY <1>0 DEF Shape
    <2>3. job = [kind |-> job.kind, server |-> job.server, secret |-> job.secret]
          /\ job.secret \in BOOLEAN
        BY <1>0 DEF Shape
    <2>4. Shape(j)
        <3> HIDE DEF job
        <3> QED
            BY <1>0, <2>2, <2>3, Shapes
    <2>5. ASSUME NEW map \in left', map.tab = t, map.secret = FALSE
          PROVE  Configures(j, map)
        <3>1. map \notin left
            <4>1. SUFFICES ASSUME map \in left PROVE FALSE
                OBVIOUS
            <4>2. Configures(k, map)
                BY <2>5, <4>1 DEF Uploading
            <4>3. k.job = [kind |-> "config", server |-> map.server, secret |-> FALSE]
                BY <4>2 DEF Configures
            <4> QED
                BY <2>1, <4>3
        <3>2. map = [tab |-> t, server |-> k.job.server, secret |-> k.job.secret]
            BY <2>1, <3>1 DEF Upload
        <3>3. map.server = k.job.server /\ map.secret = k.job.secret
            BY <3>2
        <3> QED
            BY <2>2, <2>5, <3>3 DEF Configures
    <2>6. \A map \in left' \ left : map = Upload(t)
        BY <2>1
    <2> HIDE DEF j
    <2> QED
        BY <2>1, <2>4, <2>5, <2>6, UploadMoves
<1>6. CASE MapDeleted(t)
    <2>1. Shape(Finished(Selected(k, k.sel))) /\ Finished(Selected(k, k.sel)).job = NoJob
        BY <1>0, Shapes
    <2> QED
        BY <1>2, <1>6, <2>1 DEF MapDeleted
<1>7. CASE Fail(t)
    <2>1. Becomes(t, Finished(k)) /\ Shape(Finished(k)) /\ Finished(k).job = NoJob
        BY <1>0, <1>7, Shapes DEF Fail
    <2>2. CASE k.job.kind = "config"
        BY <1>3, <1>7, <2>1, <2>2 DEF Fail, Undone
    <2>3. CASE k.job.kind # "config"
        BY <1>2, <1>7, <2>1, <2>3 DEF Fail
    <2> QED
        BY <2>2, <2>3
<1>8. CASE NotHere(t)
    <2> DEFINE job == [kind |-> "bridge", server |-> Bridge, secret |-> FALSE]
               j == [k EXCEPT !.list = Append(@, Bridge), !.job = job]
    <2>1. Becomes(t, j) /\ left' = left /\ k.job.kind = "key"
        BY <1>8 DEF NotHere
    <2>2. job = [kind |-> job.kind, server |-> job.server, secret |-> job.secret]
          /\ job.secret \in BOOLEAN
        OBVIOUS
    <2>3. Shape(j)
        <3> DEFINE list == Append(k.list, Bridge)
        <3>1. j = [k EXCEPT !.list = list, !.job = job]
            OBVIOUS
        <3> HIDE DEF job, list, j
        <3> QED
            BY <1>0, <2>2, <3>1 DEF Shape
    <2> QED
        BY <2>1, <2>3, UploadElse
<1>9. CASE JoinBridge(t)
    <2> DEFINE n == Len(k.list)
               moved == Finished(Navigated(k, k.list, n, Bridge))
               j == [moved EXCEPT !.session = [servers |-> k.list, current |-> n]]
    <2>1. Becomes(t, j) /\ left' = left /\ k.job.kind = "bridge"
        BY <1>9 DEF JoinBridge
    <2>2. Shape(moved)
        BY <1>0, Shapes
    <2>3. Shape(j)
        <3> HIDE DEF moved
        <3> QED
            BY <2>2 DEF Shape
    <2> HIDE DEF j
    <2> QED
        BY <2>1, <2>3, UploadElse
<1>10. CASE NoBridge(t)
    <2>1. Shape(Finished(k)) /\ Finished(k).job = NoJob
        BY <1>0, Shapes
    <2> QED
        BY <1>2, <1>10, <2>1 DEF NoBridge
<1> QED
    BY <1>1, <1>4, <1>5, <1>6, <1>7, <1>8, <1>9, <1>10
       DEF Jobs, OnCreateMap, UploadMap, OnDeleteMap, OnJoinBridge

LEMMA UploadPages ==
    ASSUME ~ Breaks, Uploading, NEW t \in Tabs, Pages(t)
    PROVE  Uploading'
<1> DEFINE k == tab[t]
<1>0. Shape(k) /\ NoJob.kind # "config" /\ Shape(Closed) /\ Closed.job = NoJob
    BY ClosedShape DEF Uploading, NoJob, None, Closed
<1>1. ASSUME NEW j, Becomes(t, j), Shape(j), k.job = NoJob, left' = left
      PROVE  Uploading'
    BY <1>0, <1>1, UploadElse
<1>2. CASE OnJoinMap(t)
    <2>1. Shape(Joined(k, k.maps)) /\ Joined(k, k.maps).job = k.job
        BY <1>0, Shapes
    <2> QED
        BY <1>2, <2>1, UploadGoesOn DEF OnJoinMap
<1>3. CASE Back(t)
    BY <1>1, <1>3, OpenedShape DEF Back
<1>4. CASE NewTab(t)
    <2>1. Becomes(t, Opened(Empty, {})) /\ left' = left /\ k.job = NoJob
        BY <1>0, <1>4 DEF NewTab
    <2> QED
        BY <1>1, <2>1, OpenedShape
<1>5. CASE CloseTab(t)
    BY <1>0, <1>1, <1>5 DEF CloseTab
<1>6. CASE Reload(t)
    <2> DEFINE joined == Joined(k, k.page.meant)
               j == [joined EXCEPT !.late = {}, !.job = NoJob]
    <2>1. Becomes(t, j) /\ left' = left /\ k.job = NoJob
        BY <1>6 DEF Reload
    <2>2. Shape(joined)
        BY <1>0, Shapes
    <2>3. NoJob = [kind |-> NoJob.kind, server |-> NoJob.server, secret |-> NoJob.secret]
          /\ NoJob.secret \in BOOLEAN
        BY DEF NoJob
    <2>4. Shape(j)
        <3> HIDE DEF joined
        <3> QED
            BY <2>2, <2>3 DEF Shape
    <2> HIDE DEF j
    <2> QED
        BY <1>1, <2>1, <2>4
<1> QED
    BY <1>2, <1>3, <1>4, <1>5, <1>6 DEF Pages

LEMMA UploadNext ==
    ASSUME ~ Breaks, Uploading, [Next]_vars
    PROVE  Uploading'
<1>1. ASSUME NEW t \in Tabs, Servers(t) PROVE Uploading'
    <2> DEFINE k == tab[t]
    <2>0. Shape(k)
        BY DEF Uploading
    <2>1. ASSUME NEW id, SelectServer(t, id) PROVE Uploading'
        BY <2>0, <2>1, Shapes, UploadGoesOn DEF SelectServer
    <2>2. ASSUME NEW id, OnDeleteServer(t, id) PROVE Uploading'
        <3> DEFINE j == [k EXCEPT !.list = RemoveAt(k.list, id), !.session.servers = <<>>]
        <3>1. Becomes(t, SelectAfter(j, id)) /\ left' = left
            BY <2>2 DEF OnDeleteServer
        <3>2. Shape(j) /\ j.job = k.job
            <4> DEFINE list == RemoveAt(k.list, id)
                       ses == [k.session EXCEPT !.servers = <<>>]
            <4>1. j = [k EXCEPT !.list = list, !.session = ses]
                OBVIOUS
            <4> HIDE DEF j, list, ses
            <4> QED
                BY <2>0, <4>1 DEF Shape
        <3>3. \A place : Shape(Selected(j, place)) /\ Selected(j, place).job = j.job
            <4> HIDE DEF j
            <4> QED
                BY <3>2, Shapes
        <3>4. Shape(SelectAfter(j, id)) /\ SelectAfter(j, id).job = k.job
            <4> HIDE DEF j
            <4> QED
                BY <3>2, <3>3 DEF SelectAfter
        <3> HIDE DEF j
        <3> QED
            BY <3>1, <3>4, UploadGoesOn
    <2>3. ASSUME NEW server, OnAddServer(t, server) PROVE Uploading'
        <3> DEFINE j == [k EXCEPT !.list = Append(k.list, server), !.session.servers = <<>>]
        <3>1. Becomes(t, j) /\ left' = left
            BY <2>3 DEF OnAddServer
        <3>2. Shape(j) /\ j.job = k.job
            <4> DEFINE list == Append(k.list, server)
                       ses == [k.session EXCEPT !.servers = <<>>]
            <4>1. j = [k EXCEPT !.list = list, !.session = ses]
                OBVIOUS
            <4> HIDE DEF j, list, ses
            <4> QED
                BY <2>0, <4>1 DEF Shape
        <3> QED
            BY <3>1, <3>2, UploadGoesOn
    <2> QED
        BY <1>1, <2>1, <2>2, <2>3 DEF Servers
<1>2. ASSUME NEW t \in Tabs, Answers(t) PROVE Uploading'
    <2> DEFINE k == tab[t]
    <2>0. Shape(k)
        BY DEF Uploading
    <2>1. ASSUME NEW n, QueryMaps(t, n) PROVE Uploading'
        <3> DEFINE rest == Without(k, n)
                   q == k.queries[n]
        <3>1. Becomes(t, Listed(rest, q)) /\ left' = left
            BY <2>1 DEF QueryMaps
        <3>2. Shape(rest) /\ rest.job = k.job
            BY <2>0, Shapes
        <3>3. Shape(Listed(rest, q)) /\ Listed(rest, q).job = k.job
            <4> HIDE DEF rest, q
            <4> QED
                BY <3>2, Shapes
        <3> QED
            BY <3>1, <3>3, UploadGoesOn
    <2>2. ASSUME NEW n, QueryMapsFails(t, n) PROVE Uploading'
        BY <2>0, <2>2, Shapes, UploadGoesOn DEF QueryMapsFails
    <2>3. ASSUME NEW id, LateAnswer(t, id) PROVE Uploading'
        <3> DEFINE j == [k EXCEPT !.late = @ \ {id}, !.session.current = 0]
        <3>1. Becomes(t, j) /\ left' = left
            BY <2>3 DEF LateAnswer
        <3>2. Shape(j) /\ j.job = k.job
            <4> DEFINE late == k.late \ {id}
                       ses == [k.session EXCEPT !.current = 0]
            <4>1. j = [k EXCEPT !.late = late, !.session = ses]
                OBVIOUS
            <4> HIDE DEF j, late, ses
            <4> QED
                BY <2>0, <4>1 DEF Shape
        <3> QED
            BY <3>1, <3>2, UploadGoesOn
    <2> QED
        BY <1>2, <2>1, <2>2, <2>3 DEF Answers
<1>3. CASE UNCHANGED vars
    BY <1>3 DEF vars, Uploading
<1> QED
    BY <1>1, <1>2, <1>3, UploadJobs, UploadPages DEF Next

(* A map that was uploaded without a password stays on the server only once its
   configuration is accepted: whatever is refused, in between and after, and
   whatever is done in other tabs, no half of such an upload is left behind,
   unless the connection breaks or the page is closed. *)
THEOREM NoHalfUploads ==
    ASSUME ~ Breaks
    PROVE  Spec => []UploadAllOrNothing
<1>1. Uploading /\ [Next]_vars => Uploading'
    BY UploadNext
<1>2. Uploading => UploadAllOrNothing
    BY DEF Uploading, UploadAllOrNothing, Configures
<1> QED
    BY <1>1, <1>2, UploadInit, PTL DEF Spec

-----------------------------------------------------------------------------
(* The storage and the lists of the tabs *)

Server == {Default, Bridge} \cup Added
Names == Server \cup {None}
Storage == [servers : Seq(Server), current : Nat]
Query == [id : Nat, server : Server]
Page == [at : {"closed", "lobby", "edit"}, server : Names, meant : Names]
Job == [kind : {None, "create", "put", "config", "delete", "key", "bridge"}, server : Names,
        secret : BOOLEAN]
TabState == [list : Seq(Server), sel : Nat, maps : Names, session : Storage,
             queries : Seq(Query), late : SUBSET Nat, page : Page, job : Job]

(* What is stored for every tab begins with the default server. *)
Usable(l) == l \in Storage /\ l.servers # <<>> /\ l.servers[1] = Default /\ l.current # 0

(* The list of a tab k and what is stored, l, have the same server at id. *)
Same(k, l, id) ==
    id \in 1 .. Len(k.list) /\ id \in 1 .. Len(l.servers) /\ k.list[id] = l.servers[id]

(* In the lobby of a tab, lists of maps on their way are those of servers that
   are stored where the tab has them; while maps are listed their server is the
   current one; and what was begun then is about that server. *)
InTheLobby(k, l) ==
    /\ k.session = Empty /\ k.late = {}
    /\ k.list # <<>> /\ k.list[1] = Default /\ k.sel \in 1 .. Len(k.list)
    /\ \A n \in 1 .. Len(k.queries) :
          /\ Same(k, l, k.queries[n].id)
          /\ k.queries[n].server = l.servers[k.queries[n].id]
    /\ k.maps # None => l.current = k.sel /\ k.maps = k.list[k.sel] /\ Same(k, l, k.sel)
    /\ k.job # NoJob =>
          /\ k.queries = <<>> /\ k.maps # None
          /\ k.job.kind # "bridge" => k.job.server = k.list[k.sel]
          /\ k.job.kind = "bridge" => k.list[Len(k.list)] = Bridge

(* On the page of a map what is stored, for every tab or for this one, leads to
   the server that was meant, and a list of maps that arrives late stores what is
   stored already. *)
OnThePage(k, l) ==
    /\ k.queries = <<>> /\ k.job = NoJob /\ k.page.server = k.page.meant
    /\ \/ /\ k.session = Empty /\ k.late \subseteq {l.current}
          /\ l.current \in 1 .. Len(l.servers) /\ l.servers[l.current] = k.page.meant
       \/ /\ HasItsOwn(k) /\ k.late = {}
          /\ k.session.current \in 1 .. Len(k.session.servers)
          /\ k.session.servers[k.session.current] = k.page.meant

Fits(k, l) ==
    /\ k \in TabState
    /\ k.page.at = "closed" => k = Closed
    /\ k.page.at = "lobby" => InTheLobby(k, l)
    /\ k.page.at = "edit" => OnThePage(k, l)

(* A tab that goes by what is stored, and a tab whose answers keep it. *)
Relies(k) == k # Closed /\ k.session = Empty
Agrees(k, l) ==
    \A n \in 1 .. Len(k.queries) : k.queries[n].id = k.sel => k.queries[n].id = l.current

(* The inductive invariant: while a tab goes by what is stored, no answer in
   another tab changes it. *)
Settled ==
    /\ Usable(local)
    /\ tab \in [Tabs -> TabState]
    /\ \A t \in Tabs : Fits(tab[t], local)
    /\ \A t \in Tabs : \A u \in Tabs \ {t} : Relies(tab[u]) => Agrees(tab[t], local)

(* The tab of a step, and the others. *)
LEMMA Moved ==
    ASSUME Settled, NEW t \in Tabs, NEW k \in TabState, Becomes(t, k)
    PROVE  /\ tab' \in [Tabs -> TabState] /\ tab'[t] = k
           /\ \A u \in Tabs \ {t} : tab'[u] = tab[u]
BY DEF Settled, Becomes

LEMMA ClosedFits ==
    ASSUME NEW l
    PROVE  Fits(Closed, l) /\ Closed.queries = <<>> /\ Closed.job = NoJob /\ Closed.late = {}
           /\ Closed.page.at = "closed" /\ Closed \in TabState /\ Closed.maps = None
<1>1. Closed = [list |-> <<Default>>, sel |-> 1, maps |-> None, session |-> Empty,
                queries |-> <<>>, late |-> {},
                page |-> [at |-> "closed", server |-> None, meant |-> None], job |-> NoJob]
    <2>1. [InLobby EXCEPT !.at = "closed"] = [at |-> "closed", server |-> None, meant |-> None]
        BY DEF InLobby
    <2> QED
        BY <2>1 DEF Closed
<1>2. <<Default>> \in Seq(Server) /\ None \in Names
    BY DEF Server, Names
<1>3. Empty \in Storage /\ NoJob \in Job /\ <<>> \in Seq(Query)
    BY <1>2 DEF Empty, Storage, NoJob, Job
<1>4. [at |-> "closed", server |-> None, meant |-> None] \in Page
    BY <1>2 DEF Page
<1>5. Closed \in TabState
    BY <1>1, <1>2, <1>3, <1>4 DEF TabState
<1> QED
    BY <1>1, <1>5 DEF Fits

(* A tab that is open and has nothing stored for itself goes by what is stored
   for every tab; another one is not disturbed by any change of that. *)
LEMMA OwnFits ==
    ASSUME NEW k, NEW l, NEW m, Fits(k, l), ~ Relies(k)
    PROVE  Fits(k, m) /\ k.queries = <<>> /\ Agrees(k, m) /\ (k = Closed \/ HasItsOwn(k))
<1>1. CASE k = Closed
    BY <1>1, ClosedFits DEF Agrees
<1>2. CASE k # Closed
    <2>1. k.session # Empty /\ k.page.at = "edit" /\ k \in TabState
        BY <1>2 DEF Fits, InTheLobby, Relies, TabState, Page
    <2>2. OnThePage(k, l)
        BY <2>1 DEF Fits
    <2>3. OnThePage(k, m) /\ k.queries = <<>> /\ HasItsOwn(k)
        BY <2>1, <2>2 DEF OnThePage
    <2> QED
        BY <2>1, <2>3 DEF Fits, Agrees
<1> QED
    BY <1>1, <1>2

(* What a tab relies on stays when servers are added after those stored. *)
LEMMA FitsExtended ==
    ASSUME NEW k, NEW l, NEW m, Fits(k, l), Usable(l), Usable(m), m.current = l.current,
           Len(l.servers) <= Len(m.servers),
           \A n \in 1 .. Len(l.servers) : m.servers[n] = l.servers[n]
    PROVE  Fits(k, m)
<1>1. Len(l.servers) \in Nat /\ Len(m.servers) \in Nat
    BY LenProperties DEF Usable, Storage
<1>2. \A n \in 1 .. Len(l.servers) : n \in 1 .. Len(m.servers)
    BY <1>1
<1>3. \A n : Same(k, l, n) => Same(k, m, n) /\ m.servers[n] = l.servers[n]
    BY <1>2 DEF Same
<1>4. ASSUME InTheLobby(k, l) PROVE InTheLobby(k, m)
    BY <1>3, <1>4 DEF InTheLobby
<1>5. ASSUME OnThePage(k, l) PROVE OnThePage(k, m)
    BY <1>2, <1>5 DEF OnThePage
<1> QED
    BY <1>4, <1>5 DEF Fits

(* No tab but t goes by what is stored. *)
LEMMA MovesAlone ==
    ASSUME Settled, NEW t \in Tabs, NEW k, Becomes(t, k), Alone(t),
           Usable(local'), Fits(k, local')
    PROVE  Settled'
<1>1. \A u \in Tabs \ {t} : ~ Relies(tab[u])
    BY ClosedFits DEF Alone, HasItsOwn, Relies, Empty
<1>2. \A u \in Tabs \ {t} : Fits(tab[u], local') /\ Agrees(tab[u], local')
    BY <1>1, OwnFits DEF Settled
<1>3. k \in TabState
    BY DEF Fits
<1>4. /\ tab' \in [Tabs -> TabState] /\ tab'[t] = k
      /\ \A u \in Tabs \ {t} : tab'[u] = tab[u]
    BY <1>3, Moved
<1>5. \A u \in Tabs : Fits(tab'[u], local')
    BY <1>2, <1>4
<1>6. ASSUME NEW u \in Tabs, NEW v \in Tabs \ {u}, Relies(tab'[v])
      PROVE  Agrees(tab'[u], local')
    <2>1. v = t /\ u \in Tabs \ {t}
        BY <1>1, <1>4, <1>6
    <2> QED
        BY <1>2, <1>4, <2>1
<1> QED
    BY <1>4, <1>5, <1>6 DEF Settled

(* What is stored stays, or gets another server after the others. *)
LEMMA MovesQuietly ==
    ASSUME Settled, NEW t \in Tabs, NEW k, Becomes(t, k),
           Usable(local'), local'.current = local.current,
           Len(local.servers) <= Len(local'.servers),
           \A n \in 1 .. Len(local.servers) : local'.servers[n] = local.servers[n],
           Fits(k, local'), Relies(k) => Relies(tab[t]),
           Agrees(tab[t], local) => Agrees(k, local')
    PROVE  Settled'
<1>1. /\ k \in TabState /\ Usable(local)
      /\ \A u \in Tabs : Fits(tab[u], local)
    BY DEF Fits, Settled
<1>2. /\ tab' \in [Tabs -> TabState] /\ tab'[t] = k
      /\ \A u \in Tabs \ {t} : tab'[u] = tab[u]
    BY <1>1, Moved
<1>3. \A u \in Tabs : Fits(tab'[u], local')
    BY <1>1, <1>2, FitsExtended
<1>4. \A j : Agrees(j, local) <=> Agrees(j, local')
    BY DEF Agrees
<1>5. ASSUME NEW u \in Tabs, NEW v \in Tabs \ {u}, Relies(tab'[v])
      PROVE  Agrees(tab'[u], local')
    <2>1. Relies(tab[v])
        BY <1>2, <1>5
    <2>2. Agrees(tab[u], local)
        BY <2>1 DEF Settled
    <2> QED
        BY <1>2, <1>4, <2>2
<1> QED
    BY <1>2, <1>3, <1>5 DEF Settled

(* Nothing that is stored changes. *)
LEMMA MovesOnly ==
    ASSUME Settled, NEW t \in Tabs, NEW k, Becomes(t, k), local' = local,
           Fits(k, local), Relies(k) => Relies(tab[t]), Agrees(tab[t], local) => Agrees(k, local)
    PROVE  Settled'
<1>1. /\ Usable(local') /\ local'.current = local.current /\ Fits(k, local')
      /\ Agrees(tab[t], local) => Agrees(k, local')
    BY DEF Settled
<1>2. Len(local.servers) <= Len(local'.servers)
    BY LenProperties DEF Settled, Usable, Storage
<1>3. \A n \in 1 .. Len(local.servers) : local'.servers[n] = local.servers[n]
    OBVIOUS
<1> QED
    BY <1>1, <1>2, <1>3, MovesQuietly

LEMMA TabFacts ==
    ASSUME Settled, NEW t \in Tabs, NEW k, k = tab[t]
    PROVE  /\ k \in TabState /\ Fits(k, local) /\ Usable(local)
           /\ Len(k.list) \in Nat /\ DOMAIN k.list = 1 .. Len(k.list)
           /\ \A n \in 1 .. Len(k.list) : k.list[n] \in Server
           /\ Len(k.queries) \in Nat /\ DOMAIN k.queries = 1 .. Len(k.queries)
           /\ \A n \in 1 .. Len(k.queries) : k.queries[n] \in Query
           /\ local.servers \in Seq(Server) /\ Len(local.servers) \in Nat
           /\ DOMAIN local.servers = 1 .. Len(local.servers) /\ 1 \in 1 .. Len(local.servers)
           /\ \A n \in 1 .. Len(local.servers) : local.servers[n] \in Server
           /\ local.servers[1] = Default /\ local.current \in Nat /\ local.current # 0
           /\ local = [servers |-> local.servers, current |-> local.current]
<1>1. k \in TabState /\ Fits(k, local) /\ Usable(local)
    BY DEF Settled
<1>2. k.list \in Seq(Server) /\ k.queries \in Seq(Query)
    BY <1>1 DEF TabState
<1>3. /\ local.servers \in Seq(Server) /\ local.servers # <<>> /\ local.servers[1] = Default
      /\ local.current \in Nat /\ local.current # 0
      /\ local = [servers |-> local.servers, current |-> local.current]
    BY <1>1 DEF Usable, Storage
<1>4. Len(local.servers) # 0
    BY <1>3, EmptySeq
<1>5. /\ Len(k.list) \in Nat /\ DOMAIN k.list = 1 .. Len(k.list)
      /\ Len(k.queries) \in Nat /\ DOMAIN k.queries = 1 .. Len(k.queries)
      /\ Len(local.servers) \in Nat /\ DOMAIN local.servers = 1 .. Len(local.servers)
    BY <1>2, <1>3, LenProperties
<1>6. /\ \A n \in 1 .. Len(k.list) : k.list[n] \in Server
      /\ \A n \in 1 .. Len(k.queries) : k.queries[n] \in Query
      /\ \A n \in 1 .. Len(local.servers) : local.servers[n] \in Server
    BY <1>2, <1>3, ElementOfSeq
<1> QED
    BY <1>1, <1>3, <1>4, <1>5, <1>6

(* A tab in the lobby, with nothing of its own stored. *)
LEMMA LobbyLoads ==
    ASSUME Settled, NEW t \in Tabs, NEW k, k = tab[t], k.page.at = "lobby" \/ k.job # NoJob
    PROVE  /\ k.page.at = "lobby" /\ InTheLobby(k, local) /\ k # Closed /\ Relies(k)
           /\ k.session = Empty /\ StoredServers(Empty) = local.servers
           /\ StoredCurrent(Empty) = local.current
           /\ k.maps # None => /\ local.current = k.sel /\ LoadedCurrent(Empty) = k.sel
                               /\ k.maps = local.servers[k.sel] /\ k.list[k.sel] = k.maps
                               /\ Sanitary(Empty) /\ SessionLoaded(Empty) = Empty
                               /\ LocalLoaded(Empty) = local
                               /\ k.sel \in 1 .. Len(local.servers)
<1>1. k.page.at = "lobby" /\ k # Closed
    <2>1. Fits(k, local) /\ k.page \in Page
        BY TabFacts DEF TabState
    <2>2. k.page.at \in {"closed", "lobby", "edit"}
        BY <2>1 DEF Page
    <2> QED
        BY <2>1, <2>2, ClosedFits DEF Fits, OnThePage
<1>2. InTheLobby(k, local)
    BY <1>1, TabFacts DEF Fits
<1>3. StoredServers(Empty) = local.servers /\ StoredCurrent(Empty) = local.current
    BY DEF StoredServers, StoredCurrent, Empty
<1>4. ASSUME k.maps # None
      PROVE  /\ local.current = k.sel /\ Sanitary(Empty)
             /\ k.maps = local.servers[k.sel] /\ k.list[k.sel] = k.maps
             /\ k.sel \in 1 .. Len(local.servers)
    <2>1. local.current = k.sel /\ k.maps = k.list[k.sel] /\ Same(k, local, k.sel)
        BY <1>2, <1>4 DEF InTheLobby
    <2>2. k.sel <= Len(local.servers)
        BY <2>1, TabFacts DEF Same
    <2> QED
        BY <1>3, <2>1, <2>2 DEF Same, Sanitary
<1> QED
    BY <1>1, <1>2, <1>3, <1>4 DEF Relies, InTheLobby, LoadedCurrent, SessionLoaded, LocalLoaded

-----------------------------------------------------------------------------
(* Servers are selected, added and removed *)

(* The list of a server that is stored where the tab has it is asked for. *)
LEMMA SelectedFits ==
    ASSUME NEW k \in TabState, NEW l, Usable(l), k.page.at = "lobby", k.job = NoJob,
           InTheLobby(k, l), NEW id, Same(k, l, id)
    PROVE  Fits(Selected(k, id), l)
<1> DEFINE q == [id |-> id, server |-> k.list[id]]
           queries == Append(k.queries, q)
           j == [k EXCEPT !.sel = id, !.maps = None, !.queries = queries]
<1>1. Selected(k, id) = j
    BY DEF Selected
<1>2. Len(k.list) \in Nat /\ Len(l.servers) \in Nat /\ k.list \in Seq(Server) /\ k.queries \in Seq(Query)
      /\ Len(k.queries) \in Nat
    BY LenProperties DEF TabState, Usable, Storage
<1>3. q \in Query /\ q.id = id /\ q.server = l.servers[id]
    <2>1. id \in Nat /\ id \in 1 .. Len(k.list) /\ k.list[id] = l.servers[id]
        BY <1>2 DEF Same
    <2>2. k.list[id] \in Server
        BY <1>2, <2>1, ElementOfSeq
    <2> QED
        BY <2>1, <2>2 DEF Query
<1> HIDE DEF q
<1>4. /\ queries \in Seq(Query) /\ Len(queries) = Len(k.queries) + 1
      /\ \A n \in 1 .. Len(k.queries) : queries[n] = k.queries[n]
      /\ queries[Len(k.queries) + 1] = q
    BY <1>2, <1>3, AppendProperties
<1> HIDE DEF queries
<1>5. /\ j.list = k.list /\ j.sel = id /\ j.maps = None /\ j.session = k.session
      /\ j.queries = queries /\ j.late = k.late /\ j.page = k.page /\ j.job = k.job
    BY DEF TabState
<1>6. j \in TabState
    <2>1. id \in Nat /\ None \in Names
        BY <1>2 DEF Same, Names
    <2> QED
        BY <1>4, <2>1 DEF TabState
<1> HIDE DEF j
<1>7. ASSUME NEW n \in 1 .. Len(j.queries)
      PROVE  Same(j, l, j.queries[n].id) /\ j.queries[n].server = l.servers[j.queries[n].id]
    <2>1. n \in 1 .. Len(k.queries) \/ n = Len(k.queries) + 1
        BY <1>2, <1>4, <1>5
    <2>2. CASE n \in 1 .. Len(k.queries)
        BY <1>4, <1>5, <2>2 DEF InTheLobby, Same
    <2>3. CASE n = Len(k.queries) + 1
        BY <1>3, <1>4, <1>5, <2>3 DEF Same
    <2> QED
        BY <2>1, <2>2, <2>3
<1>8. j.sel \in 1 .. Len(j.list) /\ j.session = Empty /\ j.late = {} /\ j.list # <<>>
      /\ j.list[1] = Default /\ j.job = NoJob /\ j.maps = None
    BY <1>5 DEF InTheLobby, Same
<1>9. InTheLobby(j, l)
    BY <1>7, <1>8 DEF InTheLobby
<1> QED
    BY <1>1, <1>5, <1>6, <1>9 DEF Fits

LEMMA SettledSelectServer ==
    ASSUME Careful, Settled, NEW t \in Tabs, NEW id, SelectServer(t, id)
    PROVE  Settled'
<1> DEFINE k == tab[t]
           j == Selected(k, id)
<1>1. /\ k.page.at = "lobby" /\ k.job = NoJob /\ id \in DOMAIN k.list /\ AsStored(k, id)
      /\ Alone(t) \/ id = local.current
      /\ Becomes(t, j) /\ local' = local
    BY DEF SelectServer, Lobby, Careful
<1>2. InTheLobby(k, local) /\ k.session = Empty /\ StoredServers(Empty) = local.servers
    BY <1>1, LobbyLoads
<1>3. Same(k, local, id)
    BY <1>1, <1>2, TabFacts DEF AsStored, Same
<1>4. Fits(j, local) /\ Usable(local)
    BY <1>1, <1>2, <1>3, SelectedFits, TabFacts
<1>5. CASE Alone(t)
    BY <1>1, <1>4, <1>5, MovesAlone
<1>6. CASE id = local.current
    <2>1. j.sel = id
        BY TabFacts DEF Selected, TabState
    <2>2. Agrees(j, local)
        BY <1>6, <2>1 DEF Agrees
    <2>3. Relies(k)
        BY <1>1, LobbyLoads
    <2> QED
        BY <1>1, <1>4, <2>2, <2>3, MovesOnly
<1> QED
    BY <1>1, <1>5, <1>6

LEMMA SettledAddServer ==
    ASSUME Careful, Settled, NEW t \in Tabs, NEW server \in Added, OnAddServer(t, server)
    PROVE  Settled'
<1> DEFINE k == tab[t]
           list == Append(k.list, server)
           ses == [k.session EXCEPT !.servers = <<>>]
           j == [k EXCEPT !.list = list, !.session = ses]
<1>0. /\ k \in TabState /\ k.list \in Seq(Server) /\ Len(k.list) \in Nat
      /\ DOMAIN k.list = 1 .. Len(k.list) /\ k.session \in Storage
      /\ local = [servers |-> local.servers, current |-> local.current]
      /\ local.current \in Nat /\ local.current # 0
    BY TabFacts DEF TabState
<1>1. /\ k.page.at = "lobby" /\ k.job = NoJob
      /\ Alone(t) \/ k.list = local.servers
      /\ Becomes(t, j) /\ local' = [local EXCEPT !.servers = list]
    BY DEF OnAddServer, Lobby, Careful
<1>2. InTheLobby(k, local) /\ k.session = Empty /\ Relies(k)
    BY <1>1, LobbyLoads
<1>2a. k.late = {} /\ k.list # <<>> /\ k.list[1] = Default /\ k.sel \in 1 .. Len(k.list)
    BY <1>2 DEF InTheLobby
<1>2b. 1 \in 1 .. Len(k.list)
    BY <1>0, <1>2a
<1>3. /\ list \in Seq(Server) /\ Len(list) = Len(k.list) + 1 /\ Len(k.list) \in Nat
      /\ \A n \in 1 .. Len(k.list) : list[n] = k.list[n] /\ n \in 1 .. Len(list)
    <2>1. server \in Server /\ k.list \in Seq(Server) /\ Len(k.list) \in Nat
        BY <1>0 DEF Server
    <2>2. /\ list \in Seq(Server) /\ Len(list) = Len(k.list) + 1
          /\ \A n \in 1 .. Len(k.list) : list[n] = k.list[n]
        BY <2>1, AppendProperties
    <2> QED
        BY <2>1, <2>2
<1> HIDE DEF list
<1>4. local' = [servers |-> list, current |-> local.current] /\ ses = Empty
    BY <1>0, <1>1, <1>2 DEF Empty
<1>5. list # <<>> /\ list[1] = Default
    BY <1>3, <1>2a, <1>2b
<1>6. Usable(local')
    BY <1>0, <1>3, <1>4, <1>5 DEF Usable, Storage
<1> HIDE DEF ses
<1>7. /\ j.list = list /\ j.sel = k.sel /\ j.maps = k.maps /\ j.session = ses
      /\ j.queries = k.queries /\ j.late = k.late /\ j.page = k.page /\ j.job = k.job
    BY <1>0 DEF TabState
<1>8. j \in TabState
    <2>1. Empty \in Storage
        BY DEF Empty, Storage
    <2> QED
        BY <1>0, <1>3, <1>4, <2>1 DEF TabState
<1> HIDE DEF j
<1>9. \A n : Same(k, local, n) => Same(j, local', n) /\ local'.servers[n] = local.servers[n]
    BY <1>3, <1>4, <1>7 DEF Same
<1>10. InTheLobby(j, local')
    <2>1. /\ j.session = Empty /\ j.late = {} /\ j.list # <<>> /\ j.list[1] = Default
          /\ j.sel \in 1 .. Len(j.list) /\ j.job = NoJob
        BY <1>1, <1>3, <1>4, <1>5, <1>7, <1>2a
    <2>2. \A n \in 1 .. Len(j.queries) :
             Same(j, local', j.queries[n].id) /\ j.queries[n].server = local'.servers[j.queries[n].id]
        BY <1>2, <1>7, <1>9 DEF InTheLobby
    <2>3. j.maps # None => local'.current = j.sel /\ j.maps = j.list[j.sel] /\ Same(j, local', j.sel)
        BY <1>2, <1>3, <1>4, <1>7, <1>9 DEF InTheLobby
    <2> QED
        BY <2>1, <2>2, <2>3 DEF InTheLobby
<1>11. Fits(j, local')
    <2>1. j.page.at = "lobby"
        BY <1>1, <1>7
    <2> QED
        BY <1>8, <1>10, <2>1 DEF Fits
<1>12. CASE Alone(t)
    BY <1>1, <1>6, <1>11, <1>12, MovesAlone
<1>13. CASE k.list = local.servers
    <2>1. /\ local'.current = local.current /\ Len(local.servers) <= Len(local'.servers)
          /\ \A n \in 1 .. Len(local.servers) : local'.servers[n] = local.servers[n]
        BY <1>3, <1>4, <1>13
    <2>2. Agrees(k, local) => Agrees(j, local')
        BY <1>7, <2>1 DEF Agrees
    <2> QED
        BY <1>1, <1>2, <1>6, <1>11, <2>1, <2>2, MovesQuietly
<1> QED
    BY <1>1, <1>12, <1>13

LEMMA SettledDeleteServer ==
    ASSUME Careful, Settled, NEW t \in Tabs, NEW id, OnDeleteServer(t, id)
    PROVE  Settled'
<1> DEFINE k == tab[t]
           list == RemoveAt(k.list, id)
           ses == [k.session EXCEPT !.servers = <<>>]
           j == [k EXCEPT !.list = list, !.session = ses]
<1>0. /\ k \in TabState /\ k.list \in Seq(Server) /\ Len(k.list) \in Nat
      /\ DOMAIN k.list = 1 .. Len(k.list) /\ k.session \in Storage
      /\ local = [servers |-> local.servers, current |-> local.current]
      /\ local.current \in Nat /\ local.current # 0
    BY TabFacts DEF TabState
<1>1. /\ k.page.at = "lobby" /\ k.job = NoJob /\ k.queries = <<>> /\ Alone(t)
      /\ id \in DOMAIN k.list /\ id # 1
      /\ Becomes(t, SelectAfter(j, id)) /\ local' = [local EXCEPT !.servers = list]
    BY DEF OnDeleteServer, Lobby, Careful
<1>2. InTheLobby(k, local) /\ k.session = Empty
    BY <1>1, LobbyLoads
<1>2a. k.late = {} /\ k.list # <<>> /\ k.list[1] = Default /\ k.sel \in 1 .. Len(k.list)
    BY <1>2 DEF InTheLobby
<1>3. /\ list \in Seq(Server) /\ Len(list) = Len(k.list) - 1 /\ Len(list) \in Nat
      /\ id \in 1 .. Len(k.list) /\ k.sel \in 1 .. Len(k.list) /\ Len(k.list) \in Nat
      /\ \A n \in 1 .. Len(list) : list[n] = IF n < id THEN k.list[n] ELSE k.list[n + 1]
    <2>1. k.list \in Seq(Server) /\ Len(k.list) \in Nat /\ id \in 1 .. Len(k.list)
        BY <1>0, <1>1
    <2>2. /\ list \in Seq(Server) /\ Len(list) = Len(k.list) - 1
          /\ \A n \in 1 .. Len(k.list) - 1 : list[n] = IF n < id THEN k.list[n] ELSE k.list[n + 1]
        BY <2>1, RemovedFrom
    <2> QED
        BY <1>2a, <2>1, <2>2
<1> HIDE DEF list
<1>4. local' = [servers |-> list, current |-> local.current] /\ ses = Empty
    BY <1>0, <1>1, <1>2 DEF Empty
<1>5. 1 \in 1 .. Len(list) /\ list # <<>> /\ list[1] = Default
    <2>1. 1 < id /\ id \in Int /\ id <= Len(k.list)
        BY <1>1, <1>3
    <2>2. 1 \in 1 .. Len(list) /\ list[1] = k.list[1]
        BY <1>3, <2>1
    <2> QED
        BY <1>2a, <2>2
<1>6. Usable(local')
    BY <1>0, <1>3, <1>4, <1>5 DEF Usable, Storage
<1> HIDE DEF ses
<1>7. /\ j.list = list /\ j.sel = k.sel /\ j.maps = k.maps /\ j.session = ses
      /\ j.queries = k.queries /\ j.late = k.late /\ j.page = k.page /\ j.job = k.job
    BY <1>0 DEF TabState
<1>8. j \in TabState
    <2>1. Empty \in Storage
        BY DEF Empty, Storage
    <2> QED
        BY <1>0, <1>3, <1>4, <2>1 DEF TabState
<1> HIDE DEF j
<1>9. \A n \in 1 .. Len(list) : Same(j, local', n)
    BY <1>4, <1>7 DEF Same
<1>10. /\ j.session = Empty /\ j.late = {} /\ j.list # <<>> /\ j.list[1] = Default
       /\ j.job = NoJob /\ j.queries = <<>> /\ j.page.at = "lobby"
    BY <1>1, <1>2, <1>4, <1>5, <1>7 DEF InTheLobby
<1>11. \A n \in 1 .. Len(j.queries) : FALSE
    BY <1>10
<1>12. ASSUME NEW place \in 1 .. Len(list), SelectAfter(j, id) = Selected(j, place)
       PROVE  Settled'
    <2> DEFINE i == [j EXCEPT !.sel = place, !.maps = None]
    <2>1. /\ i.list = j.list /\ i.sel = place /\ i.maps = None /\ i.session = j.session
          /\ i.queries = j.queries /\ i.late = j.late /\ i.page = j.page /\ i.job = j.job
        BY <1>8 DEF TabState
    <2>2. i \in TabState
        <3>1. place \in Nat /\ None \in Names
            BY <1>3 DEF Names
        <3> HIDE DEF j
        <3> QED
            BY <1>8, <3>1 DEF TabState
    <2>3. Selected(j, place) = Selected(i, place)
        BY <1>8 DEF Selected, TabState
    <2> HIDE DEF i
    <2>4. InTheLobby(i, local') /\ Same(i, local', place)
        BY <1>7, <1>9, <1>10, <1>11, <2>1 DEF InTheLobby, Same
    <2>5. Fits(Selected(i, place), local')
        BY <1>6, <1>10, <2>1, <2>2, <2>4, SelectedFits
    <2> QED
        BY <1>1, <1>6, <1>12, <2>3, <2>5, MovesAlone
<1>13. k.sel \in Int /\ id \in Int /\ 1 <= k.sel /\ k.sel <= Len(k.list) /\ 1 < id /\ id <= Len(k.list)
    BY <1>1, <1>3
<1>14. CASE k.sel = id
    <2>1. SelectAfter(j, id) = Selected(j, 1)
        BY <1>7, <1>14 DEF SelectAfter
    <2> QED
        BY <1>5, <1>12, <2>1
<1>15. CASE k.sel > id
    <2>1. SelectAfter(j, id) = Selected(j, k.sel - 1) /\ k.sel - 1 \in 1 .. Len(list)
        BY <1>3, <1>7, <1>13, <1>15 DEF SelectAfter
    <2> QED
        BY <1>12, <2>1
<1>16. CASE k.sel < id
    <2>1. SelectAfter(j, id) = j /\ k.sel \in 1 .. Len(list) /\ list[k.sel] = k.list[k.sel]
        BY <1>3, <1>7, <1>13, <1>16 DEF SelectAfter
    <2>2. j.maps # None => local'.current = j.sel /\ j.maps = j.list[j.sel] /\ Same(j, local', j.sel)
        BY <1>2, <1>4, <1>7, <1>9, <2>1 DEF InTheLobby
    <2>3. j.sel \in 1 .. Len(j.list)
        BY <1>7, <2>1
    <2>4. InTheLobby(j, local')
        BY <1>10, <1>11, <2>2, <2>3 DEF InTheLobby
    <2>5. Fits(j, local')
        BY <1>8, <1>10, <2>4 DEF Fits
    <2> QED
        BY <1>1, <1>6, <2>1, <2>5, MovesAlone
<1> QED
    BY <1>13, <1>14, <1>15, <1>16

-----------------------------------------------------------------------------
(* Lists of maps arrive *)

(* Without one of the lists on their way the tab fits as before. *)
LEMMA WithoutFits ==
    ASSUME NEW k \in TabState, NEW l, k.page.at = "lobby", InTheLobby(k, l),
           NEW n \in DOMAIN k.queries
    PROVE  /\ Without(k, n) \in TabState /\ InTheLobby(Without(k, n), l)
           /\ Agrees(k, l) => Agrees(Without(k, n), l)
           /\ Without(k, n).list = k.list /\ Without(k, n).sel = k.sel
           /\ Without(k, n).maps = k.maps /\ Without(k, n).session = k.session
           /\ Without(k, n).late = k.late
           /\ Without(k, n).page = k.page /\ Without(k, n).job = k.job
<1> DEFINE queries == RemoveAt(k.queries, n)
           j == [k EXCEPT !.queries = queries]
<1>0. Without(k, n) = j
    BY DEF Without
<1>1. k.queries \in Seq(Query) /\ n \in 1 .. Len(k.queries) /\ Len(k.queries) \in Nat
    BY LenProperties DEF TabState
<1>2. /\ queries \in Seq(Query) /\ Len(queries) = Len(k.queries) - 1
      /\ \A i \in 1 .. Len(k.queries) - 1 :
            queries[i] = IF i < n THEN k.queries[i] ELSE k.queries[i + 1]
    BY <1>1, RemovedFrom
<1>3. ASSUME NEW i \in 1 .. Len(queries)
      PROVE  \E m \in 1 .. Len(k.queries) : queries[i] = k.queries[m]
    <2>1. i \in 1 .. Len(k.queries) - 1 /\ i \in 1 .. Len(k.queries) /\ i + 1 \in 1 .. Len(k.queries)
        BY <1>1, <1>2
    <2> QED
        BY <1>2, <2>1
<1> HIDE DEF queries
<1>4. /\ j.list = k.list /\ j.sel = k.sel /\ j.maps = k.maps /\ j.session = k.session
      /\ j.queries = queries /\ j.late = k.late /\ j.page = k.page /\ j.job = k.job
    BY DEF TabState
<1>5. j \in TabState
    BY <1>2 DEF TabState
<1> HIDE DEF j
<1>6. k.queries # <<>>
    BY <1>1, EmptySeq
<1>7. \A i \in 1 .. Len(j.queries) :
         Same(j, l, j.queries[i].id) /\ j.queries[i].server = l.servers[j.queries[i].id]
    <2>1. \A i \in 1 .. Len(k.queries) :
             Same(j, l, k.queries[i].id) /\ k.queries[i].server = l.servers[k.queries[i].id]
        BY <1>4 DEF InTheLobby, Same
    <2> QED
        BY <1>3, <1>4, <2>1
<1>8. j.maps # None => l.current = j.sel /\ j.maps = j.list[j.sel] /\ Same(j, l, j.sel)
    BY <1>4 DEF InTheLobby, Same
<1>9. InTheLobby(j, l)
    BY <1>4, <1>6, <1>7, <1>8 DEF InTheLobby
<1>10. Agrees(k, l) => Agrees(j, l)
    BY <1>3, <1>4 DEF Agrees
<1> QED
    BY <1>0, <1>4, <1>5, <1>9, <1>10

LEMMA SettledQuery ==
    ASSUME Settled, NEW t \in Tabs, NEW n, QueryMaps(t, n) \/ QueryMapsFails(t, n)
    PROVE  Settled'
<1> DEFINE k == tab[t]
           rest == Without(k, n)
           q == k.queries[n]
<1>1. /\ n \in DOMAIN k.queries
      /\ \/ Becomes(t, Listed(rest, q)) /\ local' = LocalListed(k, q)
         \/ Becomes(t, rest) /\ local' = local
    BY DEF QueryMaps, QueryMapsFails
<1>2. k \in TabState /\ Fits(k, local) /\ Usable(local) /\ n \in 1 .. Len(k.queries)
    BY <1>1, TabFacts
<1>3. k.page.at = "lobby"
    <2>1. k.queries # <<>>
        <3>1. Len(k.queries) # 0 /\ k.queries \in Seq(Query)
            BY <1>2 DEF TabState
        <3> QED
            BY <3>1, EmptySeq
    <2>2. k # Closed /\ k.page.at # "edit"
        BY <1>2, <2>1, ClosedFits DEF Fits, OnThePage
    <2>3. k.page.at \in {"closed", "lobby", "edit"}
        BY <1>2 DEF TabState, Page
    <2> QED
        BY <1>2, <2>2, <2>3 DEF Fits
<1>4. InTheLobby(k, local) /\ Relies(k)
    BY <1>3, LobbyLoads
<1>5. /\ rest \in TabState /\ InTheLobby(rest, local) /\ rest.page = k.page
      /\ Agrees(k, local) => Agrees(rest, local)
      /\ rest.sel = k.sel /\ rest.session = Empty /\ rest.list = k.list /\ rest.job = k.job
    <2>1. /\ rest \in TabState /\ InTheLobby(rest, local) /\ rest.page = k.page
          /\ Agrees(k, local) => Agrees(rest, local)
          /\ rest.sel = k.sel /\ rest.list = k.list /\ rest.job = k.job
        <3>1. k \in TabState /\ k.page.at = "lobby" /\ InTheLobby(k, local) /\ n \in DOMAIN k.queries
            BY <1>1, <1>2, <1>3, <1>4
        <3> HIDE DEF k
        <3> QED
            BY <3>1, WithoutFits
    <2> QED
        BY <2>1 DEF InTheLobby
<1>6. Fits(rest, local)
    BY <1>3, <1>5 DEF Fits
<1>7. ASSUME Becomes(t, rest), local' = local PROVE Settled'
    BY <1>4, <1>5, <1>6, <1>7, MovesOnly
<1> HIDE DEF rest
<1>8. ASSUME Becomes(t, Listed(rest, q)), local' = LocalListed(k, q) PROVE Settled'
    <2>1. CASE k.sel # q.id
        BY <1>5, <1>7, <1>8, <2>1 DEF Listed, LocalListed
    <2>2. CASE k.sel = q.id
        <3> DEFINE j == [rest EXCEPT !.maps = q.server, !.session.current = 0]
        <3>1. Becomes(t, j) /\ local' = [local EXCEPT !.current = q.id]
            BY <1>5, <1>8, <2>2 DEF Listed, LocalListed
        <3>2. Same(k, local, q.id) /\ q.server = local.servers[q.id] /\ q \in Query
            BY <1>2, <1>4, TabFacts DEF InTheLobby
        <3>3. local' = [servers |-> local.servers, current |-> q.id]
            BY <1>2, <3>1 DEF Usable, Storage
        <3>4. q.id \in Nat /\ q.id # 0 /\ q.server \in Names
            BY <3>2 DEF Query, Names, Same
        <3>5. Usable(local')
            BY <1>2, <3>3, <3>4 DEF Usable, Storage
        <3>6. [rest.session EXCEPT !.current = 0] = Empty /\ Empty \in Storage
            BY <1>5 DEF Empty, Storage
        <3>7. /\ j.list = rest.list /\ j.sel = rest.sel /\ j.maps = q.server
              /\ j.session = [rest.session EXCEPT !.current = 0]
              /\ j.queries = rest.queries /\ j.late = rest.late /\ j.page = rest.page
              /\ j.job = rest.job
            BY <1>5 DEF TabState
        <3>8. j \in TabState
            <4>1. j = [rest EXCEPT !.maps = q.server, !.session = Empty]
                BY <3>6
            <4> HIDE DEF q
            <4> QED
                BY <1>5, <3>4, <3>6, <4>1 DEF TabState
        <3> HIDE DEF j
        <3>9. \A i : Same(rest, local, i) => Same(j, local', i) /\ local'.servers[i] = local.servers[i]
            BY <3>3, <3>7 DEF Same
        <3>10. j.job = NoJob
            <4>1. k.queries # <<>>
                <5>1. Len(k.queries) # 0 /\ k.queries \in Seq(Query)
                    BY <1>2 DEF TabState
                <5> QED
                    BY <5>1, EmptySeq
            <4> QED
                BY <1>4, <1>5, <3>7, <4>1 DEF InTheLobby
        <3>11. InTheLobby(j, local')
            <4>1. \A i \in 1 .. Len(j.queries) : /\ Same(j, local', j.queries[i].id)
                                                /\ j.queries[i].server = local'.servers[j.queries[i].id]
                BY <1>5, <3>7, <3>9 DEF InTheLobby
            <4>2. local'.current = j.sel /\ j.maps = j.list[j.sel] /\ Same(j, local', j.sel)
                BY <1>5, <2>2, <3>2, <3>3, <3>7 DEF Same
            <4>3. j.session = Empty /\ j.late = {} /\ j.list # <<>> /\ j.list[1] = Default
                  /\ j.sel \in 1 .. Len(j.list)
                BY <1>5, <3>6, <3>7 DEF InTheLobby
            <4> QED
                BY <3>10, <4>1, <4>2, <4>3 DEF InTheLobby
        <3>12. Fits(j, local')
            BY <1>3, <1>5, <3>7, <3>8, <3>11 DEF Fits
        <3>13. CASE Alone(t)
            BY <3>1, <3>5, <3>12, <3>13, MovesAlone
        <3>14. CASE ~ Alone(t)
            <4>1. PICK u \in Tabs \ {t} : Relies(tab[u])
                BY <3>14, OwnFits DEF Alone, Settled
            <4>2. Agrees(k, local)
                BY <4>1 DEF Settled
            <4>3. q.id = local.current
                BY <1>2, <2>2, <4>2 DEF Agrees
            <4>4. local' = local
                BY <3>3, <4>3, TabFacts
            <4>5. Agrees(j, local)
                BY <1>5, <3>7, <4>2 DEF Agrees
            <4> QED
                BY <1>4, <3>1, <3>12, <4>4, <4>5, MovesOnly
        <3> QED
            BY <3>13, <3>14
    <2> QED
        BY <2>1, <2>2
<1> QED
    BY <1>1, <1>7, <1>8

LEMMA SettledLateAnswer ==
    ASSUME Settled, NEW t \in Tabs, NEW id \in tab[t].late, LateAnswer(t, id)
    PROVE  Settled'
<1> DEFINE k == tab[t]
           j == [k EXCEPT !.late = @ \ {id}, !.session.current = 0]
<1>1. k \in TabState /\ Fits(k, local) /\ Usable(local) /\ id \in k.late
    BY TabFacts
<1>2. /\ k.page.at = "edit" /\ k # Closed
    <2>1. k # Closed /\ k.page.at # "lobby"
        BY <1>1, ClosedFits DEF Fits, InTheLobby
    <2>2. k.page.at \in {"closed", "lobby", "edit"}
        BY <1>1 DEF TabState, Page
    <2> QED
        BY <1>1, <2>1, <2>2 DEF Fits
<1>3. OnThePage(k, local) /\ k.session = Empty /\ id = local.current
    BY <1>1, <1>2 DEF Fits, OnThePage
<1>4. Becomes(t, j) /\ local' = [local EXCEPT !.current = id]
    BY DEF LateAnswer
<1>5. local' = local
    BY <1>3, <1>4, TabFacts
<1>6. [k.session EXCEPT !.current = 0] = Empty /\ Empty \in Storage
    BY <1>3 DEF Empty, Storage
<1>7. /\ j.session = Empty /\ j.late = k.late \ {id} /\ j.queries = k.queries
      /\ j.page = k.page /\ j.job = k.job /\ j.sel = k.sel
    BY <1>1, <1>6 DEF TabState
<1>8. j \in TabState
    <2>1. j = [k EXCEPT !.late = @ \ {id}, !.session = Empty]
        BY <1>6
    <2> QED
        BY <1>1, <1>6, <2>1 DEF TabState
<1> HIDE DEF j
<1>9. OnThePage(j, local)
    BY <1>3, <1>7 DEF OnThePage
<1>10. Fits(j, local)
    BY <1>2, <1>7, <1>8, <1>9 DEF Fits
<1>11. Relies(k) /\ (Agrees(k, local) => Agrees(j, local))
    BY <1>2, <1>3, <1>7 DEF Relies, Agrees
<1> QED
    BY <1>4, <1>5, <1>10, <1>11, MovesOnly

-----------------------------------------------------------------------------
(* From the lobby to the page of a map *)

(* A tab in the lobby whose maps are listed joins the server it has selected. *)
LEMMA JoinedFits ==
    ASSUME Settled, NEW t \in Tabs, NEW k, k = tab[t], k.page.at = "lobby", k.maps # None
    PROVE  LET j == Finished(Joined(k, k.maps)) IN
           /\ Fits(j, local) /\ j.queries = <<>>
           /\ k.job = NoJob => j = Joined(k, k.maps)
<1> DEFINE page == [at |-> "edit", server |-> k.maps, meant |-> k.maps]
           late == k.late \cup {q.id : q \in {r \in Range(k.queries) : r.id = k.sel}}
           i == [k EXCEPT !.page = page, !.late = late, !.queries = <<>>]
           j == [i EXCEPT !.job = NoJob]
<1>0. k \in TabState /\ InTheLobby(k, local) /\ Len(k.queries) \in Nat
      /\ DOMAIN k.queries = 1 .. Len(k.queries)
    BY TabFacts, LobbyLoads
<1>1. /\ k.session = Empty /\ StoredServers(Empty) = local.servers /\ LoadedCurrent(Empty) = k.sel
      /\ k.maps = local.servers[k.sel] /\ SessionLoaded(Empty) = Empty /\ local.current = k.sel
      /\ k.sel \in 1 .. Len(local.servers)
    BY LobbyLoads
<1>2. Joined(k, k.maps) = i
    <2>1. Navigated(k, StoredServers(Empty), LoadedCurrent(Empty), k.maps) = i
        BY <1>1 DEF Navigated
    <2>2. Joined(k, k.maps) = [i EXCEPT !.session = SessionLoaded(@)]
        BY <1>1, <2>1 DEF Joined
    <2>3. i \in [list : {k.list}, sel : {k.sel}, maps : {k.maps}, session : {Empty},
                 queries : {<<>>}, late : {late}, page : {page}, job : {k.job}]
        <3> HIDE DEF late, page
        <3> QED
            BY <1>0, <1>1 DEF TabState
    <2>4. i.session = Empty
        BY <2>3
    <2> HIDE DEF i
    <2>5. [i EXCEPT !.session = Empty] = i
        BY <2>3, <2>4
    <2> QED
        BY <1>1, <2>2, <2>4, <2>5
<1>3. page \in Page /\ k.maps \in Names
    BY <1>0 DEF Page, TabState
<1>4. late \subseteq {local.current} /\ late \in SUBSET Nat
    BY <1>0, <1>1 DEF InTheLobby, TabState
<1> HIDE DEF late, page
<1>5. i \in TabState /\ i.job = k.job
    <2>1. <<>> \in Seq(Query)
        OBVIOUS
    <2>2. i.job = k.job
        BY <1>0 DEF TabState
    <2>3. i \in TabState
        BY <1>0, <1>3, <1>4, <2>1 DEF TabState
    <2> QED
        BY <2>2, <2>3
<1>6. /\ j.session = Empty /\ j.late = late /\ j.queries = <<>> /\ j.page = page /\ j.job = NoJob
    BY <1>0, <1>1 DEF TabState
<1>7. j \in TabState
    <2>1. NoJob \in Job
        BY DEF NoJob, Job, Names
    <2> HIDE DEF i
    <2> QED
        BY <1>5, <2>1 DEF TabState
<1>8. k.job = NoJob => j = i
    <2> HIDE DEF i
    <2> QED
        BY <1>5 DEF TabState
<1> HIDE DEF j, i
<1>9. OnThePage(j, local)
    BY <1>1, <1>4, <1>6 DEF OnThePage, page
<1>10. Fits(j, local)
    <2>1. j.page.at = "edit"
        BY <1>6 DEF page
    <2> QED
        BY <1>7, <1>9, <2>1 DEF Fits
<1>11. Finished(Joined(k, k.maps)) = j
    BY <1>2 DEF Finished, j
<1> QED
    BY <1>2, <1>6, <1>8, <1>10, <1>11

LEMMA SettledJoinMap ==
    ASSUME Careful, Settled, NEW t \in Tabs, OnJoinMap(t)
    PROVE  Settled'
<1> DEFINE k == tab[t]
           j == Finished(Joined(k, k.maps))
<1>1. /\ k.page.at = "lobby" /\ k.job = NoJob /\ k.maps # None
      /\ Becomes(t, Joined(k, k.maps)) /\ local' = LocalLoaded(k.session)
    BY DEF OnJoinMap, Lobby, Careful
<1>2. Relies(k) /\ local' = local
    BY <1>1, LobbyLoads
<1>3. Fits(j, local) /\ j.queries = <<>> /\ j = Joined(k, k.maps)
    BY <1>1, JoinedFits
<1> HIDE DEF j
<1>4. Agrees(j, local)
    BY <1>3 DEF Agrees
<1> QED
    BY <1>1, <1>2, <1>3, <1>4, MovesOnly

(* What was begun is about the server that is listed, except for a bridge. *)
LEMMA Working ==
    ASSUME Settled, NEW t \in Tabs, NEW k, k = tab[t], k.job # NoJob
    PROVE  /\ k.page.at = "lobby" /\ InTheLobby(k, local) /\ k.queries = <<>> /\ k.maps # None
           /\ Relies(k) /\ k.session = Empty
           /\ k.job.kind # "bridge" => k.job.server = k.maps
           /\ k.job.kind = "bridge" => k.list[Len(k.list)] = Bridge
BY LobbyLoads DEF InTheLobby

LEMMA SettledSucceed ==
    ASSUME Settled, NEW t \in Tabs, Succeed(t)
    PROVE  Settled'
<1> DEFINE k == tab[t]
           j == Finished(Joined(k, k.maps))
<1>1. k.job.kind \in {"create", "config", "key"}
      /\ Becomes(t, Finished(Joined(k, k.job.server))) /\ local' = LocalLoaded(k.session)
    BY DEF Succeed
<1>2. k.job # NoJob /\ k.job.kind # "bridge"
    BY <1>1 DEF NoJob, None
<1>3. k.page.at = "lobby" /\ k.maps # None /\ Relies(k) /\ k.session = Empty
      /\ k.job.server = k.maps
    BY <1>2, Working
<1>4. local' = local
    BY <1>1, <1>3, LobbyLoads
<1>5. Fits(j, local) /\ j.queries = <<>>
    BY <1>3, JoinedFits
<1>6. Becomes(t, j)
    BY <1>1, <1>3
<1> HIDE DEF j
<1>7. Agrees(j, local)
    BY <1>5 DEF Agrees
<1> QED
    BY <1>3, <1>4, <1>5, <1>6, <1>7, MovesOnly

LEMMA SettledJoinBridge ==
    ASSUME Settled, NEW t \in Tabs, JoinBridge(t)
    PROVE  Settled'
<1> DEFINE k == tab[t]
           n == Len(k.list)
           page == [at |-> "edit", server |-> k.list[n], meant |-> Bridge]
           late == k.late \cup {q.id : q \in {r \in Range(k.queries) : r.id = k.sel}}
           ses == [servers |-> k.list, current |-> n]
           i == [k EXCEPT !.page = page, !.late = late, !.queries = <<>>]
           j == [k EXCEPT !.page = page, !.late = late, !.queries = <<>>, !.job = NoJob,
                          !.session = ses]
<1>1. k.job.kind = "bridge" /\ k.job # NoJob /\ local' = local
      /\ Becomes(t, [Finished(Navigated(k, k.list, n, Bridge)) EXCEPT !.session = ses])
    BY DEF JoinBridge, NoJob, None
<1>2. /\ InTheLobby(k, local) /\ k.queries = <<>> /\ k.list[n] = Bridge /\ k \in TabState
      /\ k.list \in Seq(Server) /\ n \in Nat /\ k.list # <<>> /\ k.late = {}
    <2>1. k \in TabState /\ n \in Nat
        BY TabFacts
    <2>2. InTheLobby(k, local) /\ k.queries = <<>> /\ k.list[n] = Bridge
        BY <1>1, Working
    <2>3. k.list # <<>> /\ k.late = {}
        BY <2>2 DEF InTheLobby
    <2> QED
        BY <2>1, <2>2, <2>3 DEF TabState
<1>3. n # 0 /\ n \in 1 .. n
    BY <1>2, EmptySeq
<1>4. late = {}
    BY <1>2 DEF Range
<1>5. ses \in Storage /\ page \in Page /\ NoJob \in Job
    BY <1>2 DEF Storage, Page, Names, Server, NoJob, Job
<1> HIDE DEF ses, page, late
<1>6. [Finished(Navigated(k, k.list, n, Bridge)) EXCEPT !.session = ses] = j
    BY <1>2 DEF Finished, Navigated, TabState, page, late
<1>7. /\ j \in TabState /\ j.session = ses /\ j.late = {} /\ j.queries = <<>> /\ j.page = page
      /\ j.job = NoJob
    BY <1>2, <1>4, <1>5 DEF TabState
<1> HIDE DEF j
<1>8. ses.servers = k.list /\ ses.current = n /\ page.at = "edit"
      /\ page.server = Bridge /\ page.meant = Bridge
    BY <1>2 DEF ses, page
<1>9. OnThePage(j, local)
    BY <1>2, <1>3, <1>7, <1>8 DEF OnThePage, HasItsOwn
<1>10. Fits(j, local) /\ ~ Relies(j) /\ Agrees(j, local)
    <2>1. j.session # Empty
        BY <1>2, <1>7, <1>8 DEF Empty
    <2> QED
        BY <1>7, <1>8, <1>9, <2>1 DEF Fits, Relies, Agrees
<1> QED
    BY <1>1, <1>6, <1>10, MovesOnly

-----------------------------------------------------------------------------
(* What is begun in the lobby *)

(* While something is under way the lists and the storage wait. *)
LEMMA SettledWork ==
    ASSUME Careful, Settled, NEW t \in Tabs,
           \/ \E kind \in {"create", "put", "delete", "key"}, secret \in BOOLEAN : Begin(t, kind, secret)
           \/ PutDone(t) \/ Fail(t) \/ NoBridge(t)
    PROVE  Settled'
<1> DEFINE k == tab[t]
<1>1. ASSUME NEW job \in Job, k.page.at = "lobby", k.queries = <<>>,
             job # NoJob => k.maps # None /\ job.kind # "bridge" /\ job.server = k.list[k.sel],
             Becomes(t, [k EXCEPT !.job = job]), local' = local
      PROVE  Settled'
    <2> DEFINE j == [k EXCEPT !.job = job]
    <2>1. k \in TabState
        BY TabFacts
    <2>2. InTheLobby(k, local) /\ Relies(k)
        BY <1>1, LobbyLoads
    <2>3. /\ j.list = k.list /\ j.sel = k.sel /\ j.maps = k.maps /\ j.session = k.session
          /\ j.queries = k.queries /\ j.late = k.late /\ j.page = k.page /\ j.job = job
          /\ j \in TabState
        BY <2>1 DEF TabState
    <2> HIDE DEF j
    <2>4. \A n : Same(k, local, n) <=> Same(j, local, n)
        BY <2>3 DEF Same
    <2>5. InTheLobby(j, local)
        BY <1>1, <2>2, <2>3, <2>4 DEF InTheLobby
    <2>6. Fits(j, local)
        BY <1>1, <2>3, <2>5 DEF Fits
    <2>7. Agrees(j, local)
        BY <1>1, <2>3 DEF Agrees
    <2> QED
        BY <1>1, <2>2, <2>6, <2>7, MovesOnly DEF j
<1>2. ASSUME NEW kind \in {"create", "put", "delete", "key"}, NEW secret \in BOOLEAN,
             Begin(t, kind, secret)
      PROVE  Settled'
    <2> DEFINE job == [kind |-> kind, server |-> k.list[k.sel], secret |-> secret]
    <2>1. /\ k.page.at = "lobby" /\ k.maps # None /\ k.queries = <<>>
          /\ Becomes(t, [k EXCEPT !.job = job]) /\ local' = local
        BY <1>2 DEF Begin, Lobby, Careful
    <2>2. k.list[k.sel] \in Names
        <3>1. k.sel \in 1 .. Len(k.list)
            BY <2>1, LobbyLoads DEF InTheLobby
        <3> QED
            BY <3>1, TabFacts DEF Names
    <2>3. job \in Job /\ job.kind # "bridge" /\ job.server = k.list[k.sel]
        BY <2>2 DEF Job
    <2> HIDE DEF job
    <2> QED
        BY <1>1, <2>1, <2>3
<1>3. ASSUME k.job # NoJob, Becomes(t, [k EXCEPT !.job = NoJob]), local' = local
      PROVE  Settled'
    <2>1. NoJob \in Job
        BY DEF NoJob, Job, Names
    <2>2. k.page.at = "lobby" /\ k.queries = <<>>
        BY <1>3, Working
    <2> QED
        BY <1>1, <1>3, <2>1, <2>2
<1>4. CASE PutDone(t)
    <2> DEFINE job == [k.job EXCEPT !.kind = "config"]
    <2>1. k.job.kind = "put" /\ k.job # NoJob /\ Becomes(t, [k EXCEPT !.job = job]) /\ local' = local
        BY <1>4 DEF PutDone, NoJob, None
    <2>2. k.job \in Job
        BY TabFacts DEF TabState
    <2>3. job \in Job /\ job.kind = "config" /\ job.server = k.job.server
        BY <2>2 DEF Job
    <2> HIDE DEF job
    <2>4. k.page.at = "lobby" /\ k.queries = <<>> /\ k.maps # None /\ InTheLobby(k, local)
        BY <2>1, Working
    <2>5. k.job.server = k.list[k.sel]
        BY <2>1, <2>4 DEF InTheLobby
    <2> QED
        BY <1>1, <2>1, <2>3, <2>4, <2>5
<1>5. CASE Fail(t)
    BY <1>3, <1>5 DEF Fail, Finished, NoJob, None
<1>6. CASE NoBridge(t)
    BY <1>3, <1>6 DEF NoBridge, Finished, NoJob, None
<1> QED
    BY <1>2, <1>4, <1>5, <1>6

LEMMA SettledMapDeleted ==
    ASSUME Settled, NEW t \in Tabs, MapDeleted(t)
    PROVE  Settled'
<1> DEFINE k == tab[t]
           i == [k EXCEPT !.job = NoJob]
           j == Selected(i, k.sel)
<1>1. /\ k.job # NoJob /\ k.job.kind # "bridge" /\ local' = local
      /\ Becomes(t, Finished(Selected(k, k.sel)))
    BY DEF MapDeleted, NoJob, None
<1>2. k.page.at = "lobby" /\ InTheLobby(k, local) /\ k.maps # None /\ Relies(k)
    BY <1>1, Working
<1>3. k \in TabState /\ Usable(local) /\ NoJob \in Job
    BY TabFacts DEF NoJob, Job, Names
<1>4. Finished(Selected(k, k.sel)) = j
    BY <1>3 DEF Finished, Selected, TabState
<1>5. /\ i.list = k.list /\ i.sel = k.sel /\ i.maps = k.maps /\ i.session = k.session
      /\ i.queries = k.queries /\ i.late = k.late /\ i.page = k.page /\ i.job = NoJob
      /\ i \in TabState
    BY <1>3 DEF TabState
<1> HIDE DEF i
<1>6. InTheLobby(i, local) /\ Same(i, local, k.sel) /\ local.current = k.sel
    BY <1>2, <1>5 DEF InTheLobby, Same
<1>7. Fits(j, local)
    BY <1>2, <1>3, <1>5, <1>6, SelectedFits
<1>8. j.sel = k.sel
    BY <1>5 DEF Selected, TabState
<1>9. Agrees(j, local)
    BY <1>6, <1>8 DEF Agrees
<1> HIDE DEF j
<1> QED
    BY <1>1, <1>2, <1>4, <1>7, <1>9, MovesOnly

LEMMA SettledNotHere ==
    ASSUME Settled, NEW t \in Tabs, NotHere(t)
    PROVE  Settled'
<1> DEFINE k == tab[t]
           list == Append(k.list, Bridge)
           job == [kind |-> "bridge", server |-> Bridge, secret |-> FALSE]
           j == [k EXCEPT !.list = list, !.job = job]
<1>1. k.job # NoJob /\ local' = local /\ Becomes(t, j)
    BY DEF NotHere, NoJob, None
<1>2. k.page.at = "lobby" /\ InTheLobby(k, local) /\ k.queries = <<>> /\ k.maps # None /\ Relies(k)
    BY <1>1, Working
<1>3. k \in TabState /\ k.list \in Seq(Server) /\ Len(k.list) \in Nat
    BY TabFacts DEF TabState
<1>4. /\ list \in Seq(Server) /\ Len(list) = Len(k.list) + 1
      /\ \A n \in 1 .. Len(k.list) : list[n] = k.list[n]
      /\ list[Len(k.list) + 1] = Bridge
    <2>1. Bridge \in Server
        BY DEF Server
    <2> QED
        BY <1>3, <2>1, AppendProperties
<1>5. job \in Job /\ job.kind = "bridge"
    BY DEF Job, Names, Server
<1> HIDE DEF list, job
<1>6. /\ j.list = list /\ j.sel = k.sel /\ j.maps = k.maps /\ j.session = k.session
      /\ j.queries = k.queries /\ j.late = k.late /\ j.page = k.page /\ j.job = job
    BY <1>3 DEF TabState
<1>7. j \in TabState
    BY <1>3, <1>4, <1>5 DEF TabState
<1> HIDE DEF j
<1>8. \A n \in 1 .. Len(k.list) : n \in 1 .. Len(list) /\ list[n] = k.list[n]
    BY <1>3, <1>4
<1>9. 1 \in 1 .. Len(k.list) /\ k.sel \in 1 .. Len(k.list) /\ k.list[1] = Default
      /\ k.session = Empty /\ k.late = {}
    BY <1>2, <1>3 DEF InTheLobby
<1>10. j.list # <<>> /\ j.list[1] = Default /\ j.sel \in 1 .. Len(j.list)
       /\ j.list[Len(j.list)] = Bridge
    <2>1. list # <<>>
        BY <1>3, <1>4
    <2> QED
        BY <1>4, <1>6, <1>8, <1>9, <2>1
<1>11. j.maps # None => local.current = j.sel /\ j.maps = j.list[j.sel] /\ Same(j, local, j.sel)
    BY <1>2, <1>6, <1>8, <1>9 DEF InTheLobby, Same
<1>12. \A n \in 1 .. Len(j.queries) : FALSE
    BY <1>2, <1>6
<1>13. InTheLobby(j, local)
    BY <1>2, <1>5, <1>6, <1>9, <1>10, <1>11, <1>12 DEF InTheLobby
<1>14. Fits(j, local)
    BY <1>2, <1>6, <1>7, <1>13 DEF Fits
<1>15. Agrees(j, local)
    BY <1>12 DEF Agrees
<1> QED
    BY <1>1, <1>2, <1>14, <1>15, MovesOnly

-----------------------------------------------------------------------------
(* Tabs are opened, loaded again and closed *)

(* The lobby opens with what is stored for every tab. *)
LEMMA OpenedFits ==
    ASSUME Usable(local), NEW l, l = LocalLoaded(Empty)
    PROVE  LET j == Opened(Empty, {}) IN
           Fits(j, l) /\ Agrees(j, l) /\ Usable(l) /\ j.session = Empty /\ j # Closed
<1> DEFINE id == LoadedCurrent(Empty)
           q == [id |-> id, server |-> local.servers[id]]
           j == [list |-> local.servers, sel |-> id, maps |-> None, session |-> Empty,
                 queries |-> <<q>>, late |-> {}, page |-> InLobby, job |-> NoJob]
<1>1. StoredServers(Empty) = local.servers /\ StoredCurrent(Empty) = local.current
    BY DEF StoredServers, StoredCurrent, Empty
<1>2. Opened(Empty, {}) = j
    BY <1>1 DEF Opened, SessionLoaded
<1>3. /\ local.servers \in Seq(Server) /\ Len(local.servers) \in Nat /\ 1 \in 1 .. Len(local.servers)
      /\ local.servers # <<>> /\ local.servers[1] = Default /\ local.current \in Nat
      /\ local.current # 0
    BY EmptySeq, LenProperties DEF Usable, Storage
<1>4. /\ Usable(l) /\ id \in 1 .. Len(local.servers) /\ id = l.current
      /\ id \in 1 .. Len(l.servers) /\ l.servers[id] = local.servers[id]
    <2>1. CASE Sanitary(Empty)
        <3>1. l = local /\ id = local.current /\ local.current <= Len(local.servers)
            BY <1>1, <2>1 DEF LocalLoaded, LoadedCurrent, Sanitary
        <3> QED
            BY <1>3, <3>1
    <2>2. CASE ~ Sanitary(Empty)
        <3>1. l = [servers |-> <<Default>>, current |-> 1] /\ id = 1
            BY <2>2 DEF LocalLoaded, LoadedCurrent, Fresh
        <3>2. <<Default>> \in Seq(Server) /\ <<Default>> # <<>> /\ Len(<<Default>>) = 1
              /\ <<Default>>[1] = Default
            BY DEF Server
        <3>3. Usable(l)
            BY <3>1, <3>2 DEF Usable, Storage
        <3> QED
            BY <1>3, <3>1, <3>2, <3>3
    <2> QED
        BY <2>1, <2>2
<1> HIDE DEF id
<1>5. q \in Query /\ q.id = id /\ q.server = local.servers[id]
    <2>1. id \in Nat /\ local.servers[id] \in Server
        BY <1>3, <1>4, ElementOfSeq
    <2> QED
        BY <2>1 DEF Query
<1> HIDE DEF q
<1>6. <<q>> \in Seq(Query) /\ Len(<<q>>) = 1 /\ <<q>>[1] = q
    BY <1>5
<1>7. Empty \in Storage /\ NoJob \in Job /\ InLobby \in Page /\ None \in Names /\ id \in Nat
    BY <1>4 DEF Empty, Storage, NoJob, Job, InLobby, Page, Names
<1>8. j \in TabState
    BY <1>3, <1>6, <1>7 DEF TabState
<1>9. /\ j.list = local.servers /\ j.sel = id /\ j.maps = None /\ j.session = Empty
      /\ j.queries = <<q>> /\ j.late = {} /\ j.page = InLobby /\ j.job = NoJob
    OBVIOUS
<1> HIDE DEF j
<1>10. j.page.at = "lobby"
    BY <1>9 DEF InLobby
<1>11. \A n \in 1 .. Len(j.queries) : n = 1 /\ j.queries[n] = q
    BY <1>6, <1>9
<1>12. Same(j, l, id)
    BY <1>4, <1>9 DEF Same
<1>13. InTheLobby(j, l)
    BY <1>3, <1>4, <1>5, <1>9, <1>11, <1>12 DEF InTheLobby
<1>14. Fits(j, l) /\ Agrees(j, l)
    BY <1>4, <1>5, <1>8, <1>10, <1>11, <1>13 DEF Fits, Agrees
<1>15. j # Closed
    BY <1>10, ClosedFits
<1> QED
    BY <1>2, <1>4, <1>9, <1>14, <1>15

LEMMA SettledNewTab ==
    ASSUME Careful, Settled, NEW t \in Tabs, NewTab(t)
    PROVE  Settled'
<1> DEFINE j == Opened(Empty, {})
<1>1. /\ tab[t] = Closed /\ Becomes(t, j) /\ local' = LocalLoaded(Empty)
      /\ \A u \in Tabs : \A q \in Range(tab[u].queries) : q.id = local.current
    BY DEF NewTab, Careful
<1>2. Usable(local) /\ Usable(local') /\ Fits(j, local') /\ Agrees(j, local') /\ j \in TabState
    BY <1>1, OpenedFits DEF Settled, Fits
<1>3. \A u \in Tabs : \A n \in 1 .. Len(tab[u].queries) : tab[u].queries[n].id = local.current
    <2> SUFFICES ASSUME NEW u \in Tabs, NEW n \in 1 .. Len(tab[u].queries)
                 PROVE  tab[u].queries[n].id = local.current
        OBVIOUS
    <2>1. DOMAIN tab[u].queries = 1 .. Len(tab[u].queries)
        BY TabFacts
    <2> QED
        BY <1>1, <2>1 DEF Range
<1>4. \A u \in Tabs : Fits(tab[u], local') /\ Agrees(tab[u], local')
    <2>1. CASE Sanitary(Empty)
        BY <1>1, <1>3, <2>1 DEF LocalLoaded, Settled, Agrees
    <2>2. CASE ~ Sanitary(Empty)
        <3>1. ~ (local.current \in 1 .. Len(local.servers))
            <4>1. ~ (local.current <= Len(local.servers))
                BY <2>2 DEF Sanitary, StoredCurrent, StoredServers, Empty
            <4> QED
                BY <1>2, <4>1, LenProperties DEF Usable, Storage
        <3>2. ASSUME NEW u \in Tabs
              PROVE  Fits(tab[u], local') /\ Agrees(tab[u], local')
            <4> DEFINE k == tab[u]
            <4>1. Fits(k, local) /\ k \in TabState /\ Len(k.queries) \in Nat
                BY TabFacts
            <4>2. CASE k.page.at = "lobby"
                <5>1. InTheLobby(k, local)
                    BY <4>1, <4>2 DEF Fits
                <5>2. k.maps = None
                    BY <3>1, <5>1 DEF InTheLobby, Same
                <5>3. \A n \in 1 .. Len(k.queries) : FALSE
                    BY <1>3, <3>1, <5>1 DEF InTheLobby, Same
                <5>4. InTheLobby(k, local')
                    BY <5>1, <5>2, <5>3 DEF InTheLobby
                <5> QED
                    BY <4>1, <4>2, <5>3, <5>4 DEF Fits, Agrees
            <4>3. CASE k.page.at # "lobby"
                <5>1. ~ Relies(k)
                    <6>1. k.page.at \in {"closed", "lobby", "edit"}
                        BY <4>1 DEF TabState, Page
                    <6>2. CASE k.page.at = "closed"
                        BY <4>1, <6>2 DEF Fits, Relies
                    <6>3. CASE k.page.at = "edit"
                        BY <3>1, <4>1, <6>3 DEF Fits, OnThePage, Relies, HasItsOwn, Empty
                    <6> QED
                        BY <4>3, <6>1, <6>2, <6>3
                <5> QED
                    BY <4>1, <5>1, OwnFits
            <4> QED
                BY <4>2, <4>3
        <3> QED
            BY <3>2
    <2> QED
        BY <2>1, <2>2
<1>5. /\ tab' \in [Tabs -> TabState] /\ tab'[t] = j
      /\ \A u \in Tabs \ {t} : tab'[u] = tab[u]
    BY <1>1, <1>2, Moved
<1> HIDE DEF j
<1>6. \A u \in Tabs : Fits(tab'[u], local') /\ Agrees(tab'[u], local')
    BY <1>2, <1>4, <1>5
<1> QED
    BY <1>2, <1>5, <1>6 DEF Settled

LEMMA SettledCloseTab ==
    ASSUME Settled, NEW t \in Tabs, CloseTab(t)
    PROVE  Settled'
<1>1. Becomes(t, Closed) /\ local' = local
    BY DEF CloseTab
<1>2. Fits(Closed, local) /\ ~ Relies(Closed) /\ Agrees(Closed, local)
    BY ClosedFits DEF Relies, Agrees
<1> QED
    BY <1>1, <1>2, MovesOnly

(* The page of a map, what is stored for it, and what it loads. *)
LEMMA PageLoads ==
    ASSUME Settled, NEW t \in Tabs, NEW k, k = tab[t], k.page.at = "edit"
    PROVE  /\ OnThePage(k, local) /\ k # Closed
           /\ Sanitary(k.session) /\ SessionLoaded(k.session) = k.session
           /\ LocalLoaded(k.session) = local
           /\ LoadedCurrent(k.session) = StoredCurrent(k.session)
           /\ StoredServers(k.session)[StoredCurrent(k.session)] = k.page.meant
<1>1. OnThePage(k, local) /\ k # Closed /\ k \in TabState
    BY TabFacts, ClosedFits DEF Fits
<1>2. Sanitary(k.session) /\ StoredServers(k.session)[StoredCurrent(k.session)] = k.page.meant
    <2>1. CASE k.session = Empty
        <3>1. StoredServers(Empty) = local.servers /\ StoredCurrent(Empty) = local.current
            BY DEF StoredServers, StoredCurrent, Empty
        <3>2. ~ HasItsOwn(k)
            BY <2>1 DEF HasItsOwn, Empty
        <3>3. local.current \in 1 .. Len(local.servers) /\ local.servers[local.current] = k.page.meant
            BY <1>1, <3>2 DEF OnThePage
        <3>4. local.current <= Len(local.servers)
            BY <3>3, TabFacts
        <3> QED
            BY <2>1, <3>1, <3>3, <3>4 DEF Sanitary
    <2>2. CASE k.session # Empty
        <3>1. /\ HasItsOwn(k) /\ k.session.current \in 1 .. Len(k.session.servers)
              /\ k.session.servers[k.session.current] = k.page.meant
            BY <1>1, <2>2 DEF OnThePage
        <3>2. StoredServers(k.session) = k.session.servers /\ StoredCurrent(k.session) = k.session.current
            BY <3>1 DEF HasItsOwn, StoredServers, StoredCurrent
        <3>3. k.session.servers \in Seq(Server)
            BY <1>1 DEF TabState, Storage
        <3>4. Len(k.session.servers) \in Nat
            BY <3>3, LenProperties
        <3> QED
            BY <3>1, <3>2, <3>4 DEF Sanitary
    <2> QED
        BY <2>1, <2>2
<1> QED
    BY <1>1, <1>2 DEF SessionLoaded, LocalLoaded, LoadedCurrent

LEMMA SettledBack ==
    ASSUME Careful, Settled, NEW t \in Tabs, Back(t)
    PROVE  Settled'
<1> DEFINE k == tab[t]
           j == Opened(Empty, {})
<1>1. /\ k.page.at = "edit" /\ k.late = {} /\ k.session = Empty
      /\ Becomes(t, j) /\ local' = LocalLoaded(Empty)
    BY DEF Back, Careful
<1>2. local' = local /\ k # Closed
    BY <1>1, PageLoads
<1>3. Fits(j, local) /\ Agrees(j, local)
    BY <1>1, <1>2, OpenedFits DEF Settled
<1> HIDE DEF j
<1> QED
    BY <1>1, <1>2, <1>3, MovesOnly DEF Relies

LEMMA SettledReload ==
    ASSUME Settled, NEW t \in Tabs, Reload(t)
    PROVE  Settled'
<1> DEFINE k == tab[t]
           servers == StoredServers(k.session)
           page == [at |-> "edit", server |-> servers[LoadedCurrent(k.session)], meant |-> k.page.meant]
           late == k.late \cup {q.id : q \in {r \in Range(k.queries) : r.id = k.sel}}
           i == [k EXCEPT !.page = page, !.late = late, !.queries = <<>>]
           ses == SessionLoaded(i.session)
           j == [k EXCEPT !.page = page, !.queries = <<>>, !.late = {}, !.job = NoJob]
<1>1. /\ k.page.at = "edit" /\ local' = LocalLoaded(k.session)
      /\ Becomes(t, [Joined(k, k.page.meant) EXCEPT !.late = {}, !.job = NoJob])
    BY DEF Reload
<1>2. /\ OnThePage(k, local) /\ k # Closed /\ k \in TabState /\ SessionLoaded(k.session) = k.session
      /\ local' = local /\ page.server = k.page.meant
    BY <1>1, PageLoads, TabFacts
<1> HIDE DEF page, late
<1>3. /\ i.list = k.list /\ i.sel = k.sel /\ i.maps = k.maps /\ i.session = k.session
      /\ i.queries = <<>> /\ i.page = page /\ ses = k.session
    BY <1>2 DEF TabState
<1>4. [Joined(k, k.page.meant) EXCEPT !.late = {}, !.job = NoJob] = j
    <2>1. Joined(k, k.page.meant) = [i EXCEPT !.session = SessionLoaded(@)]
        BY DEF Joined, Navigated, page, late
    <2>2. Joined(k, k.page.meant) = [i EXCEPT !.session = k.session]
        BY <1>3, <2>1
    <2> QED
        BY <1>2, <2>2 DEF TabState
<1>5. page \in Page /\ NoJob \in Job /\ page.at = "edit" /\ page.meant = k.page.meant
    <2>1. k.page.meant \in Names
        BY <1>2 DEF TabState, Page
    <2>2. page = [at |-> "edit", server |-> k.page.meant, meant |-> k.page.meant]
        BY <1>2 DEF page
    <2> QED
        BY <2>1, <2>2 DEF Page, NoJob, Job, Names
<1>6. /\ j.session = k.session /\ j.queries = <<>> /\ j.late = {} /\ j.page = page
      /\ j.job = NoJob /\ j.sel = k.sel
    BY <1>2 DEF TabState
<1>7. j \in TabState
    <2>1. <<>> \in Seq(Query)
        OBVIOUS
    <2> QED
        BY <1>2, <1>5, <2>1 DEF TabState
<1> HIDE DEF j
<1>8. OnThePage(j, local)
    BY <1>2, <1>5, <1>6 DEF OnThePage, HasItsOwn
<1>9. Fits(j, local) /\ Agrees(j, local) /\ (Relies(j) => Relies(k))
    BY <1>2, <1>5, <1>6, <1>7, <1>8 DEF Fits, Agrees, Relies
<1> QED
    BY <1>1, <1>2, <1>4, <1>9, MovesOnly

-----------------------------------------------------------------------------
LEMMA SettledInit == Init => Settled
<1> SUFFICES ASSUME Init PROVE Settled
    OBVIOUS
<1>1. local = [servers |-> <<Default>>, current |-> 1] /\ \A t \in Tabs : tab[t] = Closed
    BY DEF Init, Fresh
<1>2. <<Default>> \in Seq(Server) /\ <<Default>> # <<>> /\ <<Default>>[1] = Default
    BY DEF Server
<1>3. Usable(local)
    BY <1>1, <1>2 DEF Usable, Storage
<1>4. tab \in [Tabs -> TabState]
    BY <1>1, ClosedFits DEF Init
<1> QED
    BY <1>1, <1>3, <1>4, ClosedFits DEF Settled, Relies

LEMMA SettledEnough == Settled => ListedIsStored /\ JoinsTheRightServer
<1> SUFFICES ASSUME Settled PROVE ListedIsStored /\ JoinsTheRightServer
    OBVIOUS
<1>1. JoinsTheRightServer
    BY TabFacts DEF Fits, OnThePage, JoinsTheRightServer
<1>2. ASSUME NEW t \in Tabs, NEW k, k = tab[t], k.maps # None, k.page.at = "lobby"
      PROVE  /\ k.sel \in DOMAIN k.list /\ k.list[k.sel] = k.maps
             /\ \A ses \in {k.session, Empty} :
                   Sanitary(ses) /\ StoredServers(ses)[StoredCurrent(ses)] = k.maps
    <2>1. k.sel \in 1 .. Len(k.list) /\ DOMAIN k.list = 1 .. Len(k.list)
        BY <1>2, LobbyLoads, TabFacts DEF InTheLobby
    <2> QED
        BY <1>2, <2>1, LobbyLoads
<1> QED
    BY <1>1, <1>2 DEF ListedIsStored

LEMMA SettledNext ==
    ASSUME Careful, Settled, [Next]_vars
    PROVE  Settled'
<1>1. ASSUME NEW t \in Tabs, Servers(t) PROVE Settled'
    BY <1>1, SettledSelectServer, SettledDeleteServer, SettledAddServer DEF Servers
<1>2. ASSUME NEW t \in Tabs, Answers(t) PROVE Settled'
    BY <1>2, SettledQuery, SettledLateAnswer DEF Answers
<1>3. ASSUME NEW t \in Tabs, Jobs(t) PROVE Settled'
    BY <1>3, SettledWork, SettledSucceed, SettledMapDeleted, SettledNotHere, SettledJoinBridge
       DEF Jobs, OnCreateMap, UploadMap, OnDeleteMap, OnJoinBridge
<1>4. ASSUME NEW t \in Tabs, Pages(t) PROVE Settled'
    BY <1>4, SettledJoinMap, SettledBack, SettledNewTab, SettledCloseTab, SettledReload DEF Pages
<1>5. CASE UNCHANGED vars
    BY <1>5 DEF vars, Settled
<1> QED
    BY <1>1, <1>2, <1>3, <1>4, <1>5 DEF Next

(* In every tab the maps that are listed are those of the server that is
   selected, and the storage says the same, whatever the order in which lists
   arrive, for any tabs, any servers and any length of use. *)
THEOREM ListingsAreStored ==
    ASSUME Careful
    PROVE  Spec => []ListedIsStored
<1>1. Settled /\ [Next]_vars => Settled'
    BY SettledNext
<1> QED
    BY <1>1, SettledInit, SettledEnough, PTL DEF Spec

(* In every tab the page of a map connects to the server on which the user
   joined or made it, however it was reached: from the list, after a creation or
   an upload, by a key, over a bridge, and when it is loaded again. *)
THEOREM PagesFindTheirServer ==
    ASSUME Careful
    PROVE  Spec => []JoinsTheRightServer
<1>1. Settled /\ [Next]_vars => Settled'
    BY SettledNext
<1> QED
    BY <1>1, SettledInit, SettledEnough, PTL DEF Spec
=============================================================================
