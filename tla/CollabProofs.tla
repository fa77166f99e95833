---------------------------- MODULE CollabProofs ----------------------------
(* Proofs about Collab, for any number of clients, parts and values. *)
EXTENDS Collab, SeqFacts, FiniteSetTheorems

-----------------------------------------------------------------------------
(* What History does to a client *)

Writing == Seq(Cells \X Values)

(* Dispatching a list of writes yields a map, and a part that none of them
   names keeps its value. *)
LEMMA AppliedMap ==
    ASSUME NEW d \in Doc, NEW writes \in Writing
    PROVE  /\ Applied(d, writes) \in Doc
           /\ \A x \in Cells : (\A i \in 1 .. Len(writes) : writes[i][1] # x)
                               => Applied(d, writes)[x] = d[x]
<1>1. \A i \in 1 .. Len(writes) : writes[i] \in Cells \X Values
    BY ElementOfSeq DEF Writing
<1>2. DOMAIN writes = 1 .. Len(writes) /\ Len(writes) \in Nat
    BY LenProperties DEF Writing
<1>3. ASSUME NEW x \in Cells
      PROVE  /\ Applied(d, writes)[x] \in Values
             /\ (\A i \in 1 .. Len(writes) : writes[i][1] # x) => Applied(d, writes)[x] = d[x]
    <2> DEFINE hits == {i \in DOMAIN writes : writes[i][1] = x}
               last == CHOOSE i \in hits : \A j \in hits : j <= i
    <2>1. Applied(d, writes)[x] = IF hits = {} THEN d[x] ELSE writes[last][2]
        BY DEF Applied
    <2>2. CASE hits = {}
        BY <2>1, <2>2 DEF Doc
    <2>3. CASE hits # {}
        <3>1. hits \in SUBSET (1 .. Len(writes))
            BY <1>2
        <3>2. \E i \in hits : \A j \in hits : j <= i
            BY <1>2, <2>3, <3>1, LastPosition
        <3>3. last \in hits
            BY <3>2
        <3>4. writes[last][2] \in Values /\ writes[last][1] = x
            BY <1>1, <3>1, <3>3
        <3> QED
            BY <1>2, <2>1, <2>3, <3>1, <3>3, <3>4
    <2> QED
        BY <2>2, <2>3
<1>4. DOMAIN Applied(d, writes) = Cells /\ Applied(d, writes) = [x \in Cells |-> Applied(d, writes)[x]]
    BY DEF Applied
<1> QED
    BY <1>3, <1>4 DEF Doc

(* A part that exactly one write names gets its value. *)
LEMMA AppliedOnce ==
    ASSUME NEW d \in Doc, NEW writes \in Writing, NEW k \in 1 .. Len(writes),
           \A i \in 1 .. Len(writes) : i # k => writes[i][1] # writes[k][1]
    PROVE  Applied(d, writes)[writes[k][1]] = writes[k][2]
<1>1. DOMAIN writes = 1 .. Len(writes) /\ Len(writes) \in Nat
    BY LenProperties DEF Writing
<1>2. writes[k] \in Cells \X Values
    BY ElementOfSeq DEF Writing
<1> DEFINE hits == {i \in DOMAIN writes : writes[i][1] = writes[k][1]}
           last == CHOOSE i \in hits : \A j \in hits : j <= i
<1>3. hits = {k}
    BY <1>1
<1>4. last = k
    BY <1>1, <1>3
<1>5. Applied(d, writes)[writes[k][1]] = IF hits = {} THEN d[writes[k][1]] ELSE writes[last][2]
    BY <1>2 DEF Applied
<1> QED
    BY <1>3, <1>4, <1>5

(* Operations of c, and the states History keeps c in. *)
OwnOps(c) == {op \in Operation : <<c, op.cell>> \in Writes}
ClientOf(c) == [doc : Doc, pending : Seq(OwnOps(c)), history : Seq(OwnOps(c)),
                index : Nat, skip : Nat, sent : Nat]
Sound(c) == {k \in ClientOf(c) : Len(k.history) <= MaxHistory /\ k.index <= Len(k.history)}

LEMMA RememberedSound ==
    ASSUME NEW c \in Clients, NEW k \in Sound(c), NEW op \in OwnOps(c)
    PROVE  /\ Remembered(k, op) \in Sound(c)
           /\ Remembered(k, op).doc = k.doc
           /\ Remembered(k, op).sent = k.sent
           /\ Remembered(k, op).pending = k.pending
<1>1. CASE k.skip > 0
    BY <1>1 DEF Remembered, Sound, ClientOf
<1>2. CASE ~ (k.skip > 0)
    <2> DEFINE done == SubSeq(k.history, 1, k.index)
               list == Append(done, op)
               kept == IF Len(list) > MaxHistory THEN Tail(list) ELSE list
    <2>1. /\ k.history \in Seq(OwnOps(c)) /\ Len(k.history) \in Nat
          /\ k.index \in Nat /\ k.index <= Len(k.history) /\ Len(k.history) <= MaxHistory
          /\ \A i \in 1 .. k.index : k.history[i] \in OwnOps(c)
        BY ElementOfSeq, LenProperties DEF Sound, ClientOf
    <2>2. done \in Seq(OwnOps(c)) /\ Len(done) = k.index
        BY <2>1, SubSeqProperties
    <2> HIDE DEF done
    <2>3. list \in Seq(OwnOps(c)) /\ Len(list) = k.index + 1 /\ list # <<>>
        BY <2>2, AppendProperties
    <2> HIDE DEF list
    <2>4. Tail(list) \in Seq(OwnOps(c)) /\ Len(Tail(list)) = Len(list) - 1
        BY <2>3, HeadTailProperties
    <2>5. kept \in Seq(OwnOps(c)) /\ Len(kept) <= MaxHistory /\ Len(kept) \in Nat
        BY <2>1, <2>3, <2>4, BoundAssumption
    <2>6. Remembered(k, op) = [k EXCEPT !.history = kept, !.index = Len(kept)]
        BY <1>2 DEF Remembered, list, done
    <2> HIDE DEF kept
    <2>7. /\ Remembered(k, op) \in ClientOf(c)
          /\ Remembered(k, op).doc = k.doc /\ Remembered(k, op).sent = k.sent
          /\ Remembered(k, op).pending = k.pending
          /\ Remembered(k, op).history = kept /\ Remembered(k, op).index = Len(kept)
        BY <2>5, <2>6 DEF Sound, ClientOf
    <2> QED
        BY <2>5, <2>7 DEF Sound
<1> QED
    BY <1>1, <1>2

(* The operation a request stands for. *)
Asked(k, x, v) == [id |-> k.sent + 1, cell |-> x, val |-> v, old |-> k.doc[x]]

(* A request changes the one part of the client's map it names, and waits for
   its answer behind the others. *)
LEMMA QueriedSound ==
    ASSUME NEW c \in Clients, NEW k \in Sound(c), NEW x \in Cells, NEW v \in Values,
           <<c, x>> \in Writes
    PROVE  /\ Queried(k, x, v) \in Sound(c)
           /\ Queried(k, x, v).doc = [k.doc EXCEPT ![x] = v]
           /\ Queried(k, x, v).sent = k.sent + 1
           /\ Queried(k, x, v).pending =
                 IF v \in Untracked THEN k.pending
                 ELSE Append(k.pending, Asked(k, x, v))
<1> DEFINE op == [id |-> k.sent + 1, cell |-> x, val |-> v, old |-> k.doc[x]]
           waiting == [k EXCEPT !.pending = Append(@, op)]
<1>1. op \in OwnOps(c)
    BY DEF OwnOps, Operation, Sound, ClientOf, Doc
<1> HIDE DEF op
<1>2. Append(k.pending, op) \in Seq(OwnOps(c))
    BY <1>1, AppendProperties DEF Sound, ClientOf
<1>3. /\ waiting \in Sound(c) /\ waiting.doc = k.doc /\ waiting.sent = k.sent
      /\ waiting.pending = Append(k.pending, op)
    BY <1>2 DEF Sound, ClientOf
<1> HIDE DEF waiting
<1>4. /\ Remembered(waiting, op) \in Sound(c)
      /\ Remembered(waiting, op).doc = k.doc /\ Remembered(waiting, op).sent = k.sent
      /\ Remembered(waiting, op).pending = Append(k.pending, op)
    BY <1>1, <1>3, RememberedSound
<1> DEFINE m == IF v \in Untracked THEN k ELSE Remembered(waiting, op)
<1>5. /\ m \in Sound(c) /\ m.doc = k.doc /\ m.sent = k.sent
      /\ m.pending = IF v \in Untracked THEN k.pending ELSE Append(k.pending, op)
    BY <1>4
<1>6. Queried(k, x, v) = [m EXCEPT !.sent = @ + 1, !.doc[x] = v]
    BY DEF Queried, waiting, op
<1> HIDE DEF m
<1> DEFINE d == [k.doc EXCEPT ![x] = v]
<1>7. m \in ClientOf(c) /\ d \in Doc /\ m.sent + 1 \in Nat
    BY <1>5 DEF Sound, ClientOf, Doc
<1>8. Queried(k, x, v) = [m EXCEPT !.sent = m.sent + 1, !.doc = d]
    BY <1>5, <1>6, <1>7 DEF ClientOf
<1> HIDE DEF d
<1>9. /\ Queried(k, x, v) \in ClientOf(c) /\ Queried(k, x, v).doc = d
      /\ Queried(k, x, v).history = m.history /\ Queried(k, x, v).index = m.index
      /\ Queried(k, x, v).sent = m.sent + 1 /\ Queried(k, x, v).pending = m.pending
    BY <1>7, <1>8 DEF ClientOf
<1> QED
    BY <1>5, <1>9 DEF Sound, d, op, Asked

LEMMA UnlistedSound ==
    ASSUME NEW c \in Clients, NEW k \in Sound(c), NEW id
    PROVE  /\ Unlisted(k, id) \in Sound(c)
           /\ Unlisted(k, id).doc = k.doc /\ Unlisted(k, id).pending = k.pending
           /\ Unlisted(k, id).skip = k.skip /\ Unlisted(k, id).sent = k.sent
<1> DEFINE spots == {i \in DOMAIN k.history : k.history[i].id = id}
           spot == CHOOSE i \in spots : \A j \in spots : i <= j
<1>1. CASE spots = {}
    BY <1>1 DEF Unlisted
<1>2. CASE spots # {}
    <2>1. k.history \in Seq(OwnOps(c)) /\ DOMAIN k.history = 1 .. Len(k.history)
          /\ Len(k.history) \in Nat /\ k.index \in Nat
          /\ k.index <= Len(k.history) /\ Len(k.history) <= MaxHistory
        BY LenProperties DEF Sound, ClientOf
    <2>2. spots \in SUBSET Nat /\ spots \in SUBSET (1 .. Len(k.history))
        BY <2>1
    <2>3. spot \in spots
        BY <1>2, <2>2, FirstPosition
    <2>4. Unlisted(k, id) = [k EXCEPT !.history = RemoveAt(@, spot),
                                      !.index = IF spot <= @ THEN @ - 1 ELSE @]
        BY <1>2 DEF Unlisted
    <2> HIDE DEF spots, spot
    <2>5. spot \in 1 .. Len(k.history)
        BY <2>2, <2>3
    <2>6. /\ RemoveAt(k.history, spot) \in Seq(OwnOps(c))
          /\ Len(RemoveAt(k.history, spot)) = Len(k.history) - 1
        BY <2>1, <2>5, RemovedFrom
    <2>7. LET i == IF spot <= k.index THEN k.index - 1 ELSE k.index
          IN  i \in Nat /\ i <= Len(k.history) - 1 /\ Len(k.history) - 1 <= MaxHistory
        BY <2>1, <2>5, BoundAssumption
    <2> QED
        BY <2>4, <2>6, <2>7 DEF Sound, ClientOf
<1> QED
    BY <1>1, <1>2

(* Writes whose parts c may write. *)
OwnWrites(c) == {w \in Cells \X Values : <<c, w[1]>> \in Writes}

LEMMA ListsOwn ==
    ASSUME NEW c \in Clients, NEW ops \in Seq(OwnOps(c))
    PROVE  /\ Forwards(ops) \in Seq(OwnWrites(c)) /\ Len(Forwards(ops)) = Len(ops)
           /\ Backwards(ops) \in Seq(OwnWrites(c)) /\ Len(Backwards(ops)) = Len(ops)
<1>1. DOMAIN ops = 1 .. Len(ops) /\ Len(ops) \in Nat
    BY LenProperties
<1>2. \A i \in 1 .. Len(ops) : Forward(ops[i]) \in OwnWrites(c) /\ Backward(ops[i]) \in OwnWrites(c)
    BY ElementOfSeq DEF Forward, Backward, OwnWrites, OwnOps, Operation
<1> DEFINE back == [i \in 1 .. Len(ops) |-> Backward(ops[i])]
           forth == [i \in 1 .. Len(ops) |-> Forward(ops[i])]
           turned == [i \in 1 .. Len(ops) |-> back[(Len(ops) - i) + 1]]
<1>3. back \in Seq(OwnWrites(c)) /\ forth \in Seq(OwnWrites(c))
    BY <1>1, <1>2, SeqDef
<1>4. Len(back) = Len(ops) /\ Len(forth) = Len(ops)
    BY <1>1
<1>5. \A i \in 1 .. Len(ops) : (Len(ops) - i) + 1 \in 1 .. Len(ops)
    BY <1>1
<1>6. turned \in Seq(OwnWrites(c)) /\ Len(turned) = Len(ops)
    <2>1. \A i \in 1 .. Len(ops) : back[(Len(ops) - i) + 1] \in OwnWrites(c)
        BY <1>2, <1>5
    <2> HIDE DEF back
    <2> QED
        BY <1>1, <2>1, SeqDef
<1>7. Forwards(ops) = forth /\ Backwards(ops) = turned
    BY <1>1, <1>4 DEF Forwards, Backwards, Reverse
<1> QED
    BY <1>3, <1>4, <1>6, <1>7

(* A refusal rewrites only parts the client writes. *)
LEMMA RefusedSound ==
    ASSUME NEW c \in Clients, NEW k \in Sound(c), k.pending # <<>>
    PROVE  /\ Refused(k) \in Sound(c)
           /\ Refused(k).sent = k.sent /\ Refused(k).pending = Tail(k.pending)
           /\ \A x \in Cells : <<c, x>> \notin Writes => Refused(k).doc[x] = k.doc[x]
<1> DEFINE u == Unlisted(k, k.pending[1].id)
           n == Len(k.pending)
           writes == Backwards(k.pending) \o Forwards(Tail(k.pending))
           d == Applied(k.doc, writes)
<1>1. /\ u \in Sound(c) /\ u.doc = k.doc /\ u.pending = k.pending /\ u.skip = k.skip
      /\ u.sent = k.sent
    BY UnlistedSound
<1>2. /\ k.pending \in Seq(OwnOps(c)) /\ k.doc \in Doc /\ k.skip \in Nat
      /\ Tail(k.pending) \in Seq(OwnOps(c)) /\ n \in Nat \ {0}
    BY HeadTailProperties, EmptySeq, LenProperties DEF Sound, ClientOf
<1>3. writes \in Seq(OwnWrites(c))
    BY <1>2, ListsOwn, ConcatProperties
<1>4. writes \in Writing /\ \A i \in 1 .. Len(writes) : writes[i] \in OwnWrites(c)
    <2>1. OwnWrites(c) \subseteq Cells \X Values
        BY DEF OwnWrites
    <2> QED
        BY <1>3, <2>1, SeqMonotonic, ElementOfSeq DEF Writing
<1>5. Refused(k) = [u EXCEPT !.doc = d, !.pending = Tail(k.pending),
                             !.skip = k.skip + n + (n - 1)]
    BY <1>1 DEF Refused, Sound, ClientOf
<1> HIDE DEF writes
<1>6. d \in Doc /\ \A x \in Cells : <<c, x>> \notin Writes => d[x] = k.doc[x]
    <2>1. d \in Doc
        BY <1>2, <1>4, AppliedMap
    <2>2. ASSUME NEW x \in Cells, <<c, x>> \notin Writes
          PROVE  d[x] = k.doc[x]
        <3>1. \A i \in 1 .. Len(writes) : writes[i][1] # x
            BY <1>4, <2>2 DEF OwnWrites
        <3> QED
            BY <1>2, <1>4, <3>1, AppliedMap
    <2> QED
        BY <2>1, <2>2
<1>7. k.skip + n + (n - 1) \in Nat
    BY <1>2
<1> HIDE DEF u, d, n
<1>8. /\ Refused(k) \in ClientOf(c) /\ Refused(k).doc = d
      /\ Refused(k).history = u.history /\ Refused(k).index = u.index
      /\ Refused(k).sent = u.sent /\ Refused(k).pending = Tail(k.pending)
    BY <1>1, <1>2, <1>5, <1>6, <1>7 DEF Sound, ClientOf
<1> QED
    BY <1>1, <1>6, <1>8 DEF Sound

LEMMA AnsweredSound ==
    ASSUME NEW c \in Clients, NEW k \in Sound(c), NEW id, NEW ok \in BOOLEAN
    PROVE  /\ Answered(k, id, ok) \in Sound(c)
           /\ Answered(k, id, ok).sent = k.sent
           /\ Answered(k, id, ok).pending =
                 IF k.pending = <<>> \/ k.pending[1].id # id THEN k.pending ELSE Tail(k.pending)
           /\ \A x \in Cells : <<c, x>> \notin Writes => Answered(k, id, ok).doc[x] = k.doc[x]
<1>1. CASE k.pending = <<>> \/ k.pending[1].id # id
    BY <1>1 DEF Answered
<1>2. CASE k.pending # <<>> /\ k.pending[1].id = id /\ ok
    <2> DEFINE rest == Tail(k.pending)
    <2>1. rest \in Seq(OwnOps(c))
        BY <1>2, HeadTailProperties DEF Sound, ClientOf
    <2>2. Answered(k, id, ok) = [k EXCEPT !.pending = rest]
        BY <1>2 DEF Answered, Sound, ClientOf
    <2> HIDE DEF rest
    <2>3. /\ Answered(k, id, ok) \in Sound(c) /\ Answered(k, id, ok).sent = k.sent
          /\ Answered(k, id, ok).doc = k.doc /\ Answered(k, id, ok).pending = rest
        BY <2>1, <2>2 DEF Sound, ClientOf
    <2> QED
        BY <1>2, <2>3 DEF rest
<1>3. CASE k.pending # <<>> /\ k.pending[1].id = id /\ ~ ok
    BY <1>3, RefusedSound DEF Answered
<1> QED
    BY <1>1, <1>2, <1>3

(* A broadcast writes to the part it names, if it is an edit, and to no other. *)
LEMMA ToldMap ==
    ASSUME NEW d \in Doc, NEW m \in Message, m.kind # "resp"
    PROVE  /\ Told(m) \in Writing
           /\ m.kind = "op" => m.cell \in Cells /\ m.val \in Values
           /\ Applied(d, Told(m)) \in Doc
           /\ \A x \in Cells : Applied(d, Told(m))[x] =
                 IF m.kind = "op" /\ m.cell = x THEN m.val ELSE d[x]
<1>1. CASE m.kind = "op"
    <2>1. m.cell \in Cells /\ m.val \in Values
        BY <1>1 DEF Message
    <2> DEFINE s == << <<m.cell, m.val>> >>
    <2>2. s \in Writing /\ Len(s) = 1 /\ s[1] = <<m.cell, m.val>>
        BY <2>1 DEF Writing
    <2>3. Told(m) = s
        BY <1>1 DEF Told
    <2> HIDE DEF s
    <2>4. Applied(d, s)[s[1][1]] = s[1][2]
        <3>1. 1 \in 1 .. Len(s) /\ \A i \in 1 .. Len(s) : i # 1 => s[i][1] # s[1][1]
            BY <2>2
        <3> QED
            BY <2>2, <3>1, AppliedOnce
    <2>5. ASSUME NEW x \in Cells, m.cell # x PROVE Applied(d, s)[x] = d[x]
        <3>1. \A i \in 1 .. Len(s) : s[i][1] # x
            BY <2>2, <2>5
        <3> QED
            BY <2>2, <3>1, AppliedMap
    <2>6. Applied(d, s) \in Doc
        BY <2>2, AppliedMap
    <2> QED
        BY <1>1, <2>1, <2>2, <2>3, <2>4, <2>5, <2>6
<1>2. CASE m.kind # "op"
    <2>1. Told(m) = <<>> /\ <<>> \in Writing /\ Len(<<>>) = 0
        BY <1>2, EmptySeq DEF Told, Writing
    <2>2. Applied(d, <<>>) \in Doc /\ \A x \in Cells : Applied(d, <<>>)[x] = d[x]
        BY <2>1, AppliedMap
    <2> QED
        BY <1>2, <2>1, <2>2
<1> QED
    BY <1>1, <1>2

(* The reverses or the predictions of c's own operations leave alone the parts
   that c does not write. *)
LEMMA OwnMap ==
    ASSUME NEW c \in Clients, NEW ops \in Seq(OwnOps(c)), NEW d \in Doc
    PROVE  /\ Backwards(ops) \in Writing /\ Applied(d, Backwards(ops)) \in Doc
           /\ Forwards(ops) \in Writing /\ Applied(d, Forwards(ops)) \in Doc
           /\ \A x \in Cells : <<c, x>> \notin Writes =>
                 /\ Applied(d, Backwards(ops))[x] = d[x]
                 /\ Applied(d, Forwards(ops))[x] = d[x]
<1>1. Forwards(ops) \in Seq(OwnWrites(c)) /\ Backwards(ops) \in Seq(OwnWrites(c))
    BY ListsOwn
<1>2. OwnWrites(c) \subseteq Cells \X Values
    BY DEF OwnWrites
<1>3. Forwards(ops) \in Writing /\ Backwards(ops) \in Writing
    BY <1>1, <1>2, SeqMonotonic DEF Writing
<1>4. /\ \A i \in 1 .. Len(Forwards(ops)) : Forwards(ops)[i] \in OwnWrites(c)
      /\ \A i \in 1 .. Len(Backwards(ops)) : Backwards(ops)[i] \in OwnWrites(c)
    BY <1>1, ElementOfSeq
<1>5. ASSUME NEW x \in Cells, <<c, x>> \notin Writes
      PROVE  /\ \A i \in 1 .. Len(Forwards(ops)) : Forwards(ops)[i][1] # x
             /\ \A i \in 1 .. Len(Backwards(ops)) : Backwards(ops)[i][1] # x
    BY <1>4, <1>5 DEF OwnWrites
<1> QED
    BY <1>3, <1>5, AppliedMap

(* A broadcast sets the part it names, if it is an edit and unless the client
   writes that part itself, and no other part the client does not write; it
   leaves nothing on the undo list. *)
LEMMA OvertakenSound ==
    ASSUME NEW c \in Clients, NEW k \in Sound(c), NEW m \in Message, m.kind # "resp"
    PROVE  /\ Overtaken(k, Told(m)) \in Sound(c)
           /\ Overtaken(k, Told(m)).sent = k.sent
           /\ Overtaken(k, Told(m)).history = <<>> /\ Overtaken(k, Told(m)).index = 0
           /\ Overtaken(k, Told(m)).pending =
                 IF k.pending = <<>> THEN k.pending ELSE Tail(k.pending)
           /\ Overtaken(k, Told(m)).doc =
                 IF k.pending = <<>> THEN Applied(k.doc, Told(m))
                 ELSE Applied(Applied(Applied(k.doc, Backwards(k.pending)), Told(m)),
                              Forwards(k.pending))
           /\ \A x \in Cells : <<c, x>> \notin Writes =>
                 Overtaken(k, Told(m)).doc[x] =
                    IF m.kind = "op" /\ m.cell = x THEN m.val ELSE k.doc[x]
<1> DEFINE cleared == [k EXCEPT !.history = <<>>, !.index = 0]
           n == Len(k.pending)
           r == Overtaken(k, Told(m))
<1>1. /\ k.pending \in Seq(OwnOps(c)) /\ k.doc \in Doc /\ k.skip \in Nat /\ n \in Nat
      /\ cleared \in ClientOf(c) /\ cleared.history = <<>> /\ cleared.index = 0
      /\ cleared.doc = k.doc /\ cleared.pending = k.pending /\ cleared.skip = k.skip
      /\ cleared.sent = k.sent /\ (n = 0 <=> k.pending = <<>>)
    BY LenProperties, EmptySeq DEF Sound, ClientOf
<1>2. Len(<<>>) <= MaxHistory /\ 0 <= Len(<<>>)
    BY BoundAssumption
<1>3. CASE n = 0
    <2> DEFINE d == Applied(k.doc, Told(m))
    <2>1. d \in Doc /\ \A x \in Cells : d[x] = IF m.kind = "op" /\ m.cell = x THEN m.val ELSE k.doc[x]
        BY <1>1, ToldMap
    <2>2. r = [cleared EXCEPT !.doc = d]
        BY <1>1, <1>3 DEF Overtaken, ClientOf
    <2> HIDE DEF cleared, d, r
    <2>3. /\ r \in ClientOf(c) /\ r.doc = d /\ r.history = <<>> /\ r.index = 0
          /\ r.sent = k.sent /\ r.pending = k.pending
        BY <1>1, <2>1, <2>2 DEF ClientOf
    <2> QED
        BY <1>1, <1>2, <1>3, <2>1, <2>3 DEF Sound, r, d
<1>4. CASE n # 0
    <2> DEFINE back == Applied(k.doc, Backwards(k.pending))
               told == Applied(back, Told(m))
               d == Applied(told, Forwards(k.pending))
    <2>1. /\ back \in Doc
          /\ \A x \in Cells : <<c, x>> \notin Writes => back[x] = k.doc[x]
        BY <1>1, OwnMap
    <2> HIDE DEF back
    <2>2. /\ told \in Doc
          /\ \A x \in Cells : told[x] = IF m.kind = "op" /\ m.cell = x THEN m.val ELSE back[x]
        BY <2>1, ToldMap
    <2> HIDE DEF told
    <2>3. /\ d \in Doc
          /\ \A x \in Cells : <<c, x>> \notin Writes => d[x] = told[x]
        BY <1>1, <2>2, OwnMap
    <2>4. \A x \in Cells : <<c, x>> \notin Writes =>
              d[x] = IF m.kind = "op" /\ m.cell = x THEN m.val ELSE k.doc[x]
        BY <2>1, <2>2, <2>3
    <2>5. Tail(k.pending) \in Seq(OwnOps(c)) /\ k.skip + n + 1 + n \in Nat
        BY <1>1, <1>4, HeadTailProperties, EmptySeq
    <2>6. r = [cleared EXCEPT !.doc = d, !.pending = Tail(k.pending), !.skip = k.skip + n + 1 + n]
        BY <1>1, <1>4 DEF Overtaken, ClientOf, back, told
    <2> HIDE DEF cleared, d, n, r
    <2>7. /\ r \in ClientOf(c) /\ r.doc = d /\ r.history = <<>> /\ r.index = 0
          /\ r.sent = k.sent /\ r.pending = Tail(k.pending)
        BY <1>1, <2>3, <2>5, <2>6 DEF ClientOf
    <2> QED
        BY <1>1, <1>2, <1>4, <2>4, <2>7 DEF Sound, r, d, told, back
<1> QED
    BY <1>3, <1>4

-----------------------------------------------------------------------------
(* What a list of messages leads to *)

Spots(s, x) == {i \in DOMAIN s : s[i].kind = "op" /\ s[i].cell = x}

(* A client that holds w in the part x holds v after the messages s. *)
Leads(s, w, x, v) ==
    /\ \A i \in Spots(s, x) : (\A j \in Spots(s, x) : j <= i) => s[i].val = v
    /\ Spots(s, x) = {} => w = v

LEMMA LeadsAppend ==
    ASSUME NEW s \in Seq(Message), NEW m \in Message, NEW w, NEW x, NEW v,
           IF m.kind = "op" /\ m.cell = x THEN m.val = v ELSE Leads(s, w, x, v)
    PROVE  Leads(Append(s, m), w, x, v)
<1> DEFINE t == Append(s, m)
           n == Len(s)
<1>1. /\ n \in Nat /\ DOMAIN s = 1 .. n /\ DOMAIN t = 1 .. n + 1
      /\ t[n + 1] = m /\ \A i \in 1 .. n : t[i] = s[i]
    BY AppendProperties, LenProperties
<1> HIDE DEF t, n
<1>2. CASE m.kind = "op" /\ m.cell = x
    <2>1. n + 1 \in Spots(t, x) /\ \A i \in Spots(t, x) : i \in 1 .. n + 1
        BY <1>1, <1>2 DEF Spots
    <2>2. ASSUME NEW i \in Spots(t, x), \A j \in Spots(t, x) : j <= i
          PROVE  t[i].val = v
        <3>1. i = n + 1
            BY <1>1, <2>1, <2>2
        <3> QED
            BY <1>1, <1>2, <3>1
    <2> QED
        BY <2>1, <2>2 DEF Leads, t
<1>3. CASE ~ (m.kind = "op" /\ m.cell = x)
    <2>1. Spots(t, x) = Spots(s, x) /\ \A i \in Spots(s, x) : t[i] = s[i]
        <3>1. \A i \in Spots(t, x) : i # n + 1
            BY <1>1, <1>3 DEF Spots
        <3>2. \A i \in 1 .. n + 1 : i # n + 1 => i \in 1 .. n
            BY <1>1
        <3>3. \A i \in 1 .. n : i \in 1 .. n + 1
            BY <1>1
        <3> QED
            BY <1>1, <3>1, <3>2, <3>3 DEF Spots
    <2> QED
        BY <1>3, <2>1 DEF Leads, t
<1> QED
    BY <1>2, <1>3

LEMMA LeadsTail ==
    ASSUME NEW s \in Seq(Message), s # <<>>, NEW w, NEW x, NEW v, Leads(s, w, x, v)
    PROVE  Leads(Tail(s),
                 IF Head(s).kind = "op" /\ Head(s).cell = x THEN Head(s).val ELSE w, x, v)
<1> DEFINE t == Tail(s)
           n == Len(t)
<1>1. /\ n \in Nat /\ DOMAIN s = 1 .. n + 1 /\ DOMAIN t = 1 .. n
      /\ s[1] = Head(s) /\ \A i \in 1 .. n : t[i] = s[i + 1]
    <2>1. t \in Seq(Message) /\ Len(t) = Len(s) - 1 /\ \A i \in 1 .. Len(t) : t[i] = s[i + 1]
        BY HeadTailProperties
    <2>2. Head(s) = s[1] /\ Len(s) \in Nat /\ DOMAIN s = 1 .. Len(s)
        BY LenProperties
    <2>3. Len(t) \in Nat /\ DOMAIN t = 1 .. Len(t)
        BY <2>1, LenProperties
    <2> QED
        BY <2>1, <2>2, <2>3
<1> HIDE DEF t, n
<1>2. \A i \in 1 .. n : i \in Spots(t, x) <=> i + 1 \in Spots(s, x)
    <2>1. \A i \in 1 .. n : i + 1 \in 1 .. n + 1
        BY <1>1
    <2> QED
        BY <1>1, <2>1 DEF Spots
<1>3. Spots(t, x) \subseteq 1 .. n /\ Spots(s, x) \subseteq 1 .. n + 1
    BY <1>1 DEF Spots
<1>4. ASSUME NEW i \in Spots(t, x), \A j \in Spots(t, x) : j <= i
      PROVE  t[i].val = v
    <2>1. i + 1 \in Spots(s, x) /\ t[i] = s[i + 1] /\ i \in 1 .. n
        BY <1>1, <1>2, <1>3
    <2>2. ASSUME NEW j \in Spots(s, x) PROVE j <= i + 1
        <3>1. CASE j = 1
            BY <1>1, <2>1, <3>1
        <3>2. CASE j # 1
            <4>1. j - 1 \in 1 .. n /\ (j - 1) + 1 = j
                BY <1>1, <1>3, <3>2
            <4>2. j - 1 \in Spots(t, x)
                BY <1>2, <4>1
            <4> QED
                BY <1>1, <1>4, <2>1, <4>1, <4>2
        <3> QED
            BY <3>1, <3>2
    <2> QED
        BY <2>1, <2>2 DEF Leads
<1>5. ASSUME Spots(t, x) = {}
      PROVE  (IF Head(s).kind = "op" /\ Head(s).cell = x THEN Head(s).val ELSE w) = v
    <2>1. Spots(s, x) \subseteq {1}
        <3> SUFFICES ASSUME NEW j \in Spots(s, x), j # 1 PROVE FALSE
            OBVIOUS
        <3>1. j - 1 \in 1 .. n /\ (j - 1) + 1 = j
            BY <1>1, <1>3
        <3> QED
            BY <1>2, <1>5, <3>1
    <2>2. CASE Head(s).kind = "op" /\ Head(s).cell = x
        <3>1. 1 \in Spots(s, x)
            BY <1>1, <2>2 DEF Spots
        <3>2. \A j \in Spots(s, x) : j <= 1
            BY <2>1
        <3> QED
            BY <1>1, <2>2, <3>1, <3>2 DEF Leads
    <2>3. CASE ~ (Head(s).kind = "op" /\ Head(s).cell = x)
        <3>1. 1 \notin Spots(s, x)
            BY <1>1, <2>3 DEF Spots
        <3> QED
            BY <2>1, <2>3, <3>1 DEF Leads
    <2> QED
        BY <2>2, <2>3
<1> QED
    BY <1>4, <1>5 DEF Leads, t

-----------------------------------------------------------------------------
(* The states the specification reaches *)

OwnRequests(c) == {r \in Request : <<c, r.cell>> \in Writes}

(* The shape of a state: what a client waits for, remembers and has asked is
   about the parts it writes. *)
Shape ==
    /\ doc \in Doc
    /\ client = [c \in Clients |-> client[c]]
    /\ \A c \in Clients : client[c] \in Sound(c)
    /\ toServer = [c \in Clients |-> toServer[c]]
    /\ \A c \in Clients : toServer[c] \in Seq(OwnRequests(c))
    /\ toClient \in [Clients -> Seq(Message)]
    /\ stage \in [Clients -> Stages]
    /\ notices \in Nat
    /\ \A c \in Clients : stage[c] # "waiting" => toServer[c] # <<>>

LEMMA ShapeTypes == Shape => TypeOK
<1> SUFFICES ASSUME Shape PROVE TypeOK
    OBVIOUS
<1>1. ASSUME NEW c \in Clients
      PROVE  client[c] \in Client /\ toServer[c] \in Seq(Request)
    <2>1. OwnOps(c) \subseteq Operation /\ OwnRequests(c) \subseteq Request
        BY DEF OwnOps, OwnRequests
    <2>2. Seq(OwnOps(c)) \subseteq Seq(Operation) /\ Seq(OwnRequests(c)) \subseteq Seq(Request)
        BY <2>1, SeqMonotonic
    <2>3. client[c] \in ClientOf(c) /\ toServer[c] \in Seq(OwnRequests(c))
        BY DEF Shape, Sound
    <2> QED
        BY <2>2, <2>3 DEF ClientOf, Client
<1>2. client \in [Clients -> Client] /\ toServer \in [Clients -> Seq(Request)]
    BY <1>1 DEF Shape
<1> QED
    BY <1>2 DEF TypeOK, Shape, Sound

LEMMA ShapeInit == Init => Shape
<1> SUFFICES ASSUME Init PROVE Shape
    OBVIOUS
<1>1. doc \in Doc
    BY ValueAssumption DEF Init, Doc
<1>2. ASSUME NEW c \in Clients
      PROVE client[c] \in Sound(c) /\ toServer[c] \in Seq(OwnRequests(c)) /\ toClient[c] \in Seq(Message)
    <2>1. client[c] \in ClientOf(c) /\ client[c].history = <<>> /\ client[c].index = 0
        BY <1>1, <1>2, EmptySeq DEF Init, ClientOf
    <2>2. Len(<<>>) <= MaxHistory /\ 0 <= Len(<<>>)
        BY BoundAssumption
    <2> QED
        BY <2>1, <2>2, EmptySeq DEF Init, Sound
<1> QED
    BY <1>1, <1>2 DEF Init, Shape, Stages

(* Undo and redo move along the list. *)
LEMMA Moved ==
    ASSUME NEW c \in Clients, NEW k \in Sound(c), NEW i \in Nat, i <= Len(k.history)
    PROVE  LET m == [k EXCEPT !.index = i, !.skip = k.skip + 1]
           IN  /\ m \in Sound(c) /\ m.doc = k.doc
               /\ m.pending = k.pending /\ m.sent = k.sent
<1> DEFINE m == [k EXCEPT !.index = i, !.skip = k.skip + 1]
           a == [k EXCEPT !.index = i]
<1>1. k \in ClientOf(c) /\ Len(k.history) <= MaxHistory /\ k.skip + 1 \in Nat
    BY DEF Sound, ClientOf
<1>2. /\ a \in ClientOf(c) /\ a.doc = k.doc /\ a.history = k.history /\ a.index = i
      /\ a.pending = k.pending /\ a.sent = k.sent
    BY <1>1 DEF ClientOf
<1>3. m = [a EXCEPT !.skip = k.skip + 1]
    OBVIOUS
<1> HIDE DEF a, m
<1>4. /\ m \in ClientOf(c) /\ m.doc = k.doc /\ m.history = k.history /\ m.index = i
      /\ m.pending = k.pending /\ m.sent = k.sent
    BY <1>1, <1>2, <1>3 DEF ClientOf
<1> QED
    BY <1>1, <1>4 DEF Sound, m

(* Edits, undo and redo send a request for a part the client writes. *)
LEMMA Requests ==
    ASSUME Shape, NEW c \in Clients,
           (\E y \in Cells, w \in Values : Edit(c, y, w)) \/ Undo(c) \/ Redo(c)
    PROVE  \E k \in Sound(c), x \in Cells, v \in Values :
              /\ k.doc = client[c].doc /\ k.pending = client[c].pending
              /\ k.sent = client[c].sent
              /\ <<c, x>> \in Writes /\ Query(c, k, x, v)
<1> DEFINE h == client[c].history
           n == client[c].index
<1>1. /\ client[c] \in Sound(c) /\ client[c] \in ClientOf(c)
      /\ h \in Seq(OwnOps(c)) /\ Len(h) \in Nat /\ n \in Nat /\ n <= Len(h)
    BY LenProperties DEF Shape, Sound, ClientOf
<1>2. CASE \E y \in Cells, w \in Values : Edit(c, y, w)
    BY <1>1, <1>2 DEF Edit
<1>3. CASE Undo(c)
    <2> DEFINE k == [client[c] EXCEPT !.index = n - 1, !.skip = client[c].skip + 1]
    <2>1. n > 0 /\ Query(c, k, h[n].cell, h[n].old)
        BY <1>3 DEF Undo
    <2>2. /\ k \in Sound(c) /\ k.doc = client[c].doc
          /\ k.pending = client[c].pending /\ k.sent = client[c].sent
        <3>1. n - 1 \in Nat /\ n - 1 <= Len(h)
            BY <1>1, <2>1
        <3>2. client[c] \in Sound(c)
            BY <1>1
        <3> HIDE DEF n
        <3> QED
            BY <3>1, <3>2, Moved
    <2>3. h[n] \in OwnOps(c)
        <3>1. n \in 1 .. Len(h)
            BY <1>1, <2>1
        <3> HIDE DEF h, n
        <3> QED
            BY <1>1, <3>1, ElementOfSeq
    <2> HIDE DEF k
    <2> QED
        BY <2>1, <2>2, <2>3 DEF OwnOps, Operation
<1>4. CASE Redo(c)
    <2> DEFINE k == [client[c] EXCEPT !.index = n + 1, !.skip = client[c].skip + 1]
    <2>1. n < Len(h) /\ Query(c, k, h[n + 1].cell, h[n + 1].val)
        BY <1>4 DEF Redo
    <2>2. /\ k \in Sound(c) /\ k.doc = client[c].doc
          /\ k.pending = client[c].pending /\ k.sent = client[c].sent
        <3>1. n + 1 \in Nat /\ n + 1 <= Len(h)
            BY <1>1, <2>1
        <3>2. client[c] \in Sound(c)
            BY <1>1
        <3> HIDE DEF n
        <3> QED
            BY <3>1, <3>2, Moved, ZenonT(40)
    <2>3. h[n + 1] \in OwnOps(c)
        <3>1. n + 1 \in 1 .. Len(h)
            BY <1>1, <2>1
        <3> HIDE DEF h, n
        <3> QED
            BY <1>1, <3>1, ElementOfSeq
    <2> HIDE DEF k
    <2> QED
        BY <2>1, <2>2, <2>3 DEF OwnOps, Operation
<1> QED
    BY <1>2, <1>3, <1>4

LEMMA QueryShape ==
    ASSUME Shape, NEW c \in Clients, NEW k \in Sound(c), NEW x \in Cells, NEW v \in Values,
           k.doc = client[c].doc, <<c, x>> \in Writes, Query(c, k, x, v)
    PROVE  /\ Shape'
           /\ \A d \in Clients, y \in Cells : <<d, y>> \notin Writes =>
                 client'[d].doc[y] = client[d].doc[y]
           /\ \A d \in Clients : toServer[d] # <<>> =>
                 toServer'[d] # <<>> /\ Head(toServer'[d]) = Head(toServer[d])
           /\ UNCHANGED <<doc, toClient, stage, notices>>
<1>1. Queried(k, x, v) \in Sound(c) /\ Queried(k, x, v).doc = [k.doc EXCEPT ![x] = v]
    BY QueriedSound
<1> DEFINE r == [id |-> k.sent + 1, cell |-> x, val |-> v]
<1>2. r \in OwnRequests(c)
    BY DEF OwnRequests, Request, Sound, ClientOf
<1> HIDE DEF r
<1>3. /\ client' = [client EXCEPT ![c] = Queried(k, x, v)]
      /\ toServer' = [toServer EXCEPT ![c] = Append(@, r)]
      /\ UNCHANGED <<doc, toClient, stage, notices>>
    BY DEF Query, r
<1>4. /\ toServer[c] \in Seq(OwnRequests(c)) /\ Append(toServer[c], r) \in Seq(OwnRequests(c))
      /\ Append(toServer[c], r) # <<>>
      /\ toServer[c] # <<>> => Head(Append(toServer[c], r)) = Head(toServer[c])
    <2>1. toServer[c] \in Seq(OwnRequests(c))
        BY DEF Shape
    <2> QED
        BY <1>2, <2>1, AppendProperties, HeadTailProperties, LenProperties, EmptySeq
<1>5. \A d \in Clients :
          /\ client'[d] = IF d = c THEN Queried(k, x, v) ELSE client[d]
          /\ toServer'[d] = IF d = c THEN Append(toServer[c], r) ELSE toServer[d]
    BY <1>3 DEF Shape
<1>6. /\ client' = [d \in Clients |-> client'[d]]
      /\ toServer' = [d \in Clients |-> toServer'[d]]
    BY <1>3 DEF Shape
<1>7. Shape'
    BY <1>1, <1>3, <1>4, <1>5, <1>6 DEF Shape
<1>8. ASSUME NEW d \in Clients, NEW y \in Cells, <<d, y>> \notin Writes
      PROVE  client'[d].doc[y] = client[d].doc[y]
    <2>1. CASE d = c
        <3>1. y # x /\ k.doc \in Doc
            BY <1>8, <2>1 DEF Sound, ClientOf
        <3> QED
            BY <1>1, <1>5, <2>1, <3>1 DEF Doc
    <2> QED
        BY <1>5, <2>1
<1> QED
    BY <1>3, <1>4, <1>5, <1>7, <1>8

LEMMA ReceiveShape ==
    ASSUME Shape, NEW c \in Clients, Receive(c)
    PROVE  /\ Shape'
           /\ \A x \in Cells : <<c, x>> \notin Writes =>
                 client'[c].doc[x] =
                    LET m == Head(toClient[c])
                    IN  IF m.kind = "op" /\ m.cell = x THEN m.val ELSE client[c].doc[x]
           /\ \A d \in Clients \ {c} : client'[d] = client[d] /\ toClient'[d] = toClient[d]
           /\ toClient[c] # <<>> /\ toClient'[c] = Tail(toClient[c])
           /\ UNCHANGED <<doc, toServer, stage, notices>>
<1> DEFINE m == Head(toClient[c])
           k == IF m.kind = "resp" THEN Answered(client[c], m.id, m.ok)
                ELSE Overtaken(client[c], Told(m))
<1>1. /\ toClient[c] \in Seq(Message) /\ toClient[c] # <<>>
      /\ m \in Message /\ Tail(toClient[c]) \in Seq(Message)
    <2>1. toClient[c] \in Seq(Message) /\ toClient[c] # <<>>
        BY DEF Shape, Receive
    <2> QED
        BY <2>1, HeadTailProperties
<1>2. /\ client' = [client EXCEPT ![c] = k]
      /\ toClient' = [toClient EXCEPT ![c] = Tail(toClient[c])]
      /\ UNCHANGED <<doc, toServer, stage, notices>>
    BY DEF Receive, Shape
<1>3. client[c] \in Sound(c)
    BY DEF Shape
<1> HIDE DEF m
<1>4. /\ k \in Sound(c)
      /\ \A x \in Cells : <<c, x>> \notin Writes =>
            k.doc[x] = IF m.kind = "op" /\ m.cell = x THEN m.val ELSE client[c].doc[x]
    <2>1. CASE m.kind = "resp"
        <3>1. m.ok \in BOOLEAN
            BY <1>1, <2>1 DEF Message
        <3>2. k = Answered(client[c], m.id, m.ok) /\ m.kind # "op"
            BY <2>1
        <3> QED
            BY <1>3, <3>1, <3>2, AnsweredSound
    <2>2. CASE m.kind # "resp"
        <3>1. k = Overtaken(client[c], Told(m))
            BY <2>2
        <3> QED
            BY <1>1, <1>3, <2>2, <3>1, OvertakenSound
    <2> QED
        BY <2>1, <2>2
<1> HIDE DEF k
<1>5. /\ \A d \in Clients \ {c} : client'[d] = client[d] /\ toClient'[d] = toClient[d]
      /\ client'[c] = k /\ toClient'[c] = Tail(toClient[c])
      /\ client' = [d \in Clients |-> client'[d]]
      /\ toClient' \in [Clients -> Seq(Message)]
    BY <1>1, <1>2 DEF Shape
<1>6. Shape'
    BY <1>2, <1>4, <1>5 DEF Shape
<1> QED
    BY <1>1, <1>2, <1>4, <1>5, <1>6 DEF m

(* The first request of a client whose handler runs. *)
LEMMA FirstRequest ==
    ASSUME Shape, NEW c \in Clients, toServer[c] # <<>>
    PROVE  /\ Head(toServer[c]) \in Request
           /\ <<c, Head(toServer[c]).cell>> \in Writes
           /\ Tail(toServer[c]) \in Seq(OwnRequests(c))
<1>1. toServer[c] \in Seq(OwnRequests(c))
    BY DEF Shape
<1>2. Head(toServer[c]) \in OwnRequests(c) /\ Tail(toServer[c]) \in Seq(OwnRequests(c))
    BY <1>1, HeadTailProperties
<1> QED
    BY <1>2 DEF OwnRequests

LEMMA ServerShape ==
    ASSUME Shape, NEW c \in Clients, Apply(c) \/ Cast(c) \/ Answer(c)
    PROVE  Shape'
<1>1. CASE Apply(c)
    <2>1. Head(toServer[c]) \in Request
        BY <1>1, FirstRequest DEF Apply
    <2> QED
        BY <1>1, <2>1 DEF Apply, Shape, Doc, Request, Stages
<1>2. CASE Cast(c)
    <2> DEFINE r == Head(toServer[c])
               m == [kind |-> "op", cell |-> r.cell, val |-> r.val]
    <2>1. toServer[c] # <<>>
        BY <1>2 DEF Cast, Shape
    <2>2. r \in Request
        BY <2>1, FirstRequest
    <2>3. m \in Message
        BY <2>2 DEF Message, Request
    <2>4. toClient' = [d \in Clients |-> IF d = c THEN toClient[d] ELSE Append(toClient[d], m)]
        BY <1>2 DEF Cast
    <2> HIDE DEF m
    <2>5. \A d \in Clients : toClient[d] \in Seq(Message) /\ Append(toClient[d], m) \in Seq(Message)
        BY <2>3, AppendProperties DEF Shape
    <2>6. toClient' \in [Clients -> Seq(Message)]
        BY <2>4, <2>5
    <2> QED
        BY <1>2, <2>1, <2>6 DEF Cast, Shape, Stages
<1>3. CASE Answer(c)
    <2> DEFINE m == [kind |-> "resp", id |-> Head(toServer[c]).id, ok |-> stage[c] = "cast"]
    <2>1. toServer[c] # <<>>
        BY <1>3 DEF Answer, Shape
    <2>2. Head(toServer[c]) \in Request /\ Tail(toServer[c]) \in Seq(OwnRequests(c))
        BY <2>1, FirstRequest
    <2>3. m \in Message
        BY <2>2 DEF Message, Request
    <2>4. toClient' = [toClient EXCEPT ![c] = Append(@, m)]
        BY <1>3 DEF Answer
    <2> HIDE DEF m
    <2>5. Append(toClient[c], m) \in Seq(Message)
        BY <2>3, AppendProperties DEF Shape
    <2>6. toClient' \in [Clients -> Seq(Message)]
        BY <2>4, <2>5 DEF Shape
    <2>7. /\ toServer' = [d \in Clients |-> toServer'[d]]
          /\ \A d \in Clients : toServer'[d] = IF d = c THEN Tail(toServer[c]) ELSE toServer[d]
          /\ \A d \in Clients : stage'[d] = IF d = c THEN "waiting" ELSE stage[d]
          /\ stage' \in [Clients -> Stages]
          /\ UNCHANGED <<doc, client, notices>>
        BY <1>3 DEF Answer, Shape, Stages
    <2> QED
        BY <2>2, <2>6, <2>7 DEF Shape
<1> QED
    BY <1>1, <1>2, <1>3

(* A notice is behind what is on its way to the users it is for. *)
LEMMA NotifyShape ==
    ASSUME Shape, NEW users, Notify(users)
    PROVE  /\ Shape'
           /\ [kind |-> "note"] \in Message
           /\ \A d \in Clients : toClient'[d] \in {toClient[d], Append(toClient[d], [kind |-> "note"])}
           /\ UNCHANGED <<doc, client, toServer, stage>>
<1> DEFINE m == [kind |-> "note"]
<1>1. m \in Message
    BY DEF Message
<1>2. /\ toClient' = [d \in Clients |->
                        IF d \in users THEN Append(toClient[d], m) ELSE toClient[d]]
      /\ notices' = notices + 1
      /\ UNCHANGED <<doc, client, toServer, stage>>
    BY DEF Notify
<1> HIDE DEF m
<1>3. \A d \in Clients : toClient[d] \in Seq(Message) /\ Append(toClient[d], m) \in Seq(Message)
    BY <1>1, AppendProperties DEF Shape
<1>4. toClient' \in [Clients -> Seq(Message)]
    BY <1>2, <1>3
<1>5. Shape'
    BY <1>2, <1>4 DEF Shape
<1>6. \A d \in Clients : toClient'[d] \in {toClient[d], Append(toClient[d], m)}
    BY <1>2
<1> QED
    BY <1>1, <1>2, <1>5, <1>6 DEF m

LEMMA ShapeStep == Shape /\ [Next]_vars => Shape'
<1> SUFFICES ASSUME Shape, [Next]_vars PROVE Shape'
    OBVIOUS
<1>1. CASE UNCHANGED vars
    BY <1>1 DEF vars, Shape
<1>2. ASSUME NEW c \in Clients,
             (\E x \in Cells, v \in Values : Edit(c, x, v)) \/ Undo(c) \/ Redo(c)
      PROVE  Shape'
    BY <1>2, Requests, QueryShape
<1>3. ASSUME NEW c \in Clients, Receive(c) PROVE Shape'
    BY <1>3, ReceiveShape
<1>4. ASSUME NEW c \in Clients, Apply(c) \/ Cast(c) \/ Answer(c) PROVE Shape'
    BY <1>4, ServerShape
<1>5. ASSUME NEW users, Notify(users) PROVE Shape'
    BY <1>5, NotifyShape
<1> QED
    BY <1>1, <1>2, <1>3, <1>4, <1>5 DEF Next, Save, Visit

(* At any time every variable has its type: the undo list of every client is
   never longer than MaxHistory and its index never points outside it, and a
   handler that runs has a request to work on. *)
THEOREM TypeCorrect == Spec => []TypeOK
<1>1. Init => Shape
    BY ShapeInit
<1>2. Shape /\ [Next]_vars => Shape'
    BY ShapeStep
<1>3. Shape => TypeOK
    BY ShapeTypes
<1> QED
    BY <1>1, <1>2, <1>3, PTL DEF Spec

-----------------------------------------------------------------------------
(* The watchers follow when the edits of a part are cast in their order: with
   one worker, or with one writer of each part *)

Owned == \A x \in Cells : \A c, d \in Clients :
            <<c, x>> \in Writes /\ <<d, x>> \in Writes => c = d

InTurn == Workers = 1 \/ Owned

Single ==
    Workers = 1 =>
        \A c, d \in Clients : stage[c] # "waiting" /\ stage[d] # "waiting" => c = d

(* WatchersFollow without the choice of a message: the handler about to cast
   holds what the room's map holds, and if there is none the messages on their
   way lead there. *)
Follows ==
    \A c \in Clients, x \in Cells : <<c, x>> \notin Writes =>
        /\ \A d \in AboutToCast(x) : Head(toServer[d]).val = doc[x]
        /\ AboutToCast(x) = {} => Leads(toClient[c], client[c].doc[x], x, doc[x])

Following == Shape /\ Single /\ Follows

(* What a handler has applied and not yet cast is about a part that it works
   on alone. *)
LEMMA CastsApart ==
    ASSUME InTurn, Following, NEW x \in Cells, NEW c \in AboutToCast(x), NEW d \in AboutToCast(x)
    PROVE  c = d
<1>1. /\ c \in Clients /\ stage[c] # "waiting" /\ Head(toServer[c]).cell = x
      /\ d \in Clients /\ stage[d] # "waiting" /\ Head(toServer[d]).cell = x
    BY DEF AboutToCast
<1>2. CASE Workers = 1
    BY <1>1, <1>2 DEF Following, Single
<1>3. CASE Owned
    <2>1. toServer[c] # <<>> /\ toServer[d] # <<>>
        BY <1>1 DEF Following, Shape
    <2>2. <<c, x>> \in Writes /\ <<d, x>> \in Writes
        BY <1>1, <2>1, FirstRequest DEF Following
    <2> QED
        BY <1>1, <1>3, <2>2 DEF Owned
<1> QED
    BY <1>2, <1>3 DEF InTurn

LEMMA FollowsEnough == Following => WatchersFollow
<1> SUFFICES ASSUME Following, NEW c \in Clients, NEW x \in Cells, <<c, x>> \notin Writes
             PROVE  Expected(c, x) = doc[x]
    BY DEF WatchersFollow
<1> DEFINE n == Len(toClient[c])
<1>1. toClient[c] \in Seq(Message) /\ DOMAIN toClient[c] = 1 .. n /\ n \in Nat
    BY LenProperties DEF Following, Shape
<1>2. OnItsWay(c, x) = Spots(toClient[c], x) /\ OnItsWay(c, x) \in SUBSET (1 .. n)
    BY <1>1 DEF OnItsWay, Spots
<1>3. CASE AboutToCast(x) # {}
    <2>1. (CHOOSE d \in AboutToCast(x) : TRUE) \in AboutToCast(x)
        BY <1>3
    <2>2. Expected(c, x) = Head(toServer[CHOOSE d \in AboutToCast(x) : TRUE]).val
        BY <1>3 DEF Expected
    <2> QED
        BY <2>1, <2>2 DEF Following, Follows
<1>4. CASE AboutToCast(x) = {} /\ OnItsWay(c, x) # {}
    <2> DEFINE last == CHOOSE i \in OnItsWay(c, x) : \A j \in OnItsWay(c, x) : j <= i
    <2>1. Expected(c, x) = toClient[c][last].val
        BY <1>4 DEF Expected
    <2>2. \E i \in OnItsWay(c, x) : \A j \in OnItsWay(c, x) : j <= i
        BY <1>1, <1>2, <1>4, LastPosition
    <2>3. last \in OnItsWay(c, x) /\ \A j \in OnItsWay(c, x) : j <= last
        BY <2>2
    <2> HIDE DEF last
    <2> QED
        BY <1>2, <1>4, <2>1, <2>3 DEF Following, Follows, Leads
<1>5. CASE AboutToCast(x) = {} /\ OnItsWay(c, x) = {}
    BY <1>2, <1>5 DEF Expected, Following, Follows, Leads
<1> QED
    BY <1>3, <1>4, <1>5

LEMMA FollowingInit == Init => Following
<1> SUFFICES ASSUME Init PROVE Following
    OBVIOUS
<1>1. Shape /\ Single
    BY ShapeInit DEF Init, Single
<1>2. ASSUME NEW c \in Clients, NEW x \in Cells
      PROVE  AboutToCast(x) = {} /\ Leads(toClient[c], client[c].doc[x], x, doc[x])
    <2>1. AboutToCast(x) = {}
        BY DEF AboutToCast, Init
    <2>2. toClient[c] = <<>> /\ DOMAIN <<>> = {} /\ client[c].doc = doc
        BY DEF Init
    <2> QED
        BY <2>1, <2>2 DEF Leads, Spots
<1> QED
    BY <1>1, <1>2 DEF Following, Follows

(* A request changes nothing the watchers see. *)
LEMMA FollowingQuery ==
    ASSUME Following, NEW c \in Clients,
           (\E y \in Cells, w \in Values : Edit(c, y, w)) \/ Undo(c) \/ Redo(c)
    PROVE  Following'
<1>1. PICK k \in Sound(c), x \in Cells, v \in Values :
          k.doc = client[c].doc /\ <<c, x>> \in Writes /\ Query(c, k, x, v)
    BY Requests DEF Following
<1>2. /\ Shape'
      /\ \A d \in Clients, y \in Cells : <<d, y>> \notin Writes =>
            client'[d].doc[y] = client[d].doc[y]
      /\ \A d \in Clients : toServer[d] # <<>> =>
            toServer'[d] # <<>> /\ Head(toServer'[d]) = Head(toServer[d])
      /\ UNCHANGED <<doc, toClient, stage, notices>>
    BY <1>1, QueryShape DEF Following
<1>3. \A d \in Clients : stage[d] = "applied" => Head(toServer'[d]) = Head(toServer[d])
    BY <1>2 DEF Following, Shape
<1>4. \A y \in Cells : AboutToCast(y)' = AboutToCast(y)
    BY <1>2, <1>3 DEF AboutToCast
<1>5. \A y \in Cells : \A d \in AboutToCast(y) : Head(toServer'[d]) = Head(toServer[d])
    BY <1>3 DEF AboutToCast
<1>6. Follows'
    BY <1>2, <1>4, <1>5 DEF Following, Follows
<1> QED
    BY <1>2, <1>6 DEF Following, Single

LEMMA FollowingReceive ==
    ASSUME Following, NEW b \in Clients, Receive(b)
    PROVE  Following'
<1> DEFINE m == Head(toClient[b])
<1>1. /\ Shape'
      /\ \A x \in Cells : <<b, x>> \notin Writes =>
            client'[b].doc[x] =
               IF m.kind = "op" /\ m.cell = x THEN m.val ELSE client[b].doc[x]
      /\ \A d \in Clients \ {b} : client'[d] = client[d] /\ toClient'[d] = toClient[d]
      /\ toClient[b] # <<>> /\ toClient'[b] = Tail(toClient[b])
      /\ UNCHANGED <<doc, toServer, stage, notices>>
    BY ReceiveShape DEF Following
<1>2. \A x \in Cells : AboutToCast(x)' = AboutToCast(x)
    BY <1>1 DEF AboutToCast
<1>3. ASSUME NEW c \in Clients, NEW x \in Cells, <<c, x>> \notin Writes,
             AboutToCast(x) = {}
      PROVE  Leads(toClient'[c], client'[c].doc[x], x, doc[x])
    <2>1. Leads(toClient[c], client[c].doc[x], x, doc[x])
        BY <1>3 DEF Following, Follows
    <2>2. CASE c = b
        <3>1. toClient[b] \in Seq(Message)
            BY DEF Following, Shape
        <3>2. Leads(Tail(toClient[b]),
                    IF m.kind = "op" /\ m.cell = x THEN m.val ELSE client[b].doc[x], x, doc[x])
            BY <1>1, <2>1, <2>2, <3>1, LeadsTail
        <3> QED
            BY <1>1, <1>3, <2>2, <3>2
    <2>3. CASE c # b
        BY <1>1, <2>1, <2>3
    <2> QED
        BY <2>2, <2>3
<1>4. Follows'
    BY <1>1, <1>2, <1>3 DEF Following, Follows
<1> QED
    BY <1>1, <1>4 DEF Following, Single

(* With one worker a handler starts only when no other runs; otherwise nobody
   else's handler works on the same part. *)
LEMMA FollowingApply ==
    ASSUME InTurn, Following, NEW b \in Clients, Apply(b)
    PROVE  Following'
<1> DEFINE r == Head(toServer[b])
<1>1. /\ stage[b] = "waiting" /\ toServer[b] # <<>> /\ Cardinality(Busy) < Workers
      /\ UNCHANGED <<client, toServer, toClient, notices>>
      /\ stage \in [Clients -> Stages]
    BY DEF Apply, Following, Shape
<1>2. ASSUME Workers = 1, NEW d \in Clients
      PROVE  stage[d] = "waiting"
    <2>1. IsFiniteSet(Busy)
        <3>1. Busy \subseteq Clients
            BY DEF Busy
        <3> QED
            BY <3>1, ClientAssumption, FS_Subset
    <2>2. Cardinality(Busy) = 0
        BY <1>1, <1>2, <2>1, FS_CardinalityType
    <2>3. Busy = {}
        BY <2>1, <2>2, FS_EmptySet
    <2> QED
        BY <2>3 DEF Busy
<1>3. \A d \in Clients \ {b} : stage'[d] = stage[d]
    BY <1>1 DEF Apply
<1>4. Shape' /\ Single'
    BY <1>2, <1>3, ServerShape DEF Following, Single
<1>5. AboutToCast(r.cell) = {} /\ r.cell \in Cells
    <2>1. r \in Request /\ <<b, r.cell>> \in Writes
        BY <1>1, FirstRequest DEF Following
    <2>2. ASSUME NEW d \in AboutToCast(r.cell)
          PROVE  FALSE
        <3>1. d \in Clients /\ stage[d] = "applied" /\ Head(toServer[d]).cell = r.cell
            BY <2>2 DEF AboutToCast
        <3>2. toServer[d] # <<>>
            BY <3>1 DEF Following, Shape
        <3>3. <<d, r.cell>> \in Writes
            BY <3>1, <3>2, FirstRequest DEF Following
        <3>4. r.cell \in Cells
            BY <2>1 DEF Request
        <3> QED
            BY <1>1, <1>2, <2>1, <3>1, <3>3, <3>4 DEF InTurn, Owned
    <2> QED
        BY <2>1, <2>2 DEF Request
<1>6. CASE doc' = [doc EXCEPT ![r.cell] = r.val] /\ stage' = [stage EXCEPT ![b] = "applied"]
    <2>1. stage'[b] = "applied"
        BY <1>1, <1>6
    <2>2. \A x \in Cells : AboutToCast(x)' = IF x = r.cell THEN {b} ELSE AboutToCast(x)
        BY <1>1, <1>3, <1>5, <2>1 DEF AboutToCast
    <2>3. \A x \in Cells : doc'[x] = IF x = r.cell THEN r.val ELSE doc[x]
        BY <1>6 DEF Following, Shape, Doc
    <2>4. toServer'[b] = toServer[b]
        BY <1>1
    <2>5. ASSUME NEW c \in Clients, NEW x \in Cells, <<c, x>> \notin Writes
          PROVE  /\ \A d \in AboutToCast(x)' : Head(toServer'[d]).val = doc'[x]
                 /\ AboutToCast(x)' = {} => Leads(toClient'[c], client'[c].doc[x], x, doc'[x])
        <3>1. CASE x = r.cell
            <4>1. AboutToCast(x)' = {b} /\ doc'[x] = r.val
                BY <2>2, <2>3, <3>1
            <4> QED
                BY <2>4, <4>1
        <3>2. CASE x # r.cell
            <4>1. AboutToCast(x)' = AboutToCast(x) /\ doc'[x] = doc[x]
                BY <2>2, <2>3, <3>2
            <4> QED
                BY <1>1, <2>5, <4>1 DEF Following, Follows
        <3> QED
            BY <3>1, <3>2
    <2> QED
        BY <1>4, <2>5 DEF Following, Follows
<1>7. CASE stage' = [stage EXCEPT ![b] = "refused"] /\ UNCHANGED doc
    <2>1. stage'[b] = "refused"
        BY <1>1, <1>7
    <2>2. \A x \in Cells : AboutToCast(x)' = AboutToCast(x)
        BY <1>1, <1>3, <2>1 DEF AboutToCast
    <2> QED
        BY <1>1, <1>4, <1>7, <2>2 DEF Following, Follows
<1> QED
    BY <1>6, <1>7 DEF Apply

LEMMA FollowingCast ==
    ASSUME InTurn, Following, NEW b \in Clients, Cast(b)
    PROVE  Following'
<1> DEFINE r == Head(toServer[b])
           m == [kind |-> "op", cell |-> r.cell, val |-> r.val]
<1>1. /\ stage[b] = "applied" /\ stage' = [stage EXCEPT ![b] = "cast"]
      /\ UNCHANGED <<doc, client, toServer, notices>>
      /\ toClient' = [d \in Clients |-> IF d = b THEN toClient[d] ELSE Append(toClient[d], m)]
      /\ stage \in [Clients -> Stages]
    BY DEF Cast, Following, Shape
<1>2. \A d \in Clients \ {b} : stage'[d] = stage[d]
    BY <1>1
<1>3. Shape' /\ Single'
    BY <1>1, <1>2, ServerShape DEF Following, Single
<1>4. r \in Request /\ <<b, r.cell>> \in Writes /\ r.cell \in Cells
    <2>1. toServer[b] # <<>>
        BY <1>1 DEF Following, Shape
    <2> QED
        BY <2>1, FirstRequest DEF Following, Request
<1>5. b \in AboutToCast(r.cell)
    BY <1>1 DEF AboutToCast
<1>6. ASSUME NEW x \in Cells
      PROVE  /\ AboutToCast(x)' = AboutToCast(x) \ {b}
             /\ x = r.cell => AboutToCast(x) = {b}
             /\ x # r.cell => AboutToCast(x)' = AboutToCast(x)
    <2>1. stage'[b] = "cast" /\ toServer' = toServer
        BY <1>1
    <2>2. AboutToCast(x)' = AboutToCast(x) \ {b}
        BY <1>2, <2>1 DEF AboutToCast
    <2>3. x = r.cell => AboutToCast(x) = {b}
        BY <1>4, <1>5, CastsApart
    <2>4. x # r.cell => b \notin AboutToCast(x)
        BY DEF AboutToCast
    <2> QED
        BY <2>2, <2>3, <2>4
<1>7. m \in Message /\ m.kind = "op" /\ m.cell = r.cell /\ m.val = r.val
    BY <1>4 DEF Message, Request
<1> HIDE DEF m
<1>8. ASSUME NEW c \in Clients, NEW x \in Cells, <<c, x>> \notin Writes, AboutToCast(x)' = {}
      PROVE  Leads(toClient'[c], client'[c].doc[x], x, doc'[x])
    <2>1. toClient[c] \in Seq(Message)
        BY DEF Following, Shape
    <2>2. CASE c = b
        <3>1. x # r.cell
            BY <1>4, <1>8, <2>2
        <3>2. Leads(toClient[c], client[c].doc[x], x, doc[x])
            BY <1>6, <1>8, <3>1 DEF Following, Follows
        <3> QED
            BY <1>1, <2>2, <3>2
    <2>3. CASE c # b /\ x = r.cell
        <3>1. r.val = doc[x]
            BY <1>5, <1>8, <2>3 DEF Following, Follows
        <3>2. Leads(Append(toClient[c], m), client[c].doc[x], x, doc[x])
            BY <1>7, <2>1, <2>3, <3>1, LeadsAppend
        <3> QED
            BY <1>1, <2>3, <3>2
    <2>4. CASE c # b /\ x # r.cell
        <3>1. Leads(toClient[c], client[c].doc[x], x, doc[x])
            BY <1>6, <1>8, <2>4 DEF Following, Follows
        <3>2. Leads(Append(toClient[c], m), client[c].doc[x], x, doc[x])
            BY <1>7, <2>1, <2>4, <3>1, LeadsAppend
        <3> QED
            BY <1>1, <2>4, <3>2
    <2> QED
        BY <2>2, <2>3, <2>4
<1>9. ASSUME NEW c \in Clients, NEW x \in Cells, <<c, x>> \notin Writes, NEW d \in AboutToCast(x)'
      PROVE  Head(toServer'[d]).val = doc'[x]
    <2>1. d \in AboutToCast(x) /\ toServer' = toServer /\ doc' = doc
        BY <1>1, <1>6, <1>9
    <2> QED
        BY <1>9, <2>1 DEF Following, Follows
<1> QED
    BY <1>3, <1>8, <1>9 DEF Following, Follows

LEMMA FollowingAnswer ==
    ASSUME Following, NEW b \in Clients, Answer(b)
    PROVE  Following'
<1> DEFINE m == [kind |-> "resp", id |-> Head(toServer[b]).id, ok |-> stage[b] = "cast"]
<1>1. /\ stage[b] \in {"cast", "refused"} /\ stage' = [stage EXCEPT ![b] = "waiting"]
      /\ toServer' = [toServer EXCEPT ![b] = Tail(@)]
      /\ toClient' = [toClient EXCEPT ![b] = Append(@, m)]
      /\ UNCHANGED <<doc, client, notices>>
      /\ stage \in [Clients -> Stages]
      /\ toServer = [d \in Clients |-> toServer[d]]
      /\ toClient \in [Clients -> Seq(Message)]
    BY DEF Answer, Following, Shape
<1>2. \A d \in Clients \ {b} : stage'[d] = stage[d] /\ toServer'[d] = toServer[d]
    BY <1>1
<1>3. stage'[b] = "waiting"
    BY <1>1
<1>4. Shape' /\ Single'
    BY <1>2, <1>3, ServerShape DEF Following, Single
<1>5. \A x \in Cells : AboutToCast(x)' = AboutToCast(x) /\ b \notin AboutToCast(x)
    <2>1. stage[b] # "applied" /\ stage'[b] # "applied"
        BY <1>1, <1>3
    <2> QED
        BY <1>2, <2>1 DEF AboutToCast
<1>6. \A x \in Cells : \A d \in AboutToCast(x) : toServer'[d] = toServer[d]
    BY <1>2, <1>5 DEF AboutToCast
<1>7. m \in Message /\ m.kind # "op"
    <2>1. toServer[b] # <<>>
        BY <1>1 DEF Following, Shape
    <2>2. Head(toServer[b]) \in Request
        BY <2>1, FirstRequest DEF Following
    <2> QED
        BY <2>2 DEF Message, Request
<1> HIDE DEF m
<1>8. ASSUME NEW c \in Clients, NEW x \in Cells, <<c, x>> \notin Writes,
             AboutToCast(x) = {}
      PROVE  Leads(toClient'[c], client'[c].doc[x], x, doc'[x])
    <2>1. Leads(toClient[c], client[c].doc[x], x, doc[x]) /\ toClient[c] \in Seq(Message)
        BY <1>1, <1>8 DEF Following, Follows
    <2>2. Leads(Append(toClient[c], m), client[c].doc[x], x, doc[x])
        BY <1>7, <2>1, LeadsAppend
    <2>3. toClient'[c] = IF c = b THEN Append(toClient[c], m) ELSE toClient[c]
        BY <1>1
    <2> QED
        BY <1>1, <2>1, <2>2, <2>3
<1>9. ASSUME NEW c \in Clients, NEW x \in Cells, <<c, x>> \notin Writes, NEW d \in AboutToCast(x)
      PROVE  Head(toServer'[d]).val = doc'[x]
    <2>1. toServer'[d] = toServer[d] /\ doc' = doc
        BY <1>1, <1>6
    <2>2. Head(toServer[d]).val = doc[x]
        BY <1>9 DEF Following, Follows
    <2> QED
        BY <2>1, <2>2
<1>10. ASSUME NEW c \in Clients, NEW x \in Cells, <<c, x>> \notin Writes
       PROVE  /\ \A d \in AboutToCast(x)' : Head(toServer'[d]).val = doc'[x]
              /\ AboutToCast(x)' = {} => Leads(toClient'[c], client'[c].doc[x], x, doc'[x])
    <2>1. AboutToCast(x)' = AboutToCast(x) /\ doc' = doc
        BY <1>1, <1>5
    <2> QED
        BY <1>8, <1>9, <1>10, <2>1
<1>11. Follows'
    BY <1>10 DEF Follows
<1> QED
    BY <1>4, <1>11 DEF Following

(* A notice leads nowhere. *)
LEMMA FollowingNotify ==
    ASSUME Following, NEW users, Notify(users)
    PROVE  Following'
<1> DEFINE m == [kind |-> "note"]
<1>1. /\ Shape /\ Shape' /\ m \in Message
      /\ \A d \in Clients : toClient'[d] \in {toClient[d], Append(toClient[d], m)}
      /\ UNCHANGED <<doc, client, toServer, stage>>
    BY NotifyShape DEF Following
<1>2. m.kind # "op"
    OBVIOUS
<1> HIDE DEF m
<1>3. \A x \in Cells : AboutToCast(x)' = AboutToCast(x)
    BY <1>1 DEF AboutToCast
<1>4. ASSUME NEW c \in Clients, NEW x \in Cells, <<c, x>> \notin Writes, AboutToCast(x) = {}
      PROVE  Leads(toClient'[c], client'[c].doc[x], x, doc'[x])
    <2>1. Leads(toClient[c], client[c].doc[x], x, doc[x]) /\ toClient[c] \in Seq(Message)
        BY <1>1, <1>4 DEF Following, Follows, Shape
    <2>2. Leads(Append(toClient[c], m), client[c].doc[x], x, doc[x])
        BY <1>1, <1>2, <2>1, LeadsAppend
    <2> QED
        BY <1>1, <2>1, <2>2
<1>5. Follows'
    BY <1>1, <1>3, <1>4 DEF Following, Follows
<1>6. Single'
    BY <1>1 DEF Following, Single
<1> QED
    BY <1>1, <1>5, <1>6 DEF Following

LEMMA FollowingStep ==
    ASSUME InTurn
    PROVE  Following /\ [Next]_vars => Following'
<1> SUFFICES ASSUME Following, [Next]_vars PROVE Following'
    OBVIOUS
<1>1. CASE UNCHANGED vars
    <2>1. Shape'
        BY <1>1, ShapeStep DEF Following
    <2> QED
        BY <1>1, <2>1 DEF vars, Following, Single, Follows, AboutToCast
<1>2. ASSUME NEW c \in Clients,
             (\E x \in Cells, v \in Values : Edit(c, x, v)) \/ Undo(c) \/ Redo(c)
      PROVE  Following'
    BY <1>2, FollowingQuery
<1>3. ASSUME NEW c \in Clients, Receive(c) PROVE Following'
    BY <1>3, FollowingReceive
<1>4. ASSUME NEW c \in Clients, Apply(c) PROVE Following'
    BY <1>4, FollowingApply
<1>5. ASSUME NEW c \in Clients, Cast(c) PROVE Following'
    BY <1>5, FollowingCast
<1>6. ASSUME NEW c \in Clients, Answer(c) PROVE Following'
    BY <1>6, FollowingAnswer
<1>7. ASSUME NEW users, Notify(users) PROVE Following'
    BY <1>7, FollowingNotify
<1> QED
    BY <1>1, <1>2, <1>3, <1>4, <1>5, <1>6, <1>7 DEF Next, Save, Visit

(* When the server runs one handler at a time, or each part of the map has one
   writer, a client's map is only late in the parts that client does not write:
   the broadcasts on their way bring it to the room's map, for any number of
   clients and parts and whatever is refused, undone or predicted wrongly. *)
THEOREM WatchersAreOnlyLate ==
    ASSUME InTurn
    PROVE  Spec => []WatchersFollow
<1>1. Init => Following
    BY FollowingInit
<1>2. Following /\ [Next]_vars => Following'
    BY FollowingStep
<1>3. Following => WatchersFollow
    BY FollowsEnough
<1> QED
    BY <1>1, <1>2, <1>3, PTL DEF Spec

-----------------------------------------------------------------------------
(* The numbers of requests *)

Rising(s) == \A i, j \in DOMAIN s : i < j => s[i].id < s[j].id
Answers(m) == {i \in DOMAIN m : m[i].kind = "resp"}

(* Pending predictions p, requests q and messages m of a client that has sent n
   requests: an answer leaves before those of later requests, and whatever is
   pending has its answer or its request on the way. *)
Numbered(p, q, m, n) ==
    /\ Rising(p) /\ Rising(q)
    /\ \A i, j \in Answers(m) : i < j => m[i].id < m[j].id
    /\ \A i \in Answers(m), j \in DOMAIN q : m[i].id < q[j].id
    /\ \A i \in DOMAIN q : q[i].id <= n
    /\ \A i \in Answers(m) : m[i].id <= n
    /\ \A i \in DOMAIN p : \/ \E j \in Answers(m) : m[j].id = p[i].id
                           \/ \E j \in DOMAIN q : q[j].id = p[i].id

LEMMA Identifiers ==
    ASSUME NEW p \in Seq(Operation), NEW q \in Seq(Request), NEW m \in Seq(Message)
    PROVE  /\ Len(p) \in Nat /\ DOMAIN p = 1 .. Len(p) /\ \A i \in DOMAIN p : p[i].id \in Nat
           /\ Len(q) \in Nat /\ DOMAIN q = 1 .. Len(q) /\ \A i \in DOMAIN q : q[i].id \in Nat
           /\ Len(m) \in Nat /\ DOMAIN m = 1 .. Len(m) /\ \A i \in Answers(m) : m[i].id \in Nat
<1>1. \A i \in 1 .. Len(p) : p[i] \in Operation
    BY ElementOfSeq
<1>2. \A i \in 1 .. Len(q) : q[i] \in Request
    BY ElementOfSeq
<1>3. \A i \in 1 .. Len(m) : m[i] \in Message
    BY ElementOfSeq
<1>4. /\ Len(p) \in Nat /\ DOMAIN p = 1 .. Len(p)
      /\ Len(q) \in Nat /\ DOMAIN q = 1 .. Len(q)
      /\ Len(m) \in Nat /\ DOMAIN m = 1 .. Len(m)
    BY LenProperties
<1> QED
    BY <1>1, <1>2, <1>3, <1>4 DEF Operation, Request, Message, Answers

(* A list with one more element behind the others. *)
LEMMA Lengthened ==
    ASSUME NEW S, NEW s \in Seq(S), NEW e \in S
    PROVE  /\ Append(s, e) \in Seq(S) /\ Len(s) \in Nat /\ Len(Append(s, e)) = Len(s) + 1
           /\ DOMAIN s = 1 .. Len(s)
           /\ DOMAIN Append(s, e) = 1 .. Len(s) + 1
           /\ \A i \in 1 .. Len(s) : i \in 1 .. Len(s) + 1 /\ Append(s, e)[i] = s[i]
           /\ Append(s, e)[Len(s) + 1] = e
           /\ \A i \in 1 .. Len(s) + 1 : i = Len(s) + 1 \/ (i \in 1 .. Len(s) /\ i < Len(s) + 1)
BY AppendProperties, LenProperties

(* A list without its first element. *)
LEMMA Shortened ==
    ASSUME NEW S, NEW s \in Seq(S), s # <<>>
    PROVE  /\ Tail(s) \in Seq(S) /\ Len(Tail(s)) \in Nat /\ Len(s) = Len(Tail(s)) + 1
           /\ DOMAIN s = 1 .. Len(Tail(s)) + 1 /\ DOMAIN Tail(s) = 1 .. Len(Tail(s))
           /\ \A i \in 1 .. Len(Tail(s)) : i + 1 \in DOMAIN s /\ Tail(s)[i] = s[i + 1] /\ 1 < i + 1
           /\ \A i \in DOMAIN s : i = 1 \/ (i - 1 \in 1 .. Len(Tail(s)) /\ Tail(s)[i - 1] = s[i])
           /\ Head(s) = s[1] /\ 1 \in DOMAIN s /\ s[1] \in S
BY HeadTailProperties, LenProperties, ElementOfSeq

LEMMA RisingAppend ==
    ASSUME NEW S, NEW s \in Seq(S), NEW e \in S, Rising(s),
           \A i \in DOMAIN s : s[i].id < e.id
    PROVE  Rising(Append(s, e))
<1> DEFINE t == Append(s, e)
           n == Len(s)
<1>1. /\ n \in Nat /\ DOMAIN s = 1 .. n /\ DOMAIN t = 1 .. n + 1 /\ t[n + 1] = e
      /\ \A i \in 1 .. n : t[i] = s[i]
      /\ \A i \in 1 .. n + 1 : i = n + 1 \/ (i \in 1 .. n /\ i < n + 1)
    BY Lengthened
<1> HIDE DEF t, n
<1>2. ASSUME NEW i \in 1 .. n + 1, NEW j \in 1 .. n + 1, i < j
      PROVE  t[i].id < t[j].id
    BY <1>1, <1>2 DEF Rising
<1> QED
    BY <1>1, <1>2 DEF Rising, t

LEMMA RisingTail ==
    ASSUME NEW S, NEW s \in Seq(S), s # <<>>, Rising(s)
    PROVE  Rising(Tail(s))
<1> DEFINE t == Tail(s)
<1>1. /\ Len(t) \in Nat /\ DOMAIN t = 1 .. Len(t)
      /\ \A i \in 1 .. Len(t) : i + 1 \in DOMAIN s /\ t[i] = s[i + 1]
    BY Shortened
<1> HIDE DEF t
<1>2. ASSUME NEW i \in 1 .. Len(t), NEW j \in 1 .. Len(t), i < j
      PROVE  t[i].id < t[j].id
    <2>1. i + 1 < j + 1
        BY <1>1, <1>2
    <2> QED
        BY <1>1, <2>1 DEF Rising
<1> QED
    BY <1>1, <1>2 DEF Rising, t

(* The next request. *)
LEMMA AskedInOrder ==
    ASSUME NEW p \in Seq(Operation), NEW q \in Seq(Request), NEW m \in Seq(Message), NEW n \in Nat,
           Numbered(p, q, m, n), NEW op \in Operation, NEW r \in Request,
           op.id = n + 1, r.id = n + 1
    PROVE  /\ Numbered(p, Append(q, r), m, n + 1)
           /\ Numbered(Append(p, op), Append(q, r), m, n + 1)
<1> DEFINE q2 == Append(q, r)
           p2 == Append(p, op)
<1>1. /\ Len(p) \in Nat /\ DOMAIN p = 1 .. Len(p) /\ \A i \in DOMAIN p : p[i].id \in Nat
      /\ Len(q) \in Nat /\ DOMAIN q = 1 .. Len(q) /\ \A i \in DOMAIN q : q[i].id \in Nat
      /\ \A i \in Answers(m) : m[i].id \in Nat
    BY Identifiers
<1>2. /\ DOMAIN q2 = 1 .. Len(q) + 1 /\ q2[Len(q) + 1] = r /\ Len(q) + 1 \in DOMAIN q2
      /\ \A i \in 1 .. Len(q) : i \in DOMAIN q2 /\ q2[i] = q[i]
      /\ \A i \in 1 .. Len(q) + 1 : i = Len(q) + 1 \/ i \in 1 .. Len(q)
    BY <1>1, Lengthened
<1>3. /\ DOMAIN p2 = 1 .. Len(p) + 1 /\ p2[Len(p) + 1] = op
      /\ \A i \in 1 .. Len(p) : p2[i] = p[i]
      /\ \A i \in 1 .. Len(p) + 1 : i = Len(p) + 1 \/ i \in 1 .. Len(p)
    BY <1>1, Lengthened
<1>4. (\A i \in DOMAIN q : q[i].id < r.id) /\ (\A i \in Answers(m) : m[i].id < r.id)
    BY <1>1 DEF Numbered
<1>5. \A i \in DOMAIN p : p[i].id < op.id
    BY <1>1, <1>4 DEF Numbered
<1>6. Rising(q2) /\ Rising(p2) /\ Rising(p)
    BY <1>4, <1>5, RisingAppend DEF Numbered
<1> HIDE DEF p2, q2
<1>7. \A i, j \in Answers(m) : i < j => m[i].id < m[j].id
    BY DEF Numbered
<1>8. \A i \in Answers(m), j \in DOMAIN q2 : m[i].id < q2[j].id
    BY <1>1, <1>2, <1>4 DEF Numbered
<1>9. \A i \in DOMAIN q2 : q2[i].id <= n + 1
    BY <1>1, <1>2 DEF Numbered
<1>10. \A i \in Answers(m) : m[i].id <= n + 1
    BY <1>1 DEF Numbered
<1>11. \A i \in DOMAIN p : \/ \E j \in Answers(m) : m[j].id = p[i].id
                           \/ \E j \in DOMAIN q2 : q2[j].id = p[i].id
    BY <1>1, <1>2 DEF Numbered
<1>12. \A i \in DOMAIN p2 : \/ \E j \in Answers(m) : m[j].id = p2[i].id
                            \/ \E j \in DOMAIN q2 : q2[j].id = p2[i].id
    BY <1>1, <1>2, <1>3, <1>11, ZenonT(40)
<1> QED
    BY <1>6, <1>7, <1>8, <1>9, <1>10, <1>11, <1>12 DEF Numbered, p2, q2

(* Predictions that are no longer pending. *)
LEMMA DroppedInOrder ==
    ASSUME NEW p \in Seq(Operation), p # <<>>, NEW q, NEW m, NEW n, Numbered(p, q, m, n)
    PROVE  Numbered(Tail(p), q, m, n)
<1>1. \A i \in DOMAIN Tail(p) : i + 1 \in DOMAIN p /\ Tail(p)[i] = p[i + 1]
    BY Shortened
<1>2. Rising(Tail(p))
    BY RisingTail DEF Numbered
<1> QED
    BY <1>1, <1>2 DEF Numbered

(* A message arrives that answers nothing, or nothing that is pending. *)
LEMMA ReceivedInOrder ==
    ASSUME NEW p \in Seq(Operation), NEW q \in Seq(Request), NEW m \in Seq(Message), m # <<>>,
           NEW n, Numbered(p, q, m, n),
           Head(m).kind = "resp" => \A i \in DOMAIN p : p[i].id # Head(m).id
    PROVE  Numbered(p, q, Tail(m), n)
<1> DEFINE t == Tail(m)
<1>1. /\ DOMAIN t = 1 .. Len(t) /\ Len(t) \in Nat /\ Head(m) = m[1]
      /\ \A i \in 1 .. Len(t) : i + 1 \in DOMAIN m /\ t[i] = m[i + 1]
      /\ \A i \in DOMAIN m : i = 1 \/ (i - 1 \in 1 .. Len(t) /\ t[i - 1] = m[i])
    BY Shortened
<1> HIDE DEF t
<1>2. \A i \in Answers(t) : i \in 1 .. Len(t) /\ i + 1 \in Answers(m) /\ t[i] = m[i + 1]
    BY <1>1 DEF Answers
<1>3. \A i \in Answers(m) : i = 1 \/ (i - 1 \in Answers(t) /\ t[i - 1] = m[i])
    BY <1>1 DEF Answers
<1>4. ASSUME NEW i \in Answers(t), NEW j \in Answers(t), i < j
      PROVE  t[i].id < t[j].id
    <2>1. i + 1 < j + 1
        BY <1>1, <1>2, <1>4
    <2> QED
        BY <1>2, <2>1 DEF Numbered
<1>5. ASSUME NEW i \in DOMAIN p
      PROVE  \/ \E j \in Answers(t) : t[j].id = p[i].id
             \/ \E j \in DOMAIN q : q[j].id = p[i].id
    <2>1. CASE \E j \in DOMAIN q : q[j].id = p[i].id
        BY <2>1
    <2>2. CASE \E j \in Answers(m) : m[j].id = p[i].id
        <3>1. PICK j \in Answers(m) : m[j].id = p[i].id
            BY <2>2
        <3>2. j # 1
            BY <1>1, <3>1 DEF Answers
        <3> QED
            BY <1>3, <3>1, <3>2
    <2> QED
        BY <2>1, <2>2 DEF Numbered
<1>6. \A i \in Answers(t), j \in DOMAIN q : t[i].id < q[j].id
    BY <1>2 DEF Numbered
<1>7. \A i \in Answers(t) : t[i].id <= n
    BY <1>2 DEF Numbered
<1> QED
    BY <1>4, <1>5, <1>6, <1>7 DEF Numbered, t

(* An answer is to the first pending prediction or to none. *)
LEMMA FirstIsAnswered ==
    ASSUME NEW p \in Seq(Operation), NEW q \in Seq(Request), NEW m \in Seq(Message), m # <<>>,
           NEW n, Numbered(p, q, m, n), Head(m).kind = "resp",
           NEW i \in DOMAIN p, p[i].id = Head(m).id
    PROVE  i = 1
<1>1. /\ Len(p) \in Nat /\ DOMAIN p = 1 .. Len(p) /\ \A j \in DOMAIN p : p[j].id \in Nat
      /\ \A j \in DOMAIN q : q[j].id \in Nat
      /\ \A j \in Answers(m) : m[j].id \in Nat
    BY Identifiers
<1>2. Head(m) = m[1] /\ DOMAIN m = 1 .. Len(Tail(m)) + 1 /\ Len(Tail(m)) \in Nat
    BY Shortened
<1>3. 1 \in Answers(m) /\ \A j \in Answers(m) : j = 1 \/ 1 < j
    BY <1>2 DEF Answers
<1>4. SUFFICES ASSUME i # 1 PROVE FALSE
    OBVIOUS
<1>5. 1 \in DOMAIN p /\ 1 < i
    BY <1>1, <1>4
<1>6. p[1].id < m[1].id
    BY <1>2, <1>5 DEF Numbered, Rising
<1>7. (\E j \in Answers(m) : m[j].id = p[1].id) \/ (\E j \in DOMAIN q : q[j].id = p[1].id)
    BY <1>5 DEF Numbered
<1>8. ASSUME NEW j \in Answers(m), m[j].id = p[1].id
      PROVE  FALSE
    BY <1>1, <1>3, <1>5, <1>6, <1>8, SMTT(30) DEF Numbered
<1>9. ASSUME NEW j \in DOMAIN q, q[j].id = p[1].id
      PROVE  FALSE
    BY <1>1, <1>3, <1>5, <1>6, <1>9 DEF Numbered
<1> QED
    BY <1>7, <1>8, <1>9

(* A broadcast is behind what is on its way. *)
LEMMA CastInOrder ==
    ASSUME NEW p, NEW q, NEW m \in Seq(Message), NEW n, NEW e \in Message, e.kind # "resp",
           Numbered(p, q, m, n)
    PROVE  Numbered(p, q, Append(m, e), n)
<1> DEFINE t == Append(m, e)
<1>1. /\ DOMAIN m = 1 .. Len(m) /\ DOMAIN t = 1 .. Len(m) + 1 /\ t[Len(m) + 1] = e
      /\ \A i \in 1 .. Len(m) : i \in 1 .. Len(m) + 1 /\ t[i] = m[i]
      /\ \A i \in 1 .. Len(m) + 1 : i = Len(m) + 1 \/ i \in 1 .. Len(m)
    BY Lengthened
<1> HIDE DEF t
<1>2. Answers(t) = Answers(m) /\ \A i \in Answers(m) : t[i] = m[i]
    BY <1>1 DEF Answers
<1> QED
    BY <1>2 DEF Numbered, t

(* The answer of the first request is behind what is on its way. *)
LEMMA AnsweredInOrder ==
    ASSUME NEW p \in Seq(Operation), NEW q \in Seq(Request), q # <<>>, NEW m \in Seq(Message),
           NEW n \in Nat, NEW e \in Message, e.kind = "resp", e.id = Head(q).id,
           Numbered(p, q, m, n)
    PROVE  Numbered(p, Tail(q), Append(m, e), n)
<1> DEFINE t == Append(m, e)
           s == Tail(q)
           l == Len(m) + 1
<1>1. /\ DOMAIN m = 1 .. Len(m) /\ DOMAIN t = 1 .. l /\ t[l] = e /\ Len(m) \in Nat /\ l \in Nat
      /\ \A i \in 1 .. Len(m) : i \in 1 .. l /\ t[i] = m[i]
      /\ \A i \in 1 .. l : i = l \/ (i \in 1 .. Len(m) /\ i < l)
    BY Lengthened
<1>2. /\ DOMAIN s = 1 .. Len(s) /\ Len(s) \in Nat /\ Head(q) = q[1] /\ 1 \in DOMAIN q
      /\ \A i \in 1 .. Len(s) : i + 1 \in DOMAIN q /\ s[i] = q[i + 1] /\ 1 < i + 1
      /\ \A i \in DOMAIN q : i = 1 \/ (i - 1 \in 1 .. Len(s) /\ s[i - 1] = q[i])
    BY Shortened
<1>3. Rising(s)
    BY RisingTail DEF Numbered
<1>4. /\ \A j \in DOMAIN q : q[j].id \in Nat
      /\ \A j \in Answers(m) : m[j].id \in Nat
    BY Identifiers
<1> HIDE DEF t, s
<1>5. /\ l \in Answers(t) /\ \A i \in Answers(m) : i \in Answers(t) /\ t[i] = m[i]
      /\ \A i \in Answers(t) : i = l \/ (i \in Answers(m) /\ i < l)
    BY <1>1 DEF Answers
<1> HIDE DEF l
<1>6. ASSUME NEW i \in Answers(t), NEW j \in Answers(t), i < j
      PROVE  t[i].id < t[j].id
    <2>0. i \in Int /\ j \in Int /\ l \in Int
        BY <1>1 DEF Answers
    <2>1. i \in Answers(m)
        BY <1>1, <1>5, <1>6, <2>0
    <2>2. CASE j = l
        BY <1>1, <1>2, <1>5, <2>1, <2>2 DEF Numbered
    <2>3. CASE j # l
        BY <1>5, <1>6, <2>1, <2>3 DEF Numbered
    <2> QED
        BY <2>2, <2>3
<1>7. ASSUME NEW i \in Answers(t), NEW j \in DOMAIN s
      PROVE  t[i].id < s[j].id
    <2>1. CASE i = l
        <3>1. q[1].id < q[j + 1].id
            BY <1>2 DEF Numbered, Rising
        <3> QED
            BY <1>1, <1>2, <2>1, <3>1
    <2>2. CASE i # l
        BY <1>2, <1>5, <2>2 DEF Numbered
    <2> QED
        BY <2>1, <2>2
<1>8. \A i \in DOMAIN s : s[i].id <= n
    BY <1>2 DEF Numbered
<1>9. \A i \in Answers(t) : t[i].id <= n
    BY <1>1, <1>2, <1>5 DEF Numbered
<1>10. ASSUME NEW i \in DOMAIN p
       PROVE  \/ \E j \in Answers(t) : t[j].id = p[i].id
              \/ \E j \in DOMAIN s : s[j].id = p[i].id
    <2>1. CASE \E j \in Answers(m) : m[j].id = p[i].id
        BY <1>5, <2>1
    <2>2. CASE \E j \in DOMAIN q : q[j].id = p[i].id
        <3>1. PICK j \in DOMAIN q : q[j].id = p[i].id
            BY <2>2
        <3>2. CASE j = 1
            BY <1>1, <1>2, <1>5, <3>1, <3>2
        <3>3. CASE j # 1
            BY <1>2, <3>1, <3>3
        <3> QED
            BY <3>2, <3>3
    <2> QED
        BY <2>1, <2>2 DEF Numbered
<1>11. Rising(p)
    BY DEF Numbered
<1> QED
    BY <1>3, <1>6, <1>7, <1>8, <1>9, <1>10, <1>11 DEF Numbered, t, s

InOrder ==
    \A c \in Clients : Numbered(client[c].pending, toServer[c], toClient[c], client[c].sent)

LEMMA Lists ==
    ASSUME Shape, NEW c \in Clients
    PROVE  /\ client[c].pending \in Seq(Operation) /\ toServer[c] \in Seq(Request)
           /\ toClient[c] \in Seq(Message) /\ client[c].sent \in Nat
           /\ client[c].pending \in Seq(OwnOps(c)) /\ client[c].doc \in Doc
           /\ client[c] \in Sound(c) /\ toServer[c] \in Seq(OwnRequests(c))
<1>1. /\ client[c] \in Sound(c) /\ client[c] \in ClientOf(c) /\ toServer[c] \in Seq(OwnRequests(c))
      /\ toClient[c] \in Seq(Message)
    BY DEF Shape, Sound
<1>2. client[c].pending \in Seq(OwnOps(c)) /\ client[c].sent \in Nat /\ client[c].doc \in Doc
    BY <1>1 DEF ClientOf
<1>3. OwnOps(c) \subseteq Operation /\ OwnRequests(c) \subseteq Request
    BY DEF OwnOps, OwnRequests
<1>4. Seq(OwnOps(c)) \subseteq Seq(Operation) /\ Seq(OwnRequests(c)) \subseteq Seq(Request)
    BY <1>3, SeqMonotonic
<1> QED
    BY <1>1, <1>2, <1>4

LEMMA InOrderInit == Init => InOrder
<1> SUFFICES ASSUME Init, NEW c \in Clients
             PROVE  Numbered(client[c].pending, toServer[c], toClient[c], client[c].sent)
    BY DEF InOrder
<1>1. client[c].pending = <<>> /\ toServer[c] = <<>> /\ toClient[c] = <<>>
    BY DEF Init
<1>2. DOMAIN <<>> = {}
    OBVIOUS
<1> QED
    BY <1>1, <1>2 DEF Numbered, Rising, Answers

(* Client c asks for v in the part x: op is what it expects, r what it sends. *)
Sends(c, x, v, op, r) ==
    /\ op.id = client[c].sent + 1 /\ op.cell = x /\ op.val = v
    /\ r.id = client[c].sent + 1 /\ r.cell = x /\ r.val = v
    /\ client'[c].sent = client[c].sent + 1
    /\ client'[c].doc = [client[c].doc EXCEPT ![x] = v]
    /\ client'[c].pending = IF v \in Untracked THEN client[c].pending
                            ELSE Append(client[c].pending, op)
    /\ toServer'[c] = Append(toServer[c], r)
    /\ \A d \in Clients \ {c} : client'[d] = client[d] /\ toServer'[d] = toServer[d]
    /\ UNCHANGED <<doc, toClient, stage, notices>>

LEMMA QueryEffect ==
    ASSUME Shape, NEW c \in Clients,
           (\E y \in Cells, w \in Values : Edit(c, y, w)) \/ Undo(c) \/ Redo(c)
    PROVE  \E x \in Cells, v \in Values, op \in OwnOps(c), r \in OwnRequests(c) :
              <<c, x>> \in Writes /\ Sends(c, x, v, op, r)
<1>0. PICK k \in Sound(c), x \in Cells, v \in Values :
          /\ k.doc = client[c].doc /\ k.pending = client[c].pending /\ k.sent = client[c].sent
          /\ <<c, x>> \in Writes /\ Query(c, k, x, v)
    BY Requests
<1> DEFINE op == Asked(k, x, v)
           r == [id |-> k.sent + 1, cell |-> x, val |-> v]
           q == Queried(k, x, v)
<1>1. /\ k.sent \in Nat /\ k.doc \in Doc
      /\ client = [d \in Clients |-> client[d]] /\ toServer = [d \in Clients |-> toServer[d]]
    BY DEF Sound, ClientOf, Shape
<1>2. op \in OwnOps(c) /\ op.id = k.sent + 1 /\ op.cell = x /\ op.val = v
    BY <1>0, <1>1 DEF Asked, OwnOps, Operation, Doc
<1>3. r \in OwnRequests(c) /\ r.id = k.sent + 1 /\ r.cell = x /\ r.val = v
    BY <1>0, <1>1 DEF OwnRequests, Request
<1>4. /\ q.sent = k.sent + 1 /\ q.doc = [k.doc EXCEPT ![x] = v]
      /\ q.pending = IF v \in Untracked THEN k.pending ELSE Append(k.pending, op)
    BY <1>0, QueriedSound
<1>5. /\ client' = [client EXCEPT ![c] = q] /\ toServer' = [toServer EXCEPT ![c] = Append(@, r)]
      /\ UNCHANGED <<doc, toClient, stage, notices>>
    BY <1>0 DEF Query
<1> HIDE DEF op, r, q
<1>6. /\ client'[c] = q /\ toServer'[c] = Append(toServer[c], r)
      /\ \A d \in Clients \ {c} : client'[d] = client[d] /\ toServer'[d] = toServer[d]
    BY <1>1, <1>5
<1>7. Sends(c, x, v, op, r)
    BY <1>0, <1>2, <1>3, <1>4, <1>5, <1>6 DEF Sends
<1> QED
    BY <1>0, <1>2, <1>3, <1>7

LEMMA InOrderQuery ==
    ASSUME Shape, InOrder, NEW c \in Clients,
           (\E y \in Cells, w \in Values : Edit(c, y, w)) \/ Undo(c) \/ Redo(c)
    PROVE  InOrder'
<1>1. PICK x \in Cells, v \in Values, op \in OwnOps(c), r \in OwnRequests(c) :
          Sends(c, x, v, op, r)
    BY QueryEffect
<1>2. /\ op.id = client[c].sent + 1 /\ r.id = client[c].sent + 1
      /\ client'[c].sent = client[c].sent + 1
      /\ client'[c].pending = IF v \in Untracked THEN client[c].pending
                              ELSE Append(client[c].pending, op)
      /\ toServer'[c] = Append(toServer[c], r)
      /\ \A d \in Clients \ {c} : client'[d] = client[d] /\ toServer'[d] = toServer[d]
      /\ UNCHANGED toClient
    BY <1>1 DEF Sends
<1>3. op \in Operation /\ r \in Request
    BY DEF OwnOps, OwnRequests
<1>4. /\ client[c].pending \in Seq(Operation) /\ toServer[c] \in Seq(Request)
      /\ toClient[c] \in Seq(Message) /\ client[c].sent \in Nat
    BY Lists
<1>5. Numbered(client[c].pending, toServer[c], toClient[c], client[c].sent)
    BY DEF InOrder
<1>6. /\ Numbered(client[c].pending, Append(toServer[c], r), toClient[c], client[c].sent + 1)
      /\ Numbered(Append(client[c].pending, op), Append(toServer[c], r), toClient[c],
                  client[c].sent + 1)
    BY <1>2, <1>3, <1>4, <1>5, AskedInOrder
<1>7. Numbered(client'[c].pending, toServer'[c], toClient'[c], client'[c].sent)
    BY <1>2, <1>6
<1> QED
    BY <1>2, <1>7 DEF InOrder

(* What a message does to the client that receives it. *)
LEMMA ReceiveEffect ==
    ASSUME Shape, NEW c \in Clients, Receive(c)
    PROVE  LET m == Head(toClient[c])
               k == client[c]
           IN  /\ toClient[c] # <<>> /\ toClient'[c] = Tail(toClient[c]) /\ m \in Message
               /\ client'[c] = IF m.kind = "resp" THEN Answered(k, m.id, m.ok)
                               ELSE Overtaken(k, Told(m))
               /\ client'[c].sent = k.sent
               /\ client'[c].pending =
                     IF k.pending = <<>> \/ (m.kind = "resp" /\ k.pending[1].id # m.id)
                     THEN k.pending ELSE Tail(k.pending)
               /\ \A d \in Clients \ {c} : client'[d] = client[d] /\ toClient'[d] = toClient[d]
               /\ UNCHANGED <<doc, toServer, stage, notices>>
<1> DEFINE m == Head(toClient[c])
           k == client[c]
           r == IF m.kind = "resp" THEN Answered(k, m.id, m.ok) ELSE Overtaken(k, Told(m))
<1>1. toClient[c] # <<>> /\ toClient[c] \in Seq(Message) /\ k \in Sound(c)
    BY DEF Receive, Shape
<1>2. m \in Message
    BY <1>1, HeadTailProperties
<1>3. /\ client' = [client EXCEPT ![c] = r] /\ toClient' = [toClient EXCEPT ![c] = Tail(@)]
      /\ UNCHANGED <<doc, toServer, stage, notices>>
    BY DEF Receive
<1>4. client = [d \in Clients |-> client[d]] /\ toClient \in [Clients -> Seq(Message)]
    BY DEF Shape
<1> HIDE DEF m, k
<1>5. /\ r.sent = k.sent
      /\ r.pending = IF k.pending = <<>> \/ (m.kind = "resp" /\ k.pending[1].id # m.id)
                     THEN k.pending ELSE Tail(k.pending)
    <2>1. CASE m.kind = "resp"
        <3>1. m.ok \in BOOLEAN
            BY <1>2, <2>1 DEF Message
        <3>2. r = Answered(k, m.id, m.ok)
            BY <2>1
        <3>3. /\ Answered(k, m.id, m.ok).sent = k.sent
              /\ Answered(k, m.id, m.ok).pending =
                    IF k.pending = <<>> \/ k.pending[1].id # m.id
                    THEN k.pending ELSE Tail(k.pending)
            BY <1>1, <3>1, AnsweredSound
        <3> QED
            BY <2>1, <3>2, <3>3
    <2>2. CASE m.kind # "resp"
        <3>2. r = Overtaken(k, Told(m))
            BY <2>2
        <3>3. /\ Overtaken(k, Told(m)).sent = k.sent
              /\ Overtaken(k, Told(m)).pending =
                    IF k.pending = <<>> THEN k.pending ELSE Tail(k.pending)
            BY <1>1, <1>2, <2>2, OvertakenSound
        <3> QED
            BY <2>2, <3>2, <3>3
    <2> QED
        BY <2>1, <2>2
<1>6. /\ client'[c] = r /\ toClient'[c] = Tail(toClient[c])
      /\ \A d \in Clients \ {c} : client'[d] = client[d] /\ toClient'[d] = toClient[d]
    BY <1>3, <1>4
<1> HIDE DEF r
<1>7. /\ client'[c].sent = k.sent
      /\ client'[c].pending = IF k.pending = <<>> \/ (m.kind = "resp" /\ k.pending[1].id # m.id)
                              THEN k.pending ELSE Tail(k.pending)
    BY <1>5, <1>6
<1> QED
    BY <1>1, <1>2, <1>3, <1>6, <1>7 DEF m, k, r

LEMMA InOrderReceive ==
    ASSUME Shape, InOrder, NEW c \in Clients, Receive(c)
    PROVE  InOrder'
<1> DEFINE m == toClient[c]
           p == client[c].pending
           q == toServer[c]
           n == client[c].sent
<1>1. /\ m # <<>> /\ toClient'[c] = Tail(m) /\ client'[c].sent = n
      /\ client'[c].pending = IF p = <<>> \/ (Head(m).kind = "resp" /\ p[1].id # Head(m).id)
                              THEN p ELSE Tail(p)
      /\ \A d \in Clients \ {c} : client'[d] = client[d] /\ toClient'[d] = toClient[d]
      /\ UNCHANGED <<doc, toServer, stage, notices>>
    BY ReceiveEffect
<1>2. p \in Seq(Operation) /\ q \in Seq(Request) /\ m \in Seq(Message) /\ n \in Nat
    BY Lists
<1>3. Numbered(p, q, m, n)
    BY DEF InOrder
<1> HIDE DEF m, p, q, n
<1>4. Head(m).kind = "resp" => \A i \in DOMAIN p : p[i].id = Head(m).id => i = 1
    BY <1>1, <1>2, <1>3, FirstIsAnswered
<1>5. DOMAIN p = 1 .. Len(p) /\ (p = <<>> => DOMAIN p = {})
    BY <1>2, Identifiers
<1>6. Numbered(client'[c].pending, q, Tail(m), n)
    <2>1. CASE p = <<>> \/ (Head(m).kind = "resp" /\ p[1].id # Head(m).id)
        <3>1. Head(m).kind = "resp" => \A i \in DOMAIN p : p[i].id # Head(m).id
            BY <1>4, <1>5, <2>1
        <3>2. Numbered(p, q, Tail(m), n)
            BY <1>1, <1>2, <1>3, <3>1, ReceivedInOrder
        <3> QED
            BY <1>1, <2>1, <3>2
    <2>2. CASE p # <<>> /\ ~ (Head(m).kind = "resp" /\ p[1].id # Head(m).id)
        <3>1. Numbered(Tail(p), q, m, n) /\ Tail(p) \in Seq(Operation)
            BY <1>2, <1>3, <2>2, DroppedInOrder, Shortened
        <3>2. Head(m).kind = "resp" => \A i \in DOMAIN Tail(p) : Tail(p)[i].id # Head(m).id
            <4> SUFFICES ASSUME Head(m).kind = "resp", NEW i \in DOMAIN Tail(p),
                                Tail(p)[i].id = Head(m).id
                         PROVE  FALSE
                OBVIOUS
            <4>1. i + 1 \in DOMAIN p /\ p[i + 1] = Tail(p)[i] /\ 1 < i + 1
                BY <1>2, <2>2, Shortened
            <4>2. i + 1 = 1
                BY <1>4, <4>1
            <4> QED
                BY <4>1, <4>2
        <3>3. Numbered(Tail(p), q, Tail(m), n)
            BY <1>1, <1>2, <3>1, <3>2, ReceivedInOrder
        <3> QED
            BY <1>1, <2>2, <3>3
    <2> QED
        BY <2>1, <2>2
<1>7. Numbered(client'[c].pending, toServer'[c], toClient'[c], client'[c].sent)
    BY <1>1, <1>6 DEF q
<1> QED
    BY <1>1, <1>7 DEF InOrder

LEMMA InOrderServer ==
    ASSUME Shape, InOrder, NEW c \in Clients, Apply(c) \/ Cast(c) \/ Answer(c)
    PROVE  InOrder'
<1>1. CASE Apply(c)
    BY <1>1 DEF Apply, InOrder
<1>2. CASE Cast(c)
    <2> DEFINE r == Head(toServer[c])
               e == [kind |-> "op", cell |-> r.cell, val |-> r.val]
    <2>1. toServer[c] # <<>>
        BY <1>2 DEF Cast, Shape
    <2>2. r \in Request
        BY <2>1, FirstRequest
    <2>3. e \in Message /\ e.kind # "resp"
        BY <2>2 DEF Message, Request
    <2>4. /\ UNCHANGED <<client, toServer>>
          /\ toClient' = [d \in Clients |-> IF d = c THEN toClient[d] ELSE Append(toClient[d], e)]
        BY <1>2 DEF Cast
    <2> HIDE DEF e
    <2>5. ASSUME NEW d \in Clients
          PROVE  Numbered(client[d].pending, toServer[d], toClient'[d], client[d].sent)
        <3>1. toClient[d] \in Seq(Message)
            BY Lists
        <3>2. Numbered(client[d].pending, toServer[d], toClient[d], client[d].sent)
            BY DEF InOrder
        <3>3. Numbered(client[d].pending, toServer[d], Append(toClient[d], e), client[d].sent)
            BY <2>3, <3>1, <3>2, CastInOrder
        <3> QED
            BY <2>4, <3>2, <3>3
    <2> QED
        BY <2>4, <2>5 DEF InOrder
<1>3. CASE Answer(c)
    <2> DEFINE e == [kind |-> "resp", id |-> Head(toServer[c]).id, ok |-> stage[c] = "cast"]
    <2>1. toServer[c] # <<>>
        BY <1>3 DEF Answer, Shape
    <2>2. Head(toServer[c]) \in Request
        BY <2>1, FirstRequest
    <2>3. e \in Message /\ e.kind = "resp" /\ e.id = Head(toServer[c]).id
        BY <2>2 DEF Message, Request
    <2>4. /\ UNCHANGED client
          /\ toServer' = [toServer EXCEPT ![c] = Tail(@)]
          /\ toClient' = [toClient EXCEPT ![c] = Append(@, e)]
        BY <1>3 DEF Answer
    <2> HIDE DEF e
    <2>5. /\ toServer'[c] = Tail(toServer[c]) /\ toClient'[c] = Append(toClient[c], e)
          /\ \A d \in Clients \ {c} : toServer'[d] = toServer[d] /\ toClient'[d] = toClient[d]
        BY <2>4 DEF Shape
    <2>6. /\ client[c].pending \in Seq(Operation) /\ toServer[c] \in Seq(Request)
          /\ toClient[c] \in Seq(Message) /\ client[c].sent \in Nat
        BY Lists
    <2>7. Numbered(client[c].pending, toServer[c], toClient[c], client[c].sent)
        BY DEF InOrder
    <2>8. Numbered(client[c].pending, Tail(toServer[c]), Append(toClient[c], e), client[c].sent)
        BY <2>1, <2>3, <2>6, <2>7, AnsweredInOrder
    <2> QED
        BY <2>4, <2>5, <2>8 DEF InOrder
<1> QED
    BY <1>1, <1>2, <1>3

LEMMA InOrderNotify ==
    ASSUME Shape, InOrder, NEW users, Notify(users)
    PROVE  InOrder'
<1> DEFINE m == [kind |-> "note"]
<1>1. /\ m \in Message
      /\ \A d \in Clients : toClient'[d] \in {toClient[d], Append(toClient[d], m)}
      /\ UNCHANGED <<doc, client, toServer, stage>>
    BY NotifyShape
<1>2. m.kind # "resp"
    OBVIOUS
<1> HIDE DEF m
<1>3. ASSUME NEW d \in Clients
      PROVE  Numbered(client[d].pending, toServer[d], toClient'[d], client[d].sent)
    <2>1. toClient[d] \in Seq(Message)
        BY Lists
    <2>2. Numbered(client[d].pending, toServer[d], toClient[d], client[d].sent)
        BY DEF InOrder
    <2>3. Numbered(client[d].pending, toServer[d], Append(toClient[d], m), client[d].sent)
        BY <1>1, <1>2, <2>1, <2>2, CastInOrder
    <2> QED
        BY <1>1, <2>2, <2>3
<1> QED
    BY <1>1, <1>3 DEF InOrder

(* An answer meets the first pending prediction or, if a broadcast dropped it,
   none: predictions stay pending in the order of their requests, and answers
   arrive in that order, whatever is refused, undone, or cast in between. *)
THEOREM AnswersMeetTheFirst == Spec => []AnswersInOrder
<1>1. Init => Shape /\ InOrder
    BY ShapeInit, InOrderInit
<1>2. Shape /\ InOrder /\ [Next]_vars => Shape' /\ InOrder'
    <2> SUFFICES ASSUME Shape, InOrder, [Next]_vars PROVE Shape' /\ InOrder'
        OBVIOUS
    <2>1. Shape'
        BY ShapeStep
    <2>2. CASE UNCHANGED vars
        BY <2>1, <2>2 DEF vars, InOrder
    <2>3. ASSUME NEW c \in Clients,
                 (\E x \in Cells, v \in Values : Edit(c, x, v)) \/ Undo(c) \/ Redo(c)
          PROVE  InOrder'
        BY <2>3, InOrderQuery
    <2>4. ASSUME NEW c \in Clients, Receive(c) PROVE InOrder'
        BY <2>4, InOrderReceive
    <2>5. ASSUME NEW c \in Clients, Apply(c) \/ Cast(c) \/ Answer(c) PROVE InOrder'
        BY <2>5, InOrderServer
    <2>6. ASSUME NEW users, Notify(users) PROVE InOrder'
        BY <2>6, InOrderNotify
    <2> QED
        BY <2>1, <2>2, <2>3, <2>4, <2>5, <2>6 DEF Next, Save, Visit
<1>3. Shape /\ InOrder => AnswersInOrder
    <2> SUFFICES ASSUME Shape, InOrder, NEW c \in Clients,
                        toClient[c] # <<>>, Head(toClient[c]).kind = "resp",
                        NEW i \in DOMAIN client[c].pending,
                        client[c].pending[i].id = Head(toClient[c]).id
                 PROVE  i = 1
        BY DEF AnswersInOrder
    <2>1. /\ client[c].pending \in Seq(Operation) /\ toServer[c] \in Seq(Request)
          /\ toClient[c] \in Seq(Message)
        BY Lists
    <2>2. Numbered(client[c].pending, toServer[c], toClient[c], client[c].sent)
        BY DEF InOrder
    <2> QED
        BY <2>1, <2>2, FirstIsAnswered
<1> QED
    BY <1>1, <1>2, <1>3, PTL DEF Spec

-----------------------------------------------------------------------------
(* Clients that edit parts of their own *)

(* Nothing is refused, and everything has a reverse. *)
Reversible == Refusable = {} /\ Untracked = {}

OwnParts == Owned /\ Reversible

(* The map d shows the newest of the pending predictions p of every part. *)
Shown(p, d) ==
    \A i \in DOMAIN p :
        (\A j \in DOMAIN p : p[j].cell = p[i].cell => j <= i) => d[p[i].cell] = p[i].val

LEMMA ShownAppend ==
    ASSUME NEW p \in Seq(Operation), NEW d \in Doc, Shown(p, d), NEW op \in Operation
    PROVE  Shown(Append(p, op), [d EXCEPT ![op.cell] = op.val])
<1> DEFINE t == Append(p, op)
           e == [d EXCEPT ![op.cell] = op.val]
           n == Len(p) + 1
<1>1. /\ DOMAIN p = 1 .. Len(p) /\ DOMAIN t = 1 .. n /\ t[n] = op /\ Len(p) \in Nat
      /\ n \in 1 .. n /\ \A i \in 1 .. Len(p) : i \in 1 .. n /\ t[i] = p[i]
      /\ \A i \in 1 .. n : i = n \/ (i \in 1 .. Len(p) /\ ~ (n <= i))
    BY Lengthened
<1>2. \A i \in 1 .. Len(p) : p[i].cell \in Cells
    <2>1. \A i \in 1 .. Len(p) : p[i] \in Operation
        BY ElementOfSeq
    <2> QED
        BY <2>1 DEF Operation
<1>3. op.cell \in Cells /\ \A x \in Cells : e[x] = IF x = op.cell THEN op.val ELSE d[x]
    BY DEF Operation, Doc
<1> HIDE DEF t, e, n
<1>4. ASSUME NEW i \in DOMAIN t, \A j \in DOMAIN t : t[j].cell = t[i].cell => j <= i
      PROVE  e[t[i].cell] = t[i].val
    <2>1. CASE i = n
        BY <1>1, <1>3, <2>1
    <2>2. CASE i # n
        <3>1. i \in 1 .. Len(p) /\ ~ (n <= i) /\ t[i] = p[i]
            BY <1>1, <2>2
        <3>2. op.cell # p[i].cell
            BY <1>1, <1>4, <3>1
        <3>3. \A j \in DOMAIN p : p[j].cell = p[i].cell => j <= i
            BY <1>1, <1>4, <3>1
        <3> QED
            BY <1>1, <1>2, <1>3, <3>1, <3>2, <3>3 DEF Shown
    <2> QED
        BY <2>1, <2>2
<1> QED
    BY <1>4 DEF Shown, t, e

LEMMA ShownTail ==
    ASSUME NEW p \in Seq(Operation), p # <<>>, NEW d, Shown(p, d)
    PROVE  Shown(Tail(p), d)
<1> DEFINE t == Tail(p)
<1>1. /\ DOMAIN t = 1 .. Len(t) /\ Len(t) \in Nat /\ DOMAIN p = 1 .. Len(t) + 1
      /\ \A i \in 1 .. Len(t) : i + 1 \in DOMAIN p /\ t[i] = p[i + 1]
      /\ \A i \in DOMAIN p : i = 1 \/ (i - 1 \in 1 .. Len(t) /\ t[i - 1] = p[i])
    BY Shortened
<1> HIDE DEF t
<1>2. ASSUME NEW i \in DOMAIN t, \A j \in DOMAIN t : t[j].cell = t[i].cell => j <= i
      PROVE  d[t[i].cell] = t[i].val
    <2>1. i + 1 \in DOMAIN p /\ t[i] = p[i + 1] /\ i \in Nat
        BY <1>1
    <2>2. ASSUME NEW j \in DOMAIN p, p[j].cell = p[i + 1].cell
          PROVE  j <= i + 1
        <3>1. CASE j = 1
            BY <2>1, <3>1
        <3>2. CASE j # 1
            <4>1. j - 1 \in DOMAIN t /\ t[j - 1] = p[j] /\ j \in Nat
                BY <1>1, <3>2
            <4>2. j - 1 <= i
                BY <1>2, <2>1, <2>2, <4>1
            <4> QED
                BY <2>1, <4>1, <4>2
        <3> QED
            BY <3>1, <3>2
    <2> QED
        BY <2>1, <2>2 DEF Shown
<1> QED
    BY <1>2 DEF Shown, t

(* A part ends up with what the last of the writes to it says. *)
LEMMA AppliedLast ==
    ASSUME NEW d, NEW writes \in Writing, NEW k \in 1 .. Len(writes),
           \A i \in 1 .. Len(writes) : writes[i][1] = writes[k][1] => i <= k
    PROVE  Applied(d, writes)[writes[k][1]] = writes[k][2]
<1>1. DOMAIN writes = 1 .. Len(writes) /\ Len(writes) \in Nat
    BY LenProperties DEF Writing
<1>2. writes[k] \in Cells \X Values
    BY ElementOfSeq DEF Writing
<1> DEFINE hits == {i \in DOMAIN writes : writes[i][1] = writes[k][1]}
           last == CHOOSE i \in hits : \A j \in hits : j <= i
<1>3. k \in hits /\ \A j \in hits : j <= k
    BY <1>1
<1>4. last \in hits /\ \A j \in hits : j <= last
    BY <1>3, Zenon
<1>5. last = k
    BY <1>1, <1>3, <1>4
<1>6. Applied(d, writes)[writes[k][1]] = IF hits = {} THEN d[writes[k][1]] ELSE writes[last][2]
    BY <1>2 DEF Applied
<1> HIDE DEF hits, last
<1> QED
    BY <1>3, <1>5, <1>6

(* If what is pending is shown, another client's operation changes the part it
   names and nothing else, and a notice changes nothing: to take the predictions
   back and to make them again restores every part they are about. *)
LEMMA OvertakenOnce ==
    ASSUME NEW c \in Clients, NEW k \in Sound(c), NEW m \in Message, m.kind # "resp",
           m.kind = "op" => <<c, m.cell>> \notin Writes,
           Shown(k.pending, k.doc), NEW x \in Cells
    PROVE  Overtaken(k, Told(m)).doc[x] =
              IF m.kind = "op" /\ m.cell = x THEN m.val ELSE k.doc[x]
<1> DEFINE p == k.pending
           n == Len(p)
           forth == Forwards(p)
           back == Applied(k.doc, Backwards(p))
           told == Applied(back, Told(m))
           mine == {i \in 1 .. n : p[i].cell = x}
<1>1. CASE <<c, x>> \notin Writes
    BY <1>1, OvertakenSound
<1>2. ASSUME <<c, x>> \in Writes
      PROVE  Overtaken(k, Told(m)).doc[x] = k.doc[x] /\ ~ (m.kind = "op" /\ m.cell = x)
    <2>1. /\ p \in Seq(OwnOps(c)) /\ k.doc \in Doc /\ n \in Nat /\ DOMAIN p = 1 .. n
          /\ \A i \in 1 .. n : p[i] \in Operation
        <3>1. p \in Seq(OwnOps(c)) /\ k.doc \in Doc
            BY DEF Sound, ClientOf
        <3>2. OwnOps(c) \subseteq Operation
            BY DEF OwnOps
        <3> QED
            BY <3>1, <3>2, SeqMonotonic, LenProperties, ElementOfSeq
    <2>2. ~ (m.kind = "op" /\ m.cell = x)
        BY <1>2
    <2>3. Overtaken(k, Told(m)).doc = IF p = <<>> THEN Applied(k.doc, Told(m)) ELSE Applied(told, forth)
        BY OvertakenSound
    <2>4. back \in Doc /\ Backwards(p) \in Writing /\ forth \in Writing
        BY <2>1, OwnMap
    <2>5. told \in Doc /\ told[x] = back[x] /\ Applied(k.doc, Told(m))[x] = k.doc[x]
        <3> HIDE DEF back
        <3> QED
            BY <2>1, <2>2, <2>4, ToldMap
    <2>6. /\ Len(forth) = n /\ \A i \in 1 .. n : forth[i] = <<p[i].cell, p[i].val>>
          /\ Len(Backwards(p)) = n
        <3>1. Len(forth) = n /\ Len(Backwards(p)) = n
            BY <2>1, ListsOwn
        <3>2. \A i \in 1 .. n : forth[i] = <<p[i].cell, p[i].val>>
            BY <2>1 DEF Forwards, Forward
        <3> QED
            BY <3>1, <3>2
    <2>7. CASE mine = {}
        <3>1. \A i \in 1 .. Len(Backwards(p)) : Backwards(p)[i][1] # x
            <4>1. ASSUME NEW i \in 1 .. n PROVE Backwards(p)[i][1] # x
                <5>1. Backwards(p)[i] = Backward(p[n - i + 1])
                    BY <2>1 DEF Backwards, Reverse
                <5>2. n - i + 1 \in 1 .. n
                    BY <2>1
                <5> QED
                    BY <2>7, <5>1, <5>2 DEF Backward
            <4> QED
                BY <2>6, <4>1
        <3>2. back[x] = k.doc[x]
            BY <2>1, <2>4, <3>1, AppliedMap
        <3>3. \A i \in 1 .. Len(forth) : forth[i][1] # x
            BY <2>6, <2>7
        <3> HIDE DEF told, forth
        <3>4. Applied(told, forth)[x] = told[x]
            BY <2>4, <2>5, <3>3, AppliedMap
        <3> QED
            BY <2>2, <2>3, <2>5, <3>2, <3>4
    <2>8. CASE mine # {}
        <3>1. PICK i \in mine : \A j \in mine : j <= i
            BY <2>1, <2>8, LastPosition
        <3>2. i \in 1 .. n /\ p[i].cell = x /\ forth[i] = <<x, p[i].val>>
            BY <2>6, <3>1
        <3>3. p # <<>>
            BY <2>1, <3>2
        <3>4. \A j \in 1 .. Len(forth) : forth[j][1] = forth[i][1] => j <= i
            <4>1. ASSUME NEW j \in 1 .. Len(forth), forth[j][1] = forth[i][1]
                  PROVE  j \in mine
                BY <2>6, <3>2, <4>1
            <4> QED
                BY <3>1, <4>1
        <3>5. k.doc[x] = p[i].val
            BY <2>1, <3>1, <3>2 DEF Shown
        <3> HIDE DEF told, forth, mine
        <3>6. Applied(told, forth)[forth[i][1]] = forth[i][2]
            BY <2>4, <2>6, <3>2, <3>4, AppliedLast
        <3> QED
            BY <2>2, <2>3, <3>2, <3>3, <3>5, <3>6
    <2> QED
        BY <2>7, <2>8
<1> QED
    BY <1>1, <1>2

(* A map that holds w in the part x holds v after the requests q. *)
Asks(q, x) == {i \in DOMAIN q : q[i].cell = x}
Closes(q, w, x, v) ==
    /\ \A i \in Asks(q, x) : (\A j \in Asks(q, x) : j <= i) => q[i].val = v
    /\ Asks(q, x) = {} => w = v

LEMMA ClosesAppend ==
    ASSUME NEW q \in Seq(Request), NEW r \in Request, NEW w, NEW x, NEW v,
           IF r.cell = x THEN r.val = v ELSE Closes(q, w, x, v)
    PROVE  Closes(Append(q, r), w, x, v)
<1> DEFINE t == Append(q, r)
           n == Len(q) + 1
<1>1. /\ DOMAIN q = 1 .. Len(q) /\ DOMAIN t = 1 .. n /\ t[n] = r /\ n \in 1 .. n
      /\ \A i \in 1 .. Len(q) : i \in 1 .. n /\ t[i] = q[i]
      /\ \A i \in 1 .. n : i = n \/ (i \in 1 .. Len(q) /\ ~ (n <= i))
    BY Lengthened
<1> HIDE DEF t, n
<1>2. CASE r.cell = x
    <2>1. n \in Asks(t, x) /\ \A i \in Asks(t, x) : i = n \/ ~ (n <= i)
        BY <1>1, <1>2 DEF Asks
    <2> QED
        BY <1>1, <1>2, <2>1 DEF Closes, t
<1>3. CASE r.cell # x
    <2>1. Asks(t, x) = Asks(q, x) /\ \A i \in Asks(q, x) : t[i] = q[i]
        BY <1>1, <1>3 DEF Asks
    <2> QED
        BY <1>3, <2>1 DEF Closes, t
<1> QED
    BY <1>2, <1>3

LEMMA ClosesTail ==
    ASSUME NEW q \in Seq(Request), q # <<>>, NEW w, NEW x, NEW v, Closes(q, w, x, v)
    PROVE  Closes(Tail(q), IF Head(q).cell = x THEN Head(q).val ELSE w, x, v)
<1> DEFINE t == Tail(q)
           n == Len(t)
<1>1. /\ n \in Nat /\ DOMAIN q = 1 .. n + 1 /\ DOMAIN t = 1 .. n /\ Head(q) = q[1]
      /\ \A i \in 1 .. n : i + 1 \in DOMAIN q /\ t[i] = q[i + 1] /\ 1 < i + 1
      /\ \A i \in DOMAIN q : i = 1 \/ (i - 1 \in 1 .. n /\ t[i - 1] = q[i])
    BY Shortened
<1> HIDE DEF t, n
<1>2. /\ \A i \in Asks(t, x) : i \in 1 .. n /\ i + 1 \in Asks(q, x) /\ t[i] = q[i + 1]
      /\ \A i \in Asks(q, x) : i = 1 \/ i - 1 \in Asks(t, x)
      /\ 1 \in Asks(q, x) <=> q[1].cell = x
    BY <1>1 DEF Asks
<1>3. ASSUME NEW i \in Asks(t, x), \A j \in Asks(t, x) : j <= i
      PROVE  t[i].val = v
    <2>1. i + 1 \in Asks(q, x) /\ t[i] = q[i + 1] /\ i \in Nat /\ 1 <= i
        BY <1>1, <1>2
    <2>2. ASSUME NEW j \in Asks(q, x) PROVE j <= i + 1
        <3>1. CASE j = 1
            BY <2>1, <3>1
        <3>2. CASE j # 1
            <4>1. j - 1 \in Asks(t, x) /\ j \in 1 .. n + 1
                BY <1>1, <1>2, <3>2 DEF Asks
            <4>2. j - 1 <= i
                BY <1>3, <4>1
            <4> QED
                BY <1>1, <2>1, <4>1, <4>2
        <3> QED
            BY <3>1, <3>2
    <2> QED
        BY <2>1, <2>2 DEF Closes
<1>4. ASSUME Asks(t, x) = {}
      PROVE  (IF q[1].cell = x THEN q[1].val ELSE w) = v
    <2>1. \A j \in Asks(q, x) : j = 1
        BY <1>2, <1>4
    <2>2. CASE q[1].cell = x
        BY <1>2, <2>1, <2>2 DEF Closes
    <2>3. CASE q[1].cell # x
        BY <1>2, <2>1, <2>3 DEF Closes
    <2> QED
        BY <2>2, <2>3
<1> QED
    BY <1>1, <1>3, <1>4 DEF Closes, t

(* The requests of c that its handler has not applied. *)
ToApply(c) == IF stage[c] = "waiting" THEN toServer[c] ELSE Tail(toServer[c])

(* A message that contradicts nothing the client c has predicted. *)
Harmless(c, m) ==
    /\ m.kind = "resp" => m.ok
    /\ m.kind = "op" => <<c, m.cell>> \notin Writes

(* With parts of their own clients see no contradiction: what they predicted
   is shown until it is confirmed, what they asked leads the room's map to
   theirs, and what they are told is about the parts of others. *)
Agreeing(c) ==
    /\ stage[c] # "refused"
    /\ \A i \in DOMAIN toClient[c] :
          Harmless(c, toClient[c][i])
    /\ Shown(client[c].pending, client[c].doc)
    /\ \A x \in Cells : <<c, x>> \in Writes => Closes(ToApply(c), doc[x], x, client[c].doc[x])

Converging == Following /\ \A c \in Clients : Agreeing(c)

LEMMA ConvergingInit == Init => Converging
<1> SUFFICES ASSUME Init, NEW c \in Clients PROVE Agreeing(c)
    BY FollowingInit DEF Converging
<1>1. /\ stage[c] = "waiting" /\ toClient[c] = <<>> /\ toServer[c] = <<>>
      /\ client[c].pending = <<>> /\ client[c].doc = doc
    BY DEF Init
<1>2. DOMAIN <<>> = {}
    OBVIOUS
<1>3. Shown(<<>>, doc) /\ \A x \in Cells : Asks(<<>>, x) = {}
    BY <1>2 DEF Shown, Asks
<1> QED
    BY <1>1, <1>2, <1>3 DEF Agreeing, ToApply, Closes

LEMMA ConvergingQuery ==
    ASSUME OwnParts, Converging, NEW c \in Clients,
           (\E y \in Cells, w \in Values : Edit(c, y, w)) \/ Undo(c) \/ Redo(c)
    PROVE  \A d \in Clients : Agreeing(d)'
<1>0. Shape
    BY DEF Converging, Following
<1>1. PICK y \in Cells, v \in Values, op \in OwnOps(c), r \in OwnRequests(c) :
          Sends(c, y, v, op, r)
    BY <1>0, QueryEffect
<1>2. /\ op.cell = y /\ op.val = v /\ r.cell = y /\ r.val = v
      /\ client'[c].doc = [client[c].doc EXCEPT ![y] = v]
      /\ client'[c].pending = Append(client[c].pending, op)
      /\ toServer'[c] = Append(toServer[c], r)
      /\ \A d \in Clients \ {c} : client'[d] = client[d] /\ toServer'[d] = toServer[d]
      /\ UNCHANGED <<doc, toClient, stage, notices>>
    BY <1>1 DEF Sends, OwnParts, Reversible
<1>3. op \in Operation /\ r \in Request
    BY DEF OwnOps, OwnRequests
<1>4. /\ client[c].pending \in Seq(Operation) /\ toServer[c] \in Seq(Request)
      /\ client[c].doc \in Doc
    BY <1>0, Lists
<1>5. Agreeing(c)
    BY DEF Converging
<1>6. Shown(client'[c].pending, client'[c].doc)
    <2>1. Shown(client[c].pending, client[c].doc)
        BY <1>5 DEF Agreeing
    <2>2. Shown(Append(client[c].pending, op), [client[c].doc EXCEPT ![op.cell] = op.val])
        BY <1>3, <1>4, <2>1, ShownAppend
    <2> QED
        BY <1>2, <2>2
<1>7. ToApply(c)' = Append(ToApply(c), r) /\ ToApply(c) \in Seq(Request)
    <2>1. CASE stage[c] = "waiting"
        BY <1>2, <1>4, <2>1 DEF ToApply
    <2>2. CASE stage[c] # "waiting"
        <3>1. toServer[c] # <<>>
            BY <1>0, <2>2 DEF Shape
        <3>2. Tail(toServer[c]) \in Seq(Request)
            BY <1>4, <3>1, HeadTailProperties
        <3>3. Tail(Append(toServer[c], r)) = Append(Tail(toServer[c]), r)
            BY <1>3, <1>4, <3>1
        <3> QED
            BY <1>2, <2>2, <3>2, <3>3 DEF ToApply
    <2> QED
        BY <2>1, <2>2
<1>8. ASSUME NEW x \in Cells, <<c, x>> \in Writes
      PROVE  Closes(ToApply(c)', doc'[x], x, client'[c].doc[x])
    <2>1. Closes(ToApply(c), doc[x], x, client[c].doc[x])
        BY <1>5, <1>8 DEF Agreeing
    <2>2. client'[c].doc[x] = IF x = y THEN v ELSE client[c].doc[x]
        BY <1>2, <1>4 DEF Doc
    <2>3. Closes(Append(ToApply(c), r), doc[x], x, client'[c].doc[x])
        BY <1>2, <1>3, <1>7, <2>1, <2>2, ClosesAppend
    <2> QED
        BY <1>2, <1>7, <2>3
<1>9. Agreeing(c)'
    BY <1>2, <1>5, <1>6, <1>8 DEF Agreeing
<1>10. ASSUME NEW d \in Clients, d # c
       PROVE  Agreeing(d)'
    <2>1. ToApply(d)' = ToApply(d)
        BY <1>2, <1>10 DEF ToApply
    <2>2. Agreeing(d) /\ client'[d] = client[d] /\ UNCHANGED <<doc, toClient, stage, notices>>
        BY <1>2, <1>10 DEF Converging
    <2> QED
        BY <2>1, <2>2 DEF Agreeing
<1> QED
    BY <1>9, <1>10

LEMMA ConvergingReceive ==
    ASSUME OwnParts, Converging, NEW c \in Clients, Receive(c)
    PROVE  \A d \in Clients : Agreeing(d)'
<1> DEFINE m == Head(toClient[c])
           k == client[c]
<1>0. Shape
    BY DEF Converging, Following
<1>1. /\ toClient[c] # <<>> /\ toClient'[c] = Tail(toClient[c]) /\ m \in Message
      /\ client'[c] = IF m.kind = "resp" THEN Answered(k, m.id, m.ok) ELSE Overtaken(k, Told(m))
      /\ client'[c].pending =
            IF k.pending = <<>> \/ (m.kind = "resp" /\ k.pending[1].id # m.id)
            THEN k.pending ELSE Tail(k.pending)
      /\ \A d \in Clients \ {c} : client'[d] = client[d] /\ toClient'[d] = toClient[d]
      /\ UNCHANGED <<doc, toServer, stage, notices>>
    BY <1>0, ReceiveEffect
<1>2. /\ k.pending \in Seq(Operation) /\ k.pending \in Seq(OwnOps(c)) /\ k.doc \in Doc
      /\ k \in Sound(c) /\ toClient[c] \in Seq(Message)
    BY <1>0, Lists
<1>3. Agreeing(c)
    BY DEF Converging
<1> HIDE DEF k
<1>4. /\ m = toClient[c][1] /\ 1 \in DOMAIN toClient[c]
      /\ \A i \in DOMAIN Tail(toClient[c]) :
            i + 1 \in DOMAIN toClient[c] /\ Tail(toClient[c])[i] = toClient[c][i + 1]
    BY <1>1, <1>2, Shortened
<1> HIDE DEF m
<1>5. Harmless(c, m)
    BY <1>3, <1>4 DEF Agreeing
<1>6. \A x \in Cells : <<c, x>> \in Writes => client'[c].doc[x] = k.doc[x]
    <2>1. CASE m.kind = "resp"
        <3>1. Answered(k, m.id, m.ok) \in {k, [k EXCEPT !.pending = Tail(@)]}
            BY <1>5, <2>1 DEF Answered, Harmless
        <3>2. Answered(k, m.id, m.ok).doc = k.doc
            BY <1>2, <3>1 DEF Sound, ClientOf
        <3> QED
            BY <1>1, <2>1, <3>2
    <2>2. CASE m.kind # "resp"
        <3>1. Shown(k.pending, k.doc)
            BY <1>3 DEF Agreeing, k
        <3>2. \A x \in Cells : Overtaken(k, Told(m)).doc[x]
                                 = IF m.kind = "op" /\ m.cell = x THEN m.val ELSE k.doc[x]
            BY <1>1, <1>2, <1>5, <2>2, <3>1, OvertakenOnce DEF Harmless
        <3> QED
            BY <1>1, <1>5, <2>2, <3>2 DEF Harmless
    <2> QED
        BY <2>1, <2>2
<1>7. Shown(client'[c].pending, client'[c].doc)
    <2>1. Shown(client'[c].pending, k.doc) /\ client'[c].pending \in Seq(OwnOps(c))
        <3>1. Shown(k.pending, k.doc)
            BY <1>3 DEF Agreeing, k
        <3>2. k.pending # <<>> => Shown(Tail(k.pending), k.doc) /\ Tail(k.pending) \in Seq(OwnOps(c))
            BY <1>2, <3>1, ShownTail, HeadTailProperties
        <3> QED
            BY <1>1, <1>2, <3>1, <3>2
    <2>2. \A i \in DOMAIN client'[c].pending : client'[c].pending[i] \in OwnOps(c)
        BY <2>1, ElementOfSeq, LenProperties
    <2>3. \A i \in DOMAIN client'[c].pending :
              client'[c].doc[client'[c].pending[i].cell] = k.doc[client'[c].pending[i].cell]
        BY <1>6, <2>2 DEF OwnOps, Operation
    <2> QED
        BY <2>1, <2>3 DEF Shown
<1>8. ASSUME NEW x \in Cells, <<c, x>> \in Writes
      PROVE  Closes(ToApply(c)', doc'[x], x, client'[c].doc[x])
    <2>1. Closes(ToApply(c), doc[x], x, k.doc[x])
        BY <1>3, <1>8 DEF Agreeing, k
    <2>2. ToApply(c)' = ToApply(c)
        BY <1>1 DEF ToApply
    <2> QED
        BY <1>1, <1>6, <1>8, <2>1, <2>2
<1>9. \A i \in DOMAIN toClient'[c] :
          Harmless(c, toClient'[c][i])
    <2>1. toClient'[c] = Tail(toClient[c])
        BY <1>1
    <2>2. \A i \in DOMAIN toClient[c] :
              Harmless(c, toClient[c][i])
        BY <1>3 DEF Agreeing
    <2> QED
        BY <1>4, <2>1, <2>2
<1>10. Agreeing(c)'
    <2>1. stage'[c] # "refused"
        BY <1>1, <1>3 DEF Agreeing
    <2> QED
        BY <1>7, <1>8, <1>9, <2>1 DEF Agreeing
<1>11. ASSUME NEW d \in Clients, d # c
       PROVE  Agreeing(d)'
    <2>1. ToApply(d)' = ToApply(d)
        BY <1>1 DEF ToApply
    <2>2. /\ Agreeing(d) /\ client'[d] = client[d] /\ toClient'[d] = toClient[d]
          /\ UNCHANGED <<doc, stage>>
        BY <1>1, <1>11 DEF Converging
    <2> QED
        BY <2>1, <2>2 DEF Agreeing
<1> QED
    BY <1>10, <1>11

LEMMA ConvergingApply ==
    ASSUME OwnParts, Converging, NEW b \in Clients, Apply(b)
    PROVE  \A d \in Clients : Agreeing(d)'
<1> DEFINE r == Head(toServer[b])
<1>0. Shape /\ \A d \in Clients : Agreeing(d)
    BY DEF Converging, Following
<1>1. /\ stage[b] = "waiting" /\ toServer[b] # <<>>
      /\ UNCHANGED <<client, toServer, toClient, notices>>
      /\ doc' = [doc EXCEPT ![r.cell] = r.val] /\ stage' = [stage EXCEPT ![b] = "applied"]
      /\ stage \in [Clients -> Stages] /\ doc \in Doc
    BY <1>0 DEF Apply, OwnParts, Reversible, Shape
<1>2. r \in Request /\ <<b, r.cell>> \in Writes
    BY <1>0, <1>1, FirstRequest
<1> HIDE DEF r
<1>3. /\ stage'[b] = "applied" /\ \A d \in Clients \ {b} : stage'[d] = stage[d]
      /\ \A x \in Cells : doc'[x] = IF x = r.cell THEN r.val ELSE doc[x]
    BY <1>1, <1>2 DEF Doc, Request
<1>4. ASSUME NEW d \in Clients, NEW x \in Cells, <<d, x>> \in Writes
      PROVE  Closes(ToApply(d)', doc'[x], x, client'[d].doc[x])
    <2>1. Closes(ToApply(d), doc[x], x, client[d].doc[x])
        BY <1>0, <1>4 DEF Agreeing
    <2>2. CASE d = b
        <3>1. ToApply(b) = toServer[b] /\ ToApply(b)' = Tail(toServer[b])
            BY <1>1, <1>3 DEF ToApply
        <3>2. toServer[b] \in Seq(Request)
            BY <1>0, Lists
        <3>3. Closes(Tail(toServer[b]), IF r.cell = x THEN r.val ELSE doc[x], x, client[b].doc[x])
            BY <1>1, <2>1, <2>2, <3>1, <3>2, ClosesTail DEF r
        <3> QED
            BY <1>1, <1>3, <2>2, <3>1, <3>3
    <2>3. CASE d # b
        <3>1. ToApply(d)' = ToApply(d)
            BY <1>1, <1>3, <2>3 DEF ToApply
        <3>2. x # r.cell
            BY <1>2, <1>4, <2>3 DEF OwnParts, Owned
        <3> QED
            BY <1>1, <1>3, <2>1, <3>1, <3>2
    <2> QED
        BY <2>2, <2>3
<1>5. ASSUME NEW d \in Clients
      PROVE  Agreeing(d)'
    <2>1. stage'[d] # "refused"
        BY <1>0, <1>3 DEF Agreeing
    <2> QED
        BY <1>0, <1>1, <1>4, <2>1 DEF Agreeing
<1> QED
    BY <1>5

LEMMA ConvergingCast ==
    ASSUME OwnParts, Converging, NEW b \in Clients, Cast(b)
    PROVE  \A d \in Clients : Agreeing(d)'
<1> DEFINE r == Head(toServer[b])
           m == [kind |-> "op", cell |-> r.cell, val |-> r.val]
<1>0. Shape /\ \A d \in Clients : Agreeing(d)
    BY DEF Converging, Following
<1>1. /\ stage[b] = "applied" /\ stage' = [stage EXCEPT ![b] = "cast"]
      /\ UNCHANGED <<doc, client, toServer, notices>>
      /\ toClient' = [d \in Clients |-> IF d = b THEN toClient[d] ELSE Append(toClient[d], m)]
      /\ stage \in [Clients -> Stages] /\ toServer[b] # <<>>
    BY <1>0 DEF Cast, Shape
<1>2. r \in Request /\ <<b, r.cell>> \in Writes
    BY <1>0, <1>1, FirstRequest
<1>3. m \in Message /\ m.kind = "op" /\ m.cell = r.cell /\ r.cell \in Cells
    BY <1>2 DEF Message, Request
<1> HIDE DEF m, r
<1>4. stage'[b] = "cast" /\ \A d \in Clients \ {b} : stage'[d] = stage[d]
    BY <1>1
<1>5. \A d \in Clients : ToApply(d)' = ToApply(d) /\ stage'[d] # "refused"
    <2>1. \A d \in Clients : stage'[d] = "waiting" <=> stage[d] = "waiting"
        BY <1>1, <1>4
    <2> QED
        BY <1>0, <1>1, <1>4, <2>1 DEF ToApply, Agreeing
<1>6. ASSUME NEW d \in Clients, NEW i \in DOMAIN toClient'[d]
      PROVE  Harmless(d, toClient'[d][i])
    <2>1. CASE d = b
        <3>1. toClient'[d] = toClient[d]
            BY <1>1, <2>1
        <3> QED
            BY <1>0, <1>6, <3>1 DEF Agreeing
    <2>2. CASE d # b
        <3>1. toClient'[d] = Append(toClient[d], m) /\ toClient[d] \in Seq(Message)
            BY <1>0, <1>1, <2>2, Lists
        <3>2. /\ DOMAIN toClient'[d] = 1 .. Len(toClient[d]) + 1
              /\ DOMAIN toClient[d] = 1 .. Len(toClient[d])
              /\ \A j \in 1 .. Len(toClient[d]) : toClient'[d][j] = toClient[d][j]
              /\ toClient'[d][Len(toClient[d]) + 1] = m
              /\ \A j \in 1 .. Len(toClient[d]) + 1 :
                    j = Len(toClient[d]) + 1 \/ j \in 1 .. Len(toClient[d])
            BY <1>3, <3>1, Lengthened
        <3>3. <<d, m.cell>> \notin Writes
            BY <1>2, <1>3, <2>2 DEF OwnParts, Owned
        <3>4. CASE i = Len(toClient[d]) + 1
            BY <1>3, <3>2, <3>3, <3>4 DEF Harmless
        <3>5. CASE i \in 1 .. Len(toClient[d])
            BY <1>0, <3>2, <3>5 DEF Agreeing
        <3> QED
            BY <1>6, <3>2, <3>4, <3>5
    <2> QED
        BY <2>1, <2>2
<1> QED
    BY <1>0, <1>1, <1>5, <1>6 DEF Agreeing

LEMMA ConvergingAnswer ==
    ASSUME OwnParts, Converging, NEW b \in Clients, Answer(b)
    PROVE  \A d \in Clients : Agreeing(d)'
<1> DEFINE m == [kind |-> "resp", id |-> Head(toServer[b]).id, ok |-> stage[b] = "cast"]
<1>0. Shape /\ \A d \in Clients : Agreeing(d)
    BY DEF Converging, Following
<1>1. /\ stage[b] = "cast" /\ stage' = [stage EXCEPT ![b] = "waiting"]
      /\ toServer' = [toServer EXCEPT ![b] = Tail(@)]
      /\ toClient' = [toClient EXCEPT ![b] = Append(@, m)]
      /\ UNCHANGED <<doc, client, notices>>
      /\ stage \in [Clients -> Stages] /\ toServer[b] # <<>>
      /\ toServer = [d \in Clients |-> toServer[d]]
      /\ toClient \in [Clients -> Seq(Message)]
    BY <1>0 DEF Answer, Shape, Agreeing
<1>2. m \in Message /\ m.kind = "resp" /\ m.ok
    <2>1. Head(toServer[b]) \in Request
        BY <1>0, <1>1, FirstRequest
    <2> QED
        BY <1>1, <2>1 DEF Message, Request
<1> HIDE DEF m
<1>3. /\ stage'[b] = "waiting" /\ toServer'[b] = Tail(toServer[b])
      /\ toClient'[b] = Append(toClient[b], m)
      /\ \A d \in Clients \ {b} : /\ stage'[d] = stage[d] /\ toServer'[d] = toServer[d]
                                  /\ toClient'[d] = toClient[d]
    BY <1>1
<1>4. \A d \in Clients : ToApply(d)' = ToApply(d) /\ stage'[d] # "refused"
    BY <1>0, <1>1, <1>3 DEF ToApply, Agreeing
<1>5. ASSUME NEW d \in Clients, NEW i \in DOMAIN toClient'[d]
      PROVE  Harmless(d, toClient'[d][i])
    <2>1. CASE d # b
        <3>1. toClient'[d] = toClient[d]
            BY <1>3, <2>1
        <3> QED
            BY <1>0, <1>5, <3>1 DEF Agreeing
    <2>2. CASE d = b
        <3>1. toClient'[d] = Append(toClient[d], m) /\ toClient[d] \in Seq(Message)
            BY <1>0, <1>3, <2>2, Lists
        <3>2. /\ DOMAIN toClient'[d] = 1 .. Len(toClient[d]) + 1
              /\ DOMAIN toClient[d] = 1 .. Len(toClient[d])
              /\ \A j \in 1 .. Len(toClient[d]) : toClient'[d][j] = toClient[d][j]
              /\ toClient'[d][Len(toClient[d]) + 1] = m
              /\ \A j \in 1 .. Len(toClient[d]) + 1 :
                    j = Len(toClient[d]) + 1 \/ j \in 1 .. Len(toClient[d])
            BY <1>2, <3>1, Lengthened
        <3>4. CASE i = Len(toClient[d]) + 1
            BY <1>2, <3>2, <3>4 DEF Harmless
        <3>5. CASE i \in 1 .. Len(toClient[d])
            BY <1>0, <3>2, <3>5 DEF Agreeing
        <3> QED
            BY <1>5, <3>2, <3>4, <3>5
    <2> QED
        BY <2>1, <2>2
<1> QED
    BY <1>0, <1>1, <1>4, <1>5 DEF Agreeing

(* When nothing is on its way, the lists that lead one map to another are
   empty, so the maps agree in the parts a client writes and in the others. *)
LEMMA ConvergingNotify ==
    ASSUME Converging, NEW users, Notify(users)
    PROVE  \A d \in Clients : Agreeing(d)'
<1> DEFINE m == [kind |-> "note"]
<1>1. /\ Shape /\ m \in Message
      /\ \A d \in Clients : toClient'[d] \in {toClient[d], Append(toClient[d], m)}
      /\ UNCHANGED <<doc, client, toServer, stage>>
    BY NotifyShape DEF Converging, Following
<1>2. \A d \in Clients : Harmless(d, m)
    BY DEF Harmless
<1> HIDE DEF m
<1>3. ASSUME NEW d \in Clients PROVE Agreeing(d)'
    <2>1. ToApply(d)' = ToApply(d) /\ Agreeing(d)
        BY <1>1 DEF ToApply, Converging
    <2>2. toClient[d] \in Seq(Message) /\ \A i \in DOMAIN toClient[d] : Harmless(d, toClient[d][i])
        BY <1>1, <2>1 DEF Shape, Agreeing
    <2>3. \A i \in DOMAIN Append(toClient[d], m) : Harmless(d, Append(toClient[d], m)[i])
        <3>1. /\ DOMAIN toClient[d] = 1 .. Len(toClient[d])
              /\ DOMAIN Append(toClient[d], m) = 1 .. Len(toClient[d]) + 1
              /\ \A i \in 1 .. Len(toClient[d]) : Append(toClient[d], m)[i] = toClient[d][i]
              /\ Append(toClient[d], m)[Len(toClient[d]) + 1] = m
              /\ \A i \in 1 .. Len(toClient[d]) + 1 :
                    i = Len(toClient[d]) + 1 \/ i \in 1 .. Len(toClient[d])
            BY <1>1, <2>2, Lengthened
        <3> QED
            BY <1>2, <2>2, <3>1
    <2>4. \A i \in DOMAIN toClient'[d] : Harmless(d, toClient'[d][i])
        BY <1>1, <2>2, <2>3
    <2> QED
        BY <1>1, <2>1, <2>4 DEF Agreeing
<1> QED
    BY <1>3

LEMMA QuietAgrees == Converging => Converges
<1> SUFFICES ASSUME Converging, Quiet, NEW c \in Clients
             PROVE  client[c].doc = doc
    BY DEF Converges
<1>1. Shape /\ Follows /\ Agreeing(c)
    BY DEF Converging, Following
<1>2. toServer[c] = <<>> /\ toClient[c] = <<>> /\ DOMAIN <<>> = {}
    BY DEF Quiet
<1>3. \A d \in Clients : stage[d] = "waiting"
    BY <1>1 DEF Quiet, Shape
<1>4. ASSUME NEW x \in Cells
      PROVE  client[c].doc[x] = doc[x]
    <2>1. CASE <<c, x>> \in Writes
        <3>1. Closes(<<>>, doc[x], x, client[c].doc[x])
            BY <1>1, <1>2, <1>3, <2>1 DEF Agreeing, ToApply
        <3>2. Asks(<<>>, x) = {}
            BY <1>2 DEF Asks
        <3> QED
            BY <3>1, <3>2 DEF Closes
    <2>2. CASE <<c, x>> \notin Writes
        <3>1. AboutToCast(x) = {}
            BY <1>3 DEF AboutToCast
        <3>2. Leads(<<>>, client[c].doc[x], x, doc[x])
            BY <1>1, <1>2, <2>2, <3>1 DEF Follows
        <3>3. Spots(<<>>, x) = {}
            BY <1>2 DEF Spots
        <3> QED
            BY <3>2, <3>3 DEF Leads
    <2> QED
        BY <2>1, <2>2
<1>5. doc \in Doc /\ client[c].doc \in Doc
    BY <1>1, Lists DEF Shape
<1> QED
    BY <1>4, <1>5 DEF Doc

(* When each part of the map has one writer and nothing is refused, all maps are
   the same once all messages have arrived, for any number of clients, parts
   and server threads: taking predictions back and making them again around
   the others' operations, undo and redo lose nothing. *)
THEOREM OwnPartsConverge ==
    ASSUME OwnParts
    PROVE  Spec => []Converges
<1>1. Init => Converging
    BY ConvergingInit
<1>2. Converging /\ [Next]_vars => Converging'
    <2> SUFFICES ASSUME Converging, [Next]_vars PROVE Converging'
        OBVIOUS
    <2>1. Following'
        BY FollowingStep DEF Converging, OwnParts, InTurn
    <2>2. CASE UNCHANGED vars
        <3>1. \A d \in Clients : Agreeing(d)'
            BY <2>2 DEF vars, Converging, Agreeing, ToApply
        <3> QED
            BY <2>1, <3>1 DEF Converging
    <2>3. ASSUME NEW c \in Clients,
                 (\E x \in Cells, v \in Values : Edit(c, x, v)) \/ Undo(c) \/ Redo(c)
          PROVE  Converging'
        BY <2>1, <2>3, ConvergingQuery DEF Converging
    <2>4. ASSUME NEW c \in Clients, Receive(c) PROVE Converging'
        BY <2>1, <2>4, ConvergingReceive DEF Converging
    <2>5. ASSUME NEW c \in Clients, Apply(c) PROVE Converging'
        BY <2>1, <2>5, ConvergingApply DEF Converging
    <2>6. ASSUME NEW c \in Clients, Cast(c) PROVE Converging'
        BY <2>1, <2>6, ConvergingCast DEF Converging
    <2>7. ASSUME NEW c \in Clients, Answer(c) PROVE Converging'
        BY <2>1, <2>7, ConvergingAnswer DEF Converging
    <2>8. ASSUME NEW users, Notify(users) PROVE Converging'
        BY <2>1, <2>8, ConvergingNotify DEF Converging
    <2> QED
        BY <2>2, <2>3, <2>4, <2>5, <2>6, <2>7, <2>8 DEF Next, Save, Visit
<1>3. Converging => Converges
    BY QuietAgrees
<1> QED
    BY <1>1, <1>2, <1>3, PTL DEF Spec

-----------------------------------------------------------------------------
(* What the undo list accounts for *)

LEMMA WalkedWrites ==
    ASSUME NEW h \in Seq(Operation), NEW n \in 0 .. Len(h)
    PROVE  LET w == Forwards(SubSeq(h, 1, n))
           IN  /\ w \in Writing /\ Len(w) = n
               /\ \A i \in 1 .. n : w[i] = <<h[i].cell, h[i].val>>
<1> DEFINE t == SubSeq(h, 1, n)
           w == Forwards(t)
<1>1. /\ Len(h) \in Nat /\ n \in Nat /\ n <= Len(h)
      /\ \A i \in 1 .. n : h[i] \in Operation
    BY ElementOfSeq, LenProperties
<1>2. /\ t \in Seq(Operation) /\ Len(t) = n
      /\ \A i \in 1 .. n : t[i] = h[i]
    BY <1>1, SubSeqProperties
<1> HIDE DEF t
<1>3. DOMAIN t = 1 .. n
    BY <1>2, LenProperties
<1>4. w = [i \in 1 .. n |-> <<h[i].cell, h[i].val>>]
    BY <1>2, <1>3 DEF Forwards, Forward
<1>5. \A i \in 1 .. n : <<h[i].cell, h[i].val>> \in Cells \X Values
    BY <1>1 DEF Operation
<1>6. w \in Seq(Cells \X Values)
    BY <1>1, <1>4, <1>5, SeqDef
<1>7. Len(w) = n
    BY <1>1, <1>4, <1>6, LenProperties
<1> QED
    BY <1>4, <1>6, <1>7 DEF Writing, t

LEMMA WalkedMap ==
    ASSUME NEW base \in Doc, NEW h \in Seq(Operation), NEW n \in 0 .. Len(h)
    PROVE  Walked(base, h, n) \in Doc
BY WalkedWrites, AppliedMap DEF Walked

(* What the list starts with decides what its first operations make. *)
LEMMA WalkedAlike ==
    ASSUME NEW base, NEW h \in Seq(Operation), NEW g \in Seq(Operation),
           NEW n \in 0 .. Len(h), n <= Len(g), \A i \in 1 .. n : h[i] = g[i]
    PROVE  Walked(base, h, n) = Walked(base, g, n)
<1>1. /\ Len(h) \in Nat /\ Len(g) \in Nat /\ n \in Nat /\ n <= Len(h)
      /\ \A i \in 1 .. n : h[i] \in Operation /\ g[i] \in Operation
    BY ElementOfSeq, LenProperties
<1>2. /\ SubSeq(h, 1, n) \in Seq(Operation) /\ Len(SubSeq(h, 1, n)) = n
      /\ \A i \in 1 .. n : SubSeq(h, 1, n)[i] = h[i]
    BY <1>1, SubSeqProperties
<1>3. /\ SubSeq(g, 1, n) \in Seq(Operation) /\ Len(SubSeq(g, 1, n)) = n
      /\ \A i \in 1 .. n : SubSeq(g, 1, n)[i] = g[i]
    BY <1>1, SubSeqProperties
<1>4. SubSeq(h, 1, n) = SubSeq(g, 1, n)
    BY <1>2, <1>3, SeqEqual
<1> QED
    BY <1>4 DEF Walked

(* What the first operations make of a part: what it held before, or what the
   last of them that names it sets. *)
LEMMA WalkedUnset ==
    ASSUME NEW base \in Doc, NEW h \in Seq(Operation), NEW n \in 0 .. Len(h), NEW x \in Cells,
           \A i \in 1 .. n : h[i].cell # x
    PROVE  Walked(base, h, n)[x] = base[x]
<1> DEFINE w == Forwards(SubSeq(h, 1, n))
<1>1. /\ w \in Writing /\ Len(w) = n
      /\ \A i \in 1 .. n : w[i] = <<h[i].cell, h[i].val>>
    BY WalkedWrites
<1> HIDE DEF w
<1>2. \A i \in 1 .. Len(w) : w[i][1] # x
    BY <1>1
<1>3. Applied(base, w)[x] = base[x]
    BY <1>1, <1>2, AppliedMap
<1> QED
    BY <1>3 DEF Walked, w

LEMMA WalkedSet ==
    ASSUME NEW base \in Doc, NEW h \in Seq(Operation), NEW n \in 0 .. Len(h),
           NEW k \in 1 .. n, \A i \in 1 .. n : h[i].cell = h[k].cell => i <= k
    PROVE  Walked(base, h, n)[h[k].cell] = h[k].val
<1> DEFINE w == Forwards(SubSeq(h, 1, n))
<1>1. /\ w \in Writing /\ Len(w) = n
      /\ \A i \in 1 .. n : w[i] = <<h[i].cell, h[i].val>>
    BY WalkedWrites
<1> HIDE DEF w
<1>2. /\ k \in 1 .. Len(w) /\ w[k][1] = h[k].cell /\ w[k][2] = h[k].val
      /\ \A i \in 1 .. Len(w) : w[i][1] = w[k][1] => i <= k
    BY <1>1
<1>3. Applied(base, w)[w[k][1]] = w[k][2]
    BY <1>1, <1>2, AppliedLast
<1> QED
    BY <1>2, <1>3 DEF Walked, w

LEMMA WalkedHits ==
    ASSUME NEW h \in Seq(Operation), NEW n \in 0 .. Len(h), NEW x
    PROVE  \/ \A i \in 1 .. n : h[i].cell # x
           \/ \E k \in 1 .. n : h[k].cell = x /\ \A i \in 1 .. n : h[i].cell = x => i <= k
<1> DEFINE hits == {i \in 1 .. n : h[i].cell = x}
<1>1. n \in Nat
    BY LenProperties
<1>2. CASE hits # {}
    <2>1. PICK k \in hits : \A j \in hits : j <= k
        BY <1>1, <1>2, LastPosition
    <2> QED
        BY <2>1
<1> QED
    BY <1>2

(* One more operation sets its part of the map. *)
LEMMA WalkedOn ==
    ASSUME NEW base \in Doc, NEW h \in Seq(Operation), NEW n \in 1 .. Len(h)
    PROVE  Walked(base, h, n) = [Walked(base, h, n - 1) EXCEPT ![h[n].cell] = h[n].val]
<1> DEFINE a == Walked(base, h, n)
           b == Walked(base, h, n - 1)
<1>0. Len(h) \in Nat /\ h[n] \in Operation
    BY ElementOfSeq, LenProperties
<1>1. /\ n \in Nat /\ n \in 0 .. Len(h) /\ n - 1 \in 0 .. Len(h) /\ n - 1 \in Nat
      /\ n \in 1 .. n /\ h[n].cell \in Cells /\ h[n].val \in Values
      /\ \A i \in 1 .. n : i <= n /\ (i = n \/ i \in 1 .. n - 1)
      /\ \A i \in 1 .. n - 1 : i \in 1 .. n /\ i # n
    BY <1>0 DEF Operation
<1>2. a \in Doc /\ b \in Doc
    BY <1>1, WalkedMap
<1>3. a[h[n].cell] = h[n].val
    BY <1>1, WalkedSet
<1>4. ASSUME NEW x \in Cells, x # h[n].cell
      PROVE  a[x] = b[x]
    <2>1. CASE \A i \in 1 .. n - 1 : h[i].cell # x
        <3>1. \A i \in 1 .. n : h[i].cell # x
            BY <1>1, <1>4, <2>1
        <3> QED
            BY <1>1, <2>1, <3>1, WalkedUnset
    <2>2. CASE \E k \in 1 .. n - 1 : h[k].cell = x /\ \A i \in 1 .. n - 1 : h[i].cell = x => i <= k
        <3>1. PICK k \in 1 .. n - 1 : h[k].cell = x /\ \A i \in 1 .. n - 1 : h[i].cell = x => i <= k
            BY <2>2
        <3>2. k \in 1 .. n /\ \A i \in 1 .. n : h[i].cell = x => i <= k
            BY <1>1, <1>4, <3>1
        <3>3. a[x] = h[k].val
            BY <1>1, <3>1, <3>2, WalkedSet
        <3>4. b[x] = h[k].val
            BY <1>1, <3>1, WalkedSet
        <3> QED
            BY <3>3, <3>4
    <2> QED
        BY <1>1, <2>1, <2>2, WalkedHits, ZenonT(40)
<1> HIDE DEF a, b
<1>5. a = [b EXCEPT ![h[n].cell] = h[n].val]
    BY <1>2, <1>3, <1>4 DEF Doc
<1> QED
    BY <1>5 DEF a, b

(* The operations after the first make of what that makes what all make. *)
LEMMA WalkedTail ==
    ASSUME NEW base \in Doc, NEW h \in Seq(Operation), NEW n \in Nat, n < Len(h)
    PROVE  Walked(base, h, n + 1) = Walked(Walked(base, h, 1), Tail(h), n)
<1> DEFINE first == Walked(base, h, 1)
           t == Tail(h)
           a == Walked(base, h, n + 1)
           b == Walked(first, t, n)
<1>1. /\ Len(h) \in Nat /\ h # <<>> /\ t \in Seq(Operation) /\ Len(t) = Len(h) - 1
      /\ \A i \in 1 .. Len(t) : t[i] = h[i + 1]
    BY LenProperties, HeadTailProperties
<1>2. /\ n + 1 \in 0 .. Len(h) /\ 1 \in 0 .. Len(h) /\ n \in 0 .. Len(t)
      /\ 1 \in 1 .. n + 1 /\ 1 \in 1 .. 1 /\ \A i \in 1 .. 1 : i = 1
      /\ \A i \in 1 .. n : i + 1 \in 1 .. n + 1 /\ t[i] = h[i + 1]
    BY <1>1
<1>3. ASSUME NEW i \in 1 .. n + 1, i # 1
      PROVE  i - 1 \in 1 .. n /\ t[i - 1] = h[i]
    <2>1. i - 1 \in 1 .. n /\ (i - 1) + 1 = i
        BY <1>3
    <2> QED
        BY <1>2, <2>1
<1>4. first \in Doc
    BY <1>2, WalkedMap
<1> HIDE DEF first, t
<1>5. a \in Doc /\ b \in Doc
    BY <1>1, <1>2, <1>4, WalkedMap
<1> HIDE DEF a, b
<1>6. ASSUME NEW x \in Cells
      PROVE  a[x] = b[x]
    <2>1. h[1].cell # x => first[x] = base[x]
        <3>1. h[1].cell # x => \A i \in 1 .. 1 : h[i].cell # x
            BY <1>2
        <3> QED
            BY <1>2, <3>1, WalkedUnset DEF first
    <2>2. h[1].cell = x => first[x] = h[1].val
        <3>1. \A i \in 1 .. 1 : h[i].cell = h[1].cell => i <= 1
            BY <1>2
        <3> QED
            BY <1>2, <3>1, WalkedSet DEF first
    <2>3. CASE \A i \in 1 .. n : t[i].cell # x
        <3>1. b[x] = first[x]
            BY <1>1, <1>2, <1>4, <2>3, WalkedUnset DEF b
        <3>2. \A i \in 1 .. n + 1 : h[i].cell = x => i = 1
            BY <1>3, <2>3
        <3>3. CASE h[1].cell = x
            <4>1. \A i \in 1 .. n + 1 : h[i].cell = h[1].cell => i <= 1
                BY <3>2, <3>3
            <4>2. a[h[1].cell] = h[1].val
                BY <1>2, <4>1, WalkedSet DEF a
            <4> QED
                BY <2>2, <3>1, <3>3, <4>2
        <3>4. CASE h[1].cell # x
            <4>1. \A i \in 1 .. n + 1 : h[i].cell # x
                BY <3>2, <3>4
            <4>2. a[x] = base[x]
                BY <1>2, <4>1, WalkedUnset DEF a
            <4> QED
                BY <2>1, <3>1, <3>4, <4>2
        <3> QED
            BY <3>3, <3>4
    <2>4. CASE \E k \in 1 .. n : t[k].cell = x /\ \A i \in 1 .. n : t[i].cell = x => i <= k
        <3>1. PICK k \in 1 .. n : t[k].cell = x /\ \A i \in 1 .. n : t[i].cell = x => i <= k
            BY <2>4
        <3>2. b[t[k].cell] = t[k].val
            BY <1>1, <1>2, <1>4, <3>1, WalkedSet, ZenonT(40) DEF b
        <3>3. k + 1 \in 1 .. n + 1 /\ h[k + 1] = t[k] /\ k \in Nat
            BY <1>2
        <3>4. ASSUME NEW i \in 1 .. n + 1, h[i].cell = h[k + 1].cell
              PROVE  i <= k + 1
            <4>1. CASE i = 1
                BY <3>3, <4>1
            <4>2. CASE i # 1
                <5>1. i - 1 \in 1 .. n /\ t[i - 1].cell = x
                    BY <1>3, <3>1, <3>3, <3>4, <4>2
                <5>2. i - 1 <= k
                    BY <3>1, <5>1
                <5> QED
                    BY <3>3, <5>2
            <4> QED
                BY <4>1, <4>2
        <3>5. a[h[k + 1].cell] = h[k + 1].val
            BY <1>2, <3>3, <3>4, WalkedSet DEF a
        <3> QED
            BY <3>1, <3>2, <3>3, <3>5
    <2>5. \/ \A i \in 1 .. n : t[i].cell # x
          \/ \E k \in 1 .. n : t[k].cell = x /\ \A i \in 1 .. n : t[i].cell = x => i <= k
        <3>1. t \in Seq(Operation) /\ n \in 0 .. Len(t)
            BY <1>1, <1>2
        <3> QED
            BY <3>1, WalkedHits, ZenonT(40)
    <2> QED
        BY <2>3, <2>4, <2>5
<1>7. a = b
    BY <1>5, <1>6 DEF Doc
<1> QED
    BY <1>7 DEF a, b, first, t

LEMMA WalkedNowhere ==
    ASSUME NEW base \in Doc, NEW h \in Seq(Operation)
    PROVE  Walked(base, h, 0) = base
<1>1. Len(h) \in Nat /\ 0 \in 0 .. Len(h)
    BY LenProperties
<1> DEFINE w == Forwards(SubSeq(h, 1, 0))
<1>2. w \in Writing /\ Len(w) = 0 /\ 1 .. Len(w) = {}
    BY <1>1, WalkedWrites
<1> HIDE DEF w
<1>3. Applied(base, w) \in Doc /\ \A x \in Cells : Applied(base, w)[x] = base[x]
    BY <1>2, AppliedMap
<1> QED
    BY <1>3 DEF Walked, w, Doc

(* What a request does to the undo list of a client that has nothing to skip,
   or that has just moved along its list. *)
Kept(list) == IF Len(list) > MaxHistory THEN Tail(list) ELSE list
Listed(k, op) == Kept(Append(SubSeq(k.history, 1, k.index), op))

LEMMA QueriedList ==
    ASSUME Reversible, NEW c \in Clients, NEW k \in Sound(c), NEW x \in Cells, NEW v \in Values,
           <<c, x>> \in Writes
    PROVE  /\ Asked(k, x, v) \in OwnOps(c)
           /\ k.skip = 0 => /\ Queried(k, x, v).skip = 0
                            /\ Queried(k, x, v).history = Listed(k, Asked(k, x, v))
                            /\ Queried(k, x, v).index = Len(Listed(k, Asked(k, x, v)))
           /\ k.skip > 0 => /\ Queried(k, x, v).skip = k.skip - 1
                            /\ Queried(k, x, v).history = k.history
                            /\ Queried(k, x, v).index = k.index
<1> DEFINE op == Asked(k, x, v)
           waiting == [k EXCEPT !.pending = Append(@, op)]
           m == Remembered(waiting, op)
           list == Listed(k, op)
<1>1. op \in OwnOps(c)
    BY DEF Asked, OwnOps, Operation, Sound, ClientOf, Doc
<1>2. k \in ClientOf(c)
    BY DEF Sound
<1>3. Queried(k, x, v) = [m EXCEPT !.sent = @ + 1, !.doc[x] = v]
    BY DEF Queried, Reversible, op, Asked
<1> HIDE DEF op
<1>4. /\ waiting.history = k.history /\ waiting.index = k.index /\ waiting.skip = k.skip
      /\ DOMAIN waiting = {"doc", "pending", "history", "index", "skip", "sent"}
    BY <1>2 DEF ClientOf
<1> HIDE DEF waiting
<1>5. CASE k.skip = 0
    <2>1. m = [waiting EXCEPT !.history = list, !.index = Len(list)]
        BY <1>4, <1>5 DEF Remembered, Listed, Kept
    <2>2. /\ m.history = list /\ m.index = Len(list) /\ m.skip = 0
          /\ DOMAIN m = {"doc", "pending", "history", "index", "skip", "sent"}
        BY <1>4, <1>5, <2>1
    <2> HIDE DEF m, list
    <2> QED
        BY <1>1, <1>3, <1>5, <2>2 DEF op, list
<1>6. CASE k.skip > 0
    <2>1. m = [waiting EXCEPT !.skip = k.skip - 1]
        BY <1>4, <1>6 DEF Remembered
    <2>2. /\ m.history = k.history /\ m.index = k.index /\ m.skip = k.skip - 1
          /\ DOMAIN m = {"doc", "pending", "history", "index", "skip", "sent"}
        BY <1>4, <1>6, <2>1
    <2> HIDE DEF m, list
    <2> QED
        BY <1>1, <1>2, <1>3, <1>6, <2>2 DEF op, ClientOf
<1>7. k.skip \in Nat
    BY <1>2 DEF ClientOf
<1> QED
    BY <1>1, <1>5, <1>6, <1>7 DEF op

LEMMA QueriedWaits ==
    ASSUME Reversible, NEW c \in Clients, NEW k \in Sound(c), NEW x \in Cells, NEW v \in Values,
           <<c, x>> \in Writes
    PROVE  Queried(k, x, v).pending = Append(k.pending, Asked(k, x, v))
<1>1. /\ Queried(k, x, v).doc = [k.doc EXCEPT ![x] = v]
      /\ Queried(k, x, v).pending = IF v \in Untracked THEN k.pending
                                    ELSE Append(k.pending, Asked(k, x, v))
    BY QueriedSound
<1> QED
    BY <1>1 DEF Reversible

(* An operation is put on the list behind what is not undone. *)
LEMMA Behind ==
    ASSUME NEW c \in Clients, NEW k \in Sound(c), NEW op \in OwnOps(c)
    PROVE  LET list == Append(SubSeq(k.history, 1, k.index), op)
           IN  /\ list \in Seq(Operation) /\ Len(list) = k.index + 1 /\ list # <<>>
               /\ list[k.index + 1] = op
               /\ \A i \in 1 .. k.index : list[i] = k.history[i]
               /\ k.history \in Seq(Operation) /\ Len(k.history) \in Nat
               /\ k.index \in Nat /\ k.index <= Len(k.history)
<1> DEFINE done == SubSeq(k.history, 1, k.index)
<1>1. /\ k.history \in Seq(OwnOps(c)) /\ k.index \in Nat /\ k.index <= Len(k.history)
      /\ OwnOps(c) \subseteq Operation
    BY DEF Sound, ClientOf, OwnOps
<1>2. /\ k.history \in Seq(Operation) /\ Len(k.history) \in Nat /\ op \in Operation
      /\ \A i \in 1 .. k.index : k.history[i] \in Operation
    BY <1>1, SeqMonotonic, ElementOfSeq, LenProperties
<1>3. /\ done \in Seq(Operation) /\ Len(done) = k.index
      /\ \A i \in 1 .. k.index : done[i] = k.history[i]
    BY <1>1, <1>2, SubSeqProperties
<1> HIDE DEF done
<1>4. /\ Append(done, op) \in Seq(Operation) /\ Len(Append(done, op)) = k.index + 1
      /\ Append(done, op) # <<>> /\ Append(done, op)[k.index + 1] = op
      /\ \A i \in 1 .. k.index : Append(done, op)[i] = k.history[i]
    BY <1>1, <1>2, <1>3, AppendProperties
<1> QED
    BY <1>1, <1>2, <1>4 DEF done

(* An empty list accounts for any map. *)
LEMMA ExplainsNothing ==
    ASSUME NEW d \in Doc
    PROVE  Explains(d, <<>>, 0, d)
<1>1. <<>> \in Seq(Operation) /\ Len(<<>>) = 0 /\ 1 .. 0 = {}
    OBVIOUS
<1> QED
    BY <1>1, WalkedNowhere DEF Explains

(* A list without its first operation accounts for the map from where that
   operation has led. *)
LEMMA ExplainsTail ==
    ASSUME NEW base \in Doc, NEW h \in Seq(Operation), h # <<>>, NEW d,
           Explains(base, h, Len(h), d)
    PROVE  /\ Walked(base, h, 1) \in Doc /\ Len(Tail(h)) = Len(h) - 1
           /\ Explains(Walked(base, h, 1), Tail(h), Len(Tail(h)), d)
<1> DEFINE t == Tail(h)
           first == Walked(base, h, 1)
<1>1. /\ Len(h) \in Nat \ {0} /\ t \in Seq(Operation) /\ Len(t) = Len(h) - 1
      /\ \A i \in 1 .. Len(t) : t[i] = h[i + 1]
      /\ Len(h) \in 1 .. Len(h) /\ 1 \in 0 .. Len(h)
    BY LenProperties, HeadTailProperties
<1>2. d = Walked(base, h, Len(h)) /\ \A i \in 1 .. Len(h) : h[i].old = Walked(base, h, i - 1)[h[i].cell]
    BY DEF Explains
<1>3. d = Walked(first, t, Len(t))
    <2>1. Len(t) \in Nat /\ Len(t) < Len(h) /\ Len(t) + 1 = Len(h)
        BY <1>1
    <2> QED
        BY <1>2, <2>1, WalkedTail
<1> HIDE DEF first, t
<1>4. ASSUME NEW i \in 1 .. Len(t)
      PROVE  t[i].old = Walked(first, t, i - 1)[t[i].cell]
    <2>1. i + 1 \in 1 .. Len(h) /\ (i + 1) - 1 = i /\ i \in 1 .. Len(h)
        BY <1>1
    <2>2. h[i + 1].old = Walked(base, h, i)[h[i + 1].cell]
        BY <1>2, <2>1
    <2>3. Walked(base, h, i) = Walked(first, t, i - 1)
        <3>1. i - 1 \in Nat /\ i - 1 < Len(h) /\ (i - 1) + 1 = i
            BY <1>1
        <3> QED
            BY <3>1, WalkedTail DEF first, t
    <2> QED
        BY <1>1, <2>2, <2>3
<1> QED
    BY <1>1, <1>3, <1>4, WalkedMap DEF Explains, first, t

LEMMA ExplainsEdit ==
    ASSUME NEW c \in Clients, NEW k \in Sound(c), NEW x \in Cells, NEW v \in Values,
           Asked(k, x, v) \in OwnOps(c),
           NEW base \in Doc, Explains(base, k.history, k.index, k.doc)
    PROVE  LET list == Listed(k, Asked(k, x, v))
           IN  \E b \in Doc : Explains(b, list, Len(list), [k.doc EXCEPT ![x] = v])
<1> DEFINE op == Asked(k, x, v)
           list == Append(SubSeq(k.history, 1, k.index), op)
           h == k.history
           n == k.index
           new == [k.doc EXCEPT ![x] = v]
<1>0. op \in OwnOps(c) /\ op.cell = x /\ op.val = v /\ op.old = k.doc[x]
    BY DEF Asked
<1>1. /\ list \in Seq(Operation) /\ Len(list) = n + 1 /\ list # <<>> /\ list[n + 1] = op
      /\ \A i \in 1 .. n : list[i] = h[i]
      /\ h \in Seq(Operation) /\ Len(h) \in Nat /\ n \in Nat /\ n <= Len(h)
    BY <1>0, Behind
<1>2. k.doc = Walked(base, h, n) /\ \A i \in 1 .. Len(h) : h[i].old = Walked(base, h, i - 1)[h[i].cell]
    BY DEF Explains
<1>3. Listed(k, op) = Kept(list)
    BY DEF Listed
<1> HIDE DEF op, list, h, n
<1>4. ASSUME NEW i \in 0 .. n PROVE Walked(base, list, i) = Walked(base, h, i)
    <2>1. i \in 0 .. Len(list) /\ i <= Len(h) /\ \A j \in 1 .. i : list[j] = h[j]
        BY <1>1
    <2> QED
        BY <1>1, <2>1, WalkedAlike
<1>5. Walked(base, list, n) = k.doc
    BY <1>1, <1>2, <1>4
<1>6. Walked(base, list, n + 1) = new
    <2>1. n + 1 \in 1 .. Len(list) /\ (n + 1) - 1 = n
        BY <1>1
    <2>2. Walked(base, list, n + 1)
              = [Walked(base, list, (n + 1) - 1) EXCEPT ![list[n + 1].cell] = list[n + 1].val]
        BY <1>1, <2>1, WalkedOn
    <2> QED
        BY <1>0, <1>1, <1>5, <2>1, <2>2
<1>7. ASSUME NEW i \in 1 .. Len(list)
      PROVE  list[i].old = Walked(base, list, i - 1)[list[i].cell]
    <2>1. CASE i = n + 1
        BY <1>0, <1>1, <1>5, <2>1
    <2>2. CASE i # n + 1
        <3>1. i \in 1 .. n /\ i - 1 \in 0 .. n /\ i \in 1 .. Len(h)
            BY <1>1, <2>2
        <3> QED
            BY <1>1, <1>2, <1>4, <3>1
    <2> QED
        BY <2>1, <2>2
<1> HIDE DEF new
<1>8. Explains(base, list, Len(list), new)
    BY <1>1, <1>6, <1>7 DEF Explains
<1>9. \E b \in Doc : Explains(b, Kept(list), Len(Kept(list)), new)
    <2>1. CASE Len(list) > MaxHistory
        BY <1>1, <1>8, <2>1, ExplainsTail DEF Kept
    <2>2. CASE ~ (Len(list) > MaxHistory)
        BY <1>8, <2>2 DEF Kept
    <2> QED
        BY <2>1, <2>2
<1> QED
    BY <1>3, <1>9 DEF op, new

(* One step back along the list, and one step forth. *)
LEMMA ExplainsMoved ==
    ASSUME NEW base \in Doc, NEW h \in Seq(Operation), NEW n \in 0 .. Len(h), NEW d,
           Explains(base, h, n, d)
    PROVE  /\ n > 0 => d[h[n].cell] = h[n].val /\ Explains(base, h, n - 1, [d EXCEPT ![h[n].cell] = h[n].old])
           /\ n < Len(h) => d[h[n + 1].cell] = h[n + 1].old /\ Explains(base, h, n + 1, [d EXCEPT ![h[n + 1].cell] = h[n + 1].val])
<1>1. Len(h) \in Nat /\ n \in Nat
    BY LenProperties
<1>2. d = Walked(base, h, n) /\ \A i \in 1 .. Len(h) : h[i].old = Walked(base, h, i - 1)[h[i].cell]
    BY DEF Explains
<1>3. ASSUME n > 0
      PROVE  d[h[n].cell] = h[n].val /\ [d EXCEPT ![h[n].cell] = h[n].old] = Walked(base, h, n - 1)
    <2> DEFINE b == Walked(base, h, n - 1)
    <2>1. n \in 1 .. Len(h) /\ n - 1 \in 0 .. Len(h) /\ h[n].cell \in Cells
        <3>1. n \in 1 .. Len(h) /\ n - 1 \in 0 .. Len(h)
            BY <1>1, <1>3
        <3>2. h[n] \in Operation
            BY <3>1, ElementOfSeq
        <3> QED
            BY <3>1, <3>2 DEF Operation
    <2>2. b \in Doc /\ d = [b EXCEPT ![h[n].cell] = h[n].val] /\ h[n].old = b[h[n].cell]
        BY <1>2, <2>1, WalkedMap, WalkedOn
    <2> HIDE DEF b
    <2>3. d[h[n].cell] = h[n].val /\ [d EXCEPT ![h[n].cell] = h[n].old] = b
        BY <2>1, <2>2 DEF Doc
    <2> QED
        BY <2>3 DEF b
<1>4. ASSUME n < Len(h)
      PROVE  /\ d[h[n + 1].cell] = h[n + 1].old
             /\ [d EXCEPT ![h[n + 1].cell] = h[n + 1].val] = Walked(base, h, n + 1)
    <2>1. n + 1 \in 1 .. Len(h) /\ (n + 1) - 1 = n
        BY <1>1, <1>4
    <2>2. Walked(base, h, n + 1) = [Walked(base, h, (n + 1) - 1) EXCEPT ![h[n + 1].cell] = h[n + 1].val]
        BY <2>1, WalkedOn
    <2> QED
        BY <1>2, <2>1, <2>2
<1> QED
    BY <1>2, <1>3, <1>4 DEF Explains

(* What every user can rely on when nothing is refused: answers that confirm, and
   a list that accounts for the map and stays empty while marks keep edits off. *)
Confirming(c) ==
    /\ stage[c] # "refused"
    /\ \A i \in DOMAIN toClient[c] : toClient[c][i].kind = "resp" => toClient[c][i].ok

Accounted(k) ==
    /\ k.skip > 0 => k.history = <<>>
    /\ \E base \in Doc : Explains(base, k.history, k.index, k.doc)

Accounting == Shape /\ \A c \in Clients : Confirming(c) /\ Accounted(client[c])

LEMMA AccountedEmpty ==
    ASSUME NEW k, k.doc \in Doc, k.history = <<>>, k.index = 0
    PROVE  Accounted(k)
BY ExplainsNothing DEF Accounted

LEMMA FineAppended ==
    ASSUME NEW q \in Seq(Message), NEW m \in Message, NEW r \in {q, Append(q, m)},
           m.kind = "resp" => m.ok, \A i \in DOMAIN q : q[i].kind = "resp" => q[i].ok
    PROVE  \A i \in DOMAIN r : r[i].kind = "resp" => r[i].ok
<1>1. /\ DOMAIN Append(q, m) = 1 .. Len(q) + 1 /\ DOMAIN q = 1 .. Len(q)
      /\ \A j \in 1 .. Len(q) : Append(q, m)[j] = q[j]
      /\ Append(q, m)[Len(q) + 1] = m
      /\ \A j \in 1 .. Len(q) + 1 : j = Len(q) + 1 \/ j \in 1 .. Len(q)
    BY Lengthened
<1> QED
    BY <1>1

LEMMA AccountingInit == Init => Accounting
<1> SUFFICES ASSUME Init, NEW c \in Clients
             PROVE  Confirming(c) /\ Accounted(client[c])
    BY ShapeInit DEF Accounting
<1>1. /\ stage[c] = "waiting" /\ toClient[c] = <<>> /\ client[c].history = <<>>
      /\ client[c].index = 0 /\ client[c].doc \in Doc
    BY ValueAssumption DEF Init, Doc
<1>2. DOMAIN <<>> = {}
    OBVIOUS
<1>3. Accounted(client[c])
    BY <1>1, AccountedEmpty
<1> QED
    BY <1>1, <1>2, <1>3 DEF Confirming

(* An edit is put on the list, or on none while there is something to skip. *)
LEMMA AccountedEdit ==
    ASSUME Reversible, NEW c \in Clients, NEW k \in Sound(c), Accounted(k),
           NEW x \in Cells, NEW v \in Values, <<c, x>> \in Writes
    PROVE  Accounted(Queried(k, x, v))
<1> DEFINE op == Asked(k, x, v)
           q == Queried(k, x, v)
<1>1. /\ k.skip \in Nat /\ k.index \in Nat /\ k.index <= Len(k.history)
      /\ k.doc \in Doc /\ q.doc = [k.doc EXCEPT ![x] = v] /\ op \in OwnOps(c)
    BY QueriedSound, QueriedList DEF Sound, ClientOf
<1>2. q.doc \in Doc
    BY <1>1 DEF Doc
<1> HIDE DEF op, q
<1>3. CASE k.skip = 0
    <2>1. q.skip = 0 /\ q.history = Listed(k, op) /\ q.index = Len(Listed(k, op))
        BY <1>3, QueriedList DEF op, q
    <2>2. \E b \in Doc : Explains(b, Listed(k, op), Len(Listed(k, op)), [k.doc EXCEPT ![x] = v])
        BY <1>1, ExplainsEdit DEF Accounted, op
    <2> QED
        BY <1>1, <2>1, <2>2 DEF Accounted, q
<1>4. CASE k.skip > 0
    <2>1. k.history = <<>> /\ Len(<<>>) = 0
        BY <1>4 DEF Accounted
    <2>2. q.history = <<>> /\ q.index = 0
        BY <1>1, <1>4, <2>1, QueriedList DEF q
    <2> QED
        BY <1>2, <2>2, AccountedEmpty DEF q
<1> QED
    BY <1>1, <1>3, <1>4

(* Undo and redo meet what they change, and walk along the list. *)
LEMMA AccountedUndo ==
    ASSUME Reversible, Shape, NEW c \in Clients, Accounted(client[c]), Undo(c)
    PROVE  /\ Accounted(client'[c])
           /\ client[c].doc[client[c].history[client[c].index].cell]
                 = client[c].history[client[c].index].val
<1> DEFINE k == client[c]
           h == k.history
           n == k.index
           y == h[n].cell
           w == h[n].old
           j == [k EXCEPT !.index = n - 1, !.skip = k.skip + 1]
<1>1. /\ k \in Sound(c) /\ h \in Seq(OwnOps(c)) /\ n \in Nat /\ Len(h) \in Nat
      /\ n <= Len(h) /\ k.skip \in Nat /\ OwnOps(c) \subseteq Operation
      /\ client = [d \in Clients |-> client[d]]
      /\ DOMAIN k = {"doc", "pending", "history", "index", "skip", "sent"}
    BY LenProperties DEF Shape, Sound, ClientOf, OwnOps
<1>2. n > 0 /\ client'[c] = Queried(j, y, w)
    BY <1>1 DEF Undo, Query
<1>3. /\ n \in 1 .. Len(h) /\ n \in 0 .. Len(h) /\ n - 1 \in Nat /\ n - 1 <= Len(h)
      /\ h # <<>>
    BY <1>1, <1>2
<1>4. h[n] \in OwnOps(c) /\ h \in Seq(Operation)
    BY <1>1, <1>3, ElementOfSeq, SeqMonotonic
<1>5. y \in Cells /\ w \in Values /\ <<c, y>> \in Writes
    BY <1>4 DEF OwnOps, Operation
<1>6. k.skip = 0 /\ \E base \in Doc : Explains(base, h, n, k.doc)
    BY <1>1, <1>3 DEF Accounted
<1>7. PICK base \in Doc : Explains(base, h, n, k.doc)
    BY <1>6
<1>8. j.history = h /\ j.index = n - 1 /\ j.skip = 1 /\ j.doc = k.doc /\ j \in Sound(c)
    <2>1. j.history = h /\ j.index = n - 1 /\ j.skip = 1
        BY <1>1, <1>6
    <2>2. j.doc = k.doc /\ j \in Sound(c)
        BY <1>1, <1>3, Moved
    <2> QED
        BY <2>1, <2>2
<1> HIDE DEF j, y, w
<1>9. /\ Queried(j, y, w).skip = 0 /\ Queried(j, y, w).history = h
      /\ Queried(j, y, w).index = n - 1 /\ Queried(j, y, w).doc = [k.doc EXCEPT ![y] = w]
    BY <1>5, <1>8, QueriedList, QueriedSound
<1> HIDE DEF h, n, k
<1>10. k.doc[y] = h[n].val /\ Explains(base, h, n - 1, [k.doc EXCEPT ![y] = w])
    BY <1>2, <1>3, <1>4, <1>7, ExplainsMoved DEF y, w
<1>11. Accounted(client'[c])
    BY <1>2, <1>9, <1>10 DEF Accounted
<1> QED
    BY <1>10, <1>11 DEF h, n, k, y

LEMMA AccountedRedo ==
    ASSUME Reversible, Shape, NEW c \in Clients, Accounted(client[c]), Redo(c)
    PROVE  /\ Accounted(client'[c])
           /\ client[c].doc[client[c].history[client[c].index + 1].cell]
                 = client[c].history[client[c].index + 1].old
<1> DEFINE k == client[c]
           h == k.history
           n == k.index
           y == h[n + 1].cell
           w == h[n + 1].val
           j == [k EXCEPT !.index = n + 1, !.skip = k.skip + 1]
<1>1. /\ k \in Sound(c) /\ h \in Seq(OwnOps(c)) /\ n \in Nat /\ Len(h) \in Nat
      /\ k.skip \in Nat /\ OwnOps(c) \subseteq Operation
      /\ client = [d \in Clients |-> client[d]]
      /\ DOMAIN k = {"doc", "pending", "history", "index", "skip", "sent"}
    BY LenProperties DEF Shape, Sound, ClientOf, OwnOps
<1>2. n < Len(h) /\ client'[c] = Queried(j, y, w)
    BY <1>1 DEF Redo, Query
<1>3. /\ n + 1 \in 1 .. Len(h) /\ n \in 0 .. Len(h) /\ n + 1 \in Nat /\ n + 1 <= Len(h)
      /\ h # <<>>
    BY <1>1, <1>2
<1>4. h[n + 1] \in OwnOps(c) /\ h \in Seq(Operation)
    BY <1>1, <1>3, ElementOfSeq, SeqMonotonic
<1>5. y \in Cells /\ w \in Values /\ <<c, y>> \in Writes
    BY <1>4 DEF OwnOps, Operation
<1>6. k.skip = 0 /\ \E base \in Doc : Explains(base, h, n, k.doc)
    BY <1>1, <1>3 DEF Accounted
<1>7. PICK base \in Doc : Explains(base, h, n, k.doc)
    BY <1>6
<1>8. j.history = h /\ j.index = n + 1 /\ j.skip = 1 /\ j.doc = k.doc /\ j \in Sound(c)
    <2>1. j.history = h /\ j.index = n + 1 /\ j.skip = 1
        BY <1>1, <1>6
    <2>2. j.doc = k.doc /\ j \in Sound(c)
        BY <1>1, <1>3, Moved
    <2> QED
        BY <2>1, <2>2
<1> HIDE DEF j, y, w
<1>9. /\ Queried(j, y, w).skip = 0 /\ Queried(j, y, w).history = h
      /\ Queried(j, y, w).index = n + 1 /\ Queried(j, y, w).doc = [k.doc EXCEPT ![y] = w]
    BY <1>5, <1>8, QueriedList, QueriedSound
<1> HIDE DEF h, n, k
<1>10. k.doc[y] = h[n + 1].old /\ Explains(base, h, n + 1, [k.doc EXCEPT ![y] = w])
    BY <1>2, <1>3, <1>4, <1>7, ExplainsMoved DEF y, w
<1>11. Accounted(client'[c])
    BY <1>2, <1>9, <1>10 DEF Accounted
<1> QED
    BY <1>10, <1>11 DEF h, n, k, y

LEMMA AccountingQuery ==
    ASSUME Reversible, Accounting, NEW b \in Clients,
           (\E y \in Cells, w \in Values : Edit(b, y, w)) \/ Undo(b) \/ Redo(b),
           NEW c \in Clients
    PROVE  Confirming(c)' /\ Accounted(client'[c])
<1>0. Shape /\ Confirming(c) /\ Accounted(client[c])
    BY DEF Accounting
<1>1. PICK x \in Cells, v \in Values, op \in OwnOps(b), r \in OwnRequests(b) : Sends(b, x, v, op, r)
    BY <1>0, QueryEffect
<1>2. /\ \A d \in Clients \ {b} : client'[d] = client[d]
      /\ UNCHANGED <<toClient, stage>>
    BY <1>1 DEF Sends
<1>3. Confirming(c)'
    BY <1>0, <1>2 DEF Confirming
<1>4. Accounted(client'[c])
    <2>1. CASE c # b
        BY <1>0, <1>2, <2>1
    <2>2. ASSUME c = b, NEW y \in Cells, NEW w \in Values, Edit(c, y, w)
          PROVE  Accounted(client'[c])
        <3>1. /\ <<c, y>> \in Writes /\ client'[c] = Queried(client[c], y, w)
              /\ client[c] \in Sound(c)
            BY <1>0, <2>2 DEF Edit, Query, Shape
        <3> QED
            BY <1>0, <3>1, AccountedEdit
    <2> QED
        BY <1>0, <2>1, <2>2, AccountedUndo, AccountedRedo
<1> QED
    BY <1>3, <1>4

(* Answers that confirm change neither the list nor the map; a broadcast changes
   the map and clears the list. *)
LEMMA AccountingReceive ==
    ASSUME Accounting, NEW b \in Clients, Receive(b), NEW c \in Clients
    PROVE  Confirming(c)' /\ Accounted(client'[c])
<1> DEFINE m == Head(toClient[b])
           k == client[b]
<1>0. Shape /\ Confirming(c) /\ Accounted(client[c])
    BY DEF Accounting
<1>1. /\ toClient[b] # <<>> /\ toClient'[b] = Tail(toClient[b]) /\ m \in Message
      /\ client'[b] = IF m.kind = "resp" THEN Answered(k, m.id, m.ok) ELSE Overtaken(k, Told(m))
      /\ \A d \in Clients \ {b} : client'[d] = client[d] /\ toClient'[d] = toClient[d]
      /\ UNCHANGED stage
    BY <1>0, ReceiveEffect
<1>2. ASSUME c = b
      PROVE  Confirming(c)' /\ Accounted(client'[c])
    <2>1. /\ m = toClient[b][1] /\ 1 \in DOMAIN toClient[b]
          /\ \A i \in DOMAIN Tail(toClient[b]) :
                i + 1 \in DOMAIN toClient[b] /\ Tail(toClient[b])[i] = toClient[b][i + 1]
        BY <1>0, <1>1, Lists, Shortened
    <2>2. Confirming(c)'
        <3>1. \A i \in DOMAIN toClient[c] : toClient[c][i].kind = "resp" => toClient[c][i].ok
            BY <1>0 DEF Confirming
        <3>2. toClient'[c] = Tail(toClient[c]) /\ stage'[c] = stage[c]
            BY <1>1, <1>2
        <3> HIDE DEF m
        <3>3. \A i \in DOMAIN toClient'[c] : toClient'[c][i].kind = "resp" => toClient'[c][i].ok
            BY <1>2, <2>1, <3>1, <3>2
        <3> QED
            BY <1>0, <3>2, <3>3 DEF Confirming
    <2>3. k \in Sound(b) /\ k \in ClientOf(b)
        BY <1>0 DEF Shape, Sound
    <2>4. CASE m.kind = "resp"
        <3>1. m.ok
            BY <1>0, <1>2, <2>1, <2>4 DEF Confirming
        <3>2. client'[b] \in {k, [k EXCEPT !.pending = Tail(@)]}
            BY <1>1, <2>4, <3>1 DEF Answered
        <3>3. /\ client'[b].skip = k.skip /\ client'[b].history = k.history
              /\ client'[b].index = k.index /\ client'[b].doc = k.doc
            BY <2>3, <3>2 DEF ClientOf
        <3> HIDE DEF k, m
        <3> QED
            BY <1>0, <1>2, <2>2, <3>3 DEF Accounted, k
    <2>5. CASE m.kind # "resp"
        <3>1. client'[b] = Overtaken(k, Told(m))
            BY <1>1, <2>5
        <3>2. /\ client'[b] \in Sound(b)
              /\ client'[b].history = <<>> /\ client'[b].index = 0
            BY <1>1, <2>3, <2>5, <3>1, OvertakenSound
        <3>3. client'[b].doc \in Doc
            BY <3>2 DEF Sound, ClientOf
        <3> QED
            BY <1>2, <2>2, <3>2, <3>3, AccountedEmpty
    <2> QED
        BY <2>4, <2>5
<1>3. CASE c # b
    BY <1>0, <1>1, <1>3 DEF Confirming
<1> QED
    BY <1>2, <1>3

(* The server refuses nothing, so it confirms. *)
LEMMA AccountingServer ==
    ASSUME Reversible, Accounting, NEW b \in Clients, Apply(b) \/ Cast(b) \/ Answer(b),
           NEW c \in Clients
    PROVE  Confirming(c)' /\ Accounted(client'[c])
<1> DEFINE Fine(m) == m.kind = "resp" => m.ok
<1>0. /\ Shape /\ stage[b] # "refused" /\ stage[c] # "refused" /\ Accounted(client[c])
      /\ \A i \in DOMAIN toClient[c] : Fine(toClient[c][i])
    BY DEF Accounting, Confirming
<1>1. /\ stage \in [Clients -> Stages] /\ toClient \in [Clients -> Seq(Message)]
      /\ toClient[c] \in Seq(Message) /\ toServer[b] # <<>> /\ UNCHANGED client
    BY <1>0 DEF Apply, Cast, Answer, Shape
<1>2. stage'[c] # "refused"
    BY <1>0, <1>1 DEF Apply, Cast, Answer, Reversible
<1>3. PICK m \in Message : Fine(m) /\ toClient'[c] \in {toClient[c], Append(toClient[c], m)}
    <2>1. Head(toServer[b]) \in Request /\ \E m \in Message : Fine(m)
        <3>1. [kind |-> "resp", id |-> 0, ok |-> TRUE] \in Message
            BY DEF Message
        <3> QED
            BY <1>0, <1>1, <3>1, FirstRequest
    <2>2. CASE Apply(b)
        BY <2>1, <2>2 DEF Apply
    <2>3. CASE Cast(b)
        <3> DEFINE m == [kind |-> "op", cell |-> Head(toServer[b]).cell, val |-> Head(toServer[b]).val]
        <3>1. m \in Message /\ Fine(m)
            BY <2>1 DEF Message, Request
        <3>2. toClient'[c] \in {toClient[c], Append(toClient[c], m)}
            BY <2>3 DEF Cast
        <3> QED
            BY <3>1, <3>2
    <2>4. CASE Answer(b)
        <3> DEFINE m == [kind |-> "resp", id |-> Head(toServer[b]).id, ok |-> stage[b] = "cast"]
        <3>1. m \in Message /\ Fine(m)
            BY <1>0, <2>1, <2>4 DEF Message, Request, Answer
        <3>2. toClient'[c] \in {toClient[c], Append(toClient[c], m)}
            BY <1>1, <2>4 DEF Answer
        <3> QED
            BY <3>1, <3>2
    <2> QED
        BY <2>2, <2>3, <2>4
<1>4. \A i \in DOMAIN toClient'[c] : Fine(toClient'[c][i])
    BY <1>0, <1>1, <1>3, FineAppended
<1> QED
    BY <1>0, <1>1, <1>2, <1>4 DEF Confirming

LEMMA AccountingNotify ==
    ASSUME Accounting, NEW users, Notify(users), NEW c \in Clients
    PROVE  Confirming(c)' /\ Accounted(client'[c])
<1>1. Shape /\ Confirming(c) /\ Accounted(client[c])
    BY DEF Accounting
<1>2. /\ [kind |-> "note"] \in Message /\ toClient[c] \in Seq(Message)
      /\ toClient'[c] \in {toClient[c], Append(toClient[c], [kind |-> "note"])}
      /\ UNCHANGED <<client, stage>>
    BY <1>1, NotifyShape DEF Shape
<1>3. \A i \in DOMAIN toClient'[c] : toClient'[c][i].kind = "resp" => toClient'[c][i].ok
    BY <1>1, <1>2, FineAppended DEF Confirming
<1> QED
    BY <1>1, <1>2, <1>3 DEF Confirming

LEMMA AccountingStep ==
    ASSUME Reversible
    PROVE  Accounting /\ [Next]_vars => Accounting'
<1> SUFFICES ASSUME Accounting, [Next]_vars, NEW c \in Clients
             PROVE  Confirming(c)' /\ Accounted(client'[c])
    BY ShapeStep DEF Accounting
<1>1. CASE UNCHANGED vars
    BY <1>1 DEF vars, Accounting, Confirming
<1>2. ASSUME NEW b \in Clients,
             (\E x \in Cells, v \in Values : Edit(b, x, v)) \/ Undo(b) \/ Redo(b)
      PROVE  Confirming(c)' /\ Accounted(client'[c])
    BY <1>2, AccountingQuery
<1>3. ASSUME NEW b \in Clients, Receive(b)
      PROVE  Confirming(c)' /\ Accounted(client'[c])
    BY <1>3, AccountingReceive
<1>4. ASSUME NEW b \in Clients, Apply(b) \/ Cast(b) \/ Answer(b)
      PROVE  Confirming(c)' /\ Accounted(client'[c])
    BY <1>4, AccountingServer
<1>5. ASSUME NEW users, Notify(users)
      PROVE  Confirming(c)' /\ Accounted(client'[c])
    BY <1>5, AccountingNotify
<1> QED
    BY <1>1, <1>2, <1>3, <1>4, <1>5 DEF Next, Save, Visit

(* When nothing is refused and everything has a reverse, every client's undo list
   accounts for the map it shows: from some map on its operations up to the index
   make that map, and each has taken down what it found.  This is so for any
   number of clients that edit, undo, redo, save, join and leave, in whatever
   order their broadcasts arrive, and when operations have fallen off the list. *)
THEOREM ListExplainsMap ==
    ASSUME Reversible
    PROVE  Spec => []HistoryExplains
<1>1. Init => Accounting
    BY AccountingInit
<1>2. Accounting /\ [Next]_vars => Accounting'
    BY AccountingStep
<1>3. Accounting => HistoryExplains
    BY DEF Accounting, Accounted, HistoryExplains
<1> QED
    BY <1>1, <1>2, <1>3, PTL DEF Spec

(* Under the same assumptions undo takes back the last listed edit where the user
   still sees it, and redo makes it again where undo has left the part: no edit,
   of any user, has come between. *)
THEOREM UndoMeetsWhatItListed ==
    ASSUME Reversible
    PROVE  Spec => UndoMeetsItsEdit
<1> DEFINE Meets(c) ==
               LET k == client[c]
               IN  /\ Undo(c) => k.doc[k.history[k.index].cell] = k.history[k.index].val
                   /\ Redo(c) => k.doc[k.history[k.index + 1].cell] = k.history[k.index + 1].old
<1>1. Init => Accounting
    BY AccountingInit
<1>2. Accounting /\ [Next]_vars => Accounting'
    BY AccountingStep
<1>3. Accounting => \A c \in Clients : Meets(c)
    BY AccountedUndo, AccountedRedo DEF Accounting
<1> HIDE DEF Meets
<1>4. Accounting => [\A c \in Clients : Meets(c)]_vars
    BY <1>3
<1> QED
    BY <1>1, <1>2, <1>4, PTL DEF Spec, UndoMeetsItsEdit, Meets

=============================================================================
