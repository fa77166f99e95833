---------------------------- MODULE QuadsViewProofs ----------------------------
(***************************************************************************)
(* Theorems about the view of a quads layer. The requests on their way are *)
(* a chain that leads from the server's quads to the client's, each        *)
(* possible in its turn and each taken back by its reverse; the quad that  *)
(* is held is one of the client's, moved since the button was pressed.     *)
(***************************************************************************)
EXTENDS QuadsView, SeqFacts

-----------------------------------------------------------------------------
(* Operations *)

(* A quad whose envelope is not taken away. *)
Sound == [points : [1..5 -> Point], colors : [1..4 -> 0..Full], env : {NoEnv, Env}]

Op == [kind : {"edit"}, q : Nat, quad : Sound] \cup [kind : {"create"}, quad : Sound]
        \cup [kind : {"delete"}, q : Nat]

LEMMA SoundQuads ==
    /\ Sound \subseteq Quad
    /\ \A quad \in Quad : quad.env # Undef => quad \in Sound
    /\ \A quad \in Sound : quad.env # Undef /\ Message(quad) = quad
BY DEF Sound, Quad, NoEnv, Env, Undef, Message

LEMMA OpsMade ==
    ASSUME NEW q \in Nat, NEW quad \in Sound
    PROVE  Edit(q, quad) \in Op /\ Create(quad) \in Op /\ Delete(q) \in Op
BY DEF Edit, Create, Delete, Op

(* What the server and the client make of an operation are quads again. *)
LEMMA HandleTyped ==
    ASSUME NEW qs \in Seq(Sound), NEW op \in Op
    PROVE  Handle(qs, op) \in Seq(Sound)
<1>1. CASE ~ Possible(qs, op)
    BY <1>1 DEF Handle
<1>2. CASE Possible(qs, op) /\ op \in [kind : {"edit"}, q : Nat, quad : Sound]
    <2>1. op.kind = "edit" /\ op.q \in DOMAIN qs /\ op.quad \in Sound
        BY <1>2 DEF Possible
    <2>2. qs[op.q] \in Sound
        BY <2>1
    <2>3. [op.quad EXCEPT !.env = qs[op.q].env] \in Sound
        BY <2>1, <2>2 DEF Sound
    <2>4. Handle(qs, op) = [qs EXCEPT ![op.q] = [op.quad EXCEPT !.env = qs[op.q].env]]
        BY <1>2, <2>1 DEF Handle
    <2> QED
        BY <2>1, <2>3, <2>4
<1>3. CASE Possible(qs, op) /\ op \in [kind : {"create"}, quad : Sound]
    <2>1. op.kind = "create" /\ op.quad \in Sound
        BY <1>3
    <2>2. Handle(qs, op) = Append(qs, op.quad)
        BY <1>3, <2>1 DEF Handle, Stored
    <2> QED
        BY <2>1, <2>2
<1>4. CASE Possible(qs, op) /\ op \in [kind : {"delete"}, q : Nat]
    <2>1. op.kind = "delete" /\ op.q \in DOMAIN qs
        BY <1>4 DEF Possible
    <2>2. Handle(qs, op) = RemoveAt(qs, op.q)
        BY <1>4, <2>1 DEF Handle, Stored
    <2>3. op.q \in 1 .. Len(qs)
        BY <2>1, LenProperties
    <2> QED
        BY <2>2, <2>3, RemovedFrom
<1> QED
    BY <1>1, <1>2, <1>3, <1>4 DEF Op

LEMMA StoredTyped ==
    ASSUME NEW qs \in Seq(Sound), NEW op \in Op, Possible(qs, op)
    PROVE  Stored(qs, op) \in Seq(Sound)
<1>1. CASE op \in [kind : {"edit"}, q : Nat, quad : Sound]
    <2>1. op.kind = "edit" /\ op.q \in DOMAIN qs /\ op.quad \in Sound
        BY <1>1 DEF Possible
    <2> QED
        BY <2>1 DEF Stored
<1>2. CASE op \in [kind : {"create"}, quad : Sound]
    <2>1. op.kind = "create" /\ op.quad \in Sound
        BY <1>2
    <2> QED
        BY <2>1 DEF Stored
<1>3. CASE op \in [kind : {"delete"}, q : Nat]
    <2>1. op.kind = "delete" /\ op.q \in 1 .. Len(qs)
        BY <1>3, LenProperties DEF Possible
    <2>2. Stored(qs, op) = RemoveAt(qs, op.q)
        BY <2>1 DEF Stored
    <2> QED
        BY <2>1, <2>2, RemovedFrom
<1> QED
    BY <1>1, <1>2, <1>3 DEF Op

(* Operations are handled one by one. *)
LEMMA HandledSteps ==
    ASSUME NEW qs \in Seq(Sound), NEW ops \in Seq(Op)
    PROVE  \E h \in [0 .. Len(ops) -> Seq(Sound)] :
              /\ h[0] = qs
              /\ \A k \in 1 .. Len(ops) : h[k] = Handle(h[k - 1], ops[k])
              /\ Handled(qs, ops) = h[Len(ops)]
<1> DEFINE n == Len(ops)
           F == [p \in (1 .. n) \X Seq(Sound) |-> Handle(p[2], ops[p[1]])]
           g == CHOOSE g : g = [s \in SUBSET (1 .. n) |->
                  IF s = {} THEN qs ELSE Handle(g[s \ {Max(s)}], ops[Max(s)])]
<1>1. n \in Nat /\ \A k \in 1 .. n : ops[k] \in Op
    BY ElementOfSeq, LenProperties
<1>2. Handled(qs, ops) = g[1 .. n]
    <2>1. DOMAIN ops = 1 .. n
        BY LenProperties
    <2> HIDE DEF n
    <2> QED
        BY <2>1, Zenon DEF Handled, FoldLeft, MapThenFoldSet
<1> HIDE DEF n
<1>3. F \in [(1 .. n) \X Seq(Sound) -> Seq(Sound)]
    <2>1. ASSUME NEW p \in (1 .. n) \X Seq(Sound) PROVE Handle(p[2], ops[p[1]]) \in Seq(Sound)
        <3>1. p[1] \in 1 .. n /\ p[2] \in Seq(Sound)
            OBVIOUS
        <3>2. ops[p[1]] \in Op
            BY <1>1, <3>1
        <3> QED
            BY <3>1, <3>2, HandleTyped
    <2> QED
        BY <2>1
<1>4. g = [s \in SUBSET (1 .. n) |->
             IF s = {} THEN qs ELSE Handle(g[s \ {Max(s)}], ops[Max(s)])]
    <2> HIDE DEF F
    <2>1. PICK f : IsFold(f, Seq(Sound), qs, F, n)
        BY <1>1, <1>3, FoldExists
    <2>2. \A s \in SUBSET (1 .. n) :
             f[s] = IF s = {} THEN qs ELSE F[<<Max(s), f[s \ {Max(s)}]>>]
        BY <2>1, Zenon DEF IsFold
    <2>3. f \in [SUBSET (1 .. n) -> Seq(Sound)]
        BY <2>1, Zenon DEF IsFold
    <2>4. ASSUME NEW s \in SUBSET (1 .. n), s # {}, NEW e, e \in [SUBSET (1 .. n) -> Seq(Sound)]
          PROVE  F[<<Max(s), e[s \ {Max(s)}]>>] = Handle(e[s \ {Max(s)}], ops[Max(s)])
        <3>1. Max(s) \in 1 .. n
            BY <1>1, <2>4, GreatestBelow
        <3>2. e[s \ {Max(s)}] \in Seq(Sound)
            BY <2>4
        <3>3. <<Max(s), e[s \ {Max(s)}]>> \in (1 .. n) \X Seq(Sound)
            BY <3>1, <3>2
        <3> QED
            BY <3>3 DEF F
    <2>5. f = [s \in SUBSET (1 .. n) |->
                 IF s = {} THEN qs ELSE Handle(f[s \ {Max(s)}], ops[Max(s)])]
        <3>1. f = [s \in SUBSET (1 .. n) |-> f[s]]
            BY <2>3
        <3>2. ASSUME NEW s \in SUBSET (1 .. n)
              PROVE  f[s] = IF s = {} THEN qs ELSE Handle(f[s \ {Max(s)}], ops[Max(s)])
            <4>1. CASE s = {}
                BY <2>2, <4>1
            <4>2. CASE s # {}
                BY <2>2, <2>3, <2>4, <4>2
            <4> QED
                BY <4>1, <4>2
        <3> QED
            BY <3>1, <3>2, Zenon
    <2> QED
        BY <2>5, Zenon
<1> HIDE DEF g
<1> DEFINE h == [k \in 0 .. n |-> g[1 .. k]]
<1>5. h[0] = qs
    <2>1. {} \in SUBSET (1 .. n) /\ 1 .. 0 = {} /\ 0 \in 0 .. n
        BY <1>1
    <2>2. g[{}] = qs
        BY <1>4, <2>1
    <2> QED
        BY <2>1, <2>2
<1>6. ASSUME NEW k \in 1 .. n PROVE h[k] = Handle(h[k - 1], ops[k])
    <2>1. /\ 1 .. k \in SUBSET (1 .. n) /\ 1 .. k # {} /\ (1 .. k) \ {k} = 1 .. (k - 1)
          /\ Max(1 .. k) = k
        BY <1>1, UpTo
    <2>2. g[1 .. k] = Handle(g[1 .. (k - 1)], ops[k])
        BY <1>4, <2>1
    <2>3. k \in 0 .. n /\ k - 1 \in 0 .. n
        BY <1>1
    <2> QED
        BY <2>2, <2>3
<1>7. h[n] = g[1 .. n]
    BY <1>1
<1> DEFINE S == {k \in 0 .. n : h[k] \in Seq(Sound)}
<1>8. 0 .. n \subseteq S
    <2>1. 0 \in S
        BY <1>1, <1>5
    <2>2. ASSUME NEW k \in 1 .. n, k - 1 \in S PROVE k \in S
        <3>1. h[k - 1] \in Seq(Sound) /\ ops[k] \in Op /\ k \in 0 .. n
            BY <1>1, <2>2
        <3> HIDE DEF h
        <3> QED
            BY <1>6, <3>1, HandleTyped
    <2> HIDE DEF S
    <2> QED
        BY <1>1, <2>1, <2>2, AllPositions
<1>9. h \in [0 .. n -> Seq(Sound)]
    <2>1. \A k \in 0 .. n : h[k] \in Seq(Sound)
        BY <1>8
    <2> QED
        BY <2>1
<1> HIDE DEF h
<1> QED
    BY <1>2, <1>5, <1>6, <1>7, <1>9 DEF n

-----------------------------------------------------------------------------
(* Requests on their way *)

NoReverse == [kind |-> "none"]
CallType ==
    {c \in [op : Op, reverse : Op \cup {NoReverse}, sent : Op,
            by : {"points", "colors", "envelope", "create", "delete"}, tracked : BOOLEAN] :
        c.tracked => c.reverse \in Op}
TrackedCall == {c \in CallType : c.tracked}

LEMMA TrackedSteps ==
    ASSUME NEW cs \in Seq(CallType)
    PROVE  \E h \in [0 .. Len(cs) -> Seq(TrackedCall)] :
              /\ h[0] = <<>>
              /\ \A k \in 1 .. Len(cs) :
                    h[k] = IF cs[k].tracked THEN Append(h[k - 1], cs[k]) ELSE h[k - 1]
              /\ Tracked(cs) = h[Len(cs)]
BY KeptSteps, Zenon DEF Tracked, TrackedCall

LEMMA TrackedTyped ==
    ASSUME NEW cs \in Seq(CallType)
    PROVE  /\ Tracked(cs) \in Seq(TrackedCall)
           /\ cs = <<>> => Tracked(cs) = <<>>
           /\ Len(cs) = 1 /\ cs[1].tracked => Tracked(cs) = <<cs[1]>>
           /\ cs # <<>> /\ cs[1].tracked => Tracked(cs) # <<>>
<1> DEFINE n == Len(cs)
<1>1. PICK h \in [0 .. n -> Seq(TrackedCall)] :
         /\ h[0] = <<>>
         /\ \A k \in 1 .. n : h[k] = IF cs[k].tracked THEN Append(h[k - 1], cs[k]) ELSE h[k - 1]
         /\ Tracked(cs) = h[n]
    BY TrackedSteps, Zenon
<1>2. n \in Nat /\ (cs # <<>> => n # 0) /\ (cs = <<>> => n = 0)
      /\ \A k \in 1 .. n : cs[k] \in CallType
    BY ElementOfSeq, LenProperties, EmptySeq
<1> HIDE DEF n
<1>3. Tracked(cs) \in Seq(TrackedCall)
    BY <1>1, <1>2
<1>4. cs = <<>> => Tracked(cs) = <<>>
    BY <1>1, <1>2
<1>5. n = 1 /\ cs[1].tracked => Tracked(cs) = <<cs[1]>>
    <2>1. Append(<<>>, cs[1]) = <<cs[1]>>
        OBVIOUS
    <2> QED
        BY <1>1, <2>1
<1>6. ASSUME n # 0, cs[1].tracked PROVE Tracked(cs) # <<>>
    <2> DEFINE S == {k \in 0 .. n : k = 0 \/ h[k] # <<>>}
    <2>1. 0 \in S
        BY <1>2
    <2>2. ASSUME NEW k \in 1 .. n, k - 1 \in S PROVE k \in S
        <3>1. /\ k \in 0 .. n /\ k - 1 \in 0 .. n /\ h[k - 1] \in Seq(TrackedCall)
              /\ h[k] = IF cs[k].tracked THEN Append(h[k - 1], cs[k]) ELSE h[k - 1]
            BY <1>1, <1>2
        <3>2. cs[k].tracked => Append(h[k - 1], cs[k]) # <<>>
            <4>1. cs[k].tracked => cs[k] \in TrackedCall
                BY <1>2 DEF TrackedCall
            <4> QED
                BY <3>1, <4>1, AppendProperties
        <3>3. k = 1 \/ h[k - 1] # <<>>
            BY <1>2, <2>2
        <3> QED
            BY <1>6, <3>1, <3>2, <3>3
    <2> HIDE DEF S
    <2>3. 0 .. n \subseteq S
        BY <1>2, <2>1, <2>2, AllPositions
    <2>4. n \in S
        BY <1>2, <2>3
    <2> QED
        BY <1>1, <1>6, <2>4 DEF S
<1> QED
    BY <1>2, <1>3, <1>4, <1>5, <1>6 DEF n

LEMMA RemadeTyped ==
    ASSUME NEW ts \in Seq(TrackedCall)
    PROVE  /\ Forward(ts) \in Seq(Op) /\ Backward(ts) \in Seq(Op)
           /\ \A c \in TrackedCall :
                 ts = <<c>> => Forward(ts) = <<c.op>> /\ Backward(ts) = <<c.reverse>>
           /\ ts = <<>> => Forward(ts) = <<>> /\ Backward(ts) = <<>>
<1>1. /\ Len(ts) \in Nat /\ DOMAIN ts = 1 .. Len(ts)
      /\ \A k \in 1 .. Len(ts) : ts[k].op \in Op /\ ts[k].reverse \in Op
    <2>1. \A c \in TrackedCall : c.op \in Op /\ c.reverse \in Op
        BY DEF TrackedCall, CallType
    <2> QED
        BY <2>1, ElementOfSeq, LenProperties
<1> DEFINE n == Len(ts)
           r == [k \in 1 .. n |-> ts[k].reverse]
<1>2. r \in Seq(Op) /\ Len(r) = n /\ [k \in DOMAIN ts |-> ts[k].reverse] = r
    BY <1>1
<1>3. Forward(ts) \in Seq(Op)
    BY <1>1 DEF Forward
<1>4. Backward(ts) = [j \in 1 .. n |-> r[(n - j) + 1]]
    BY <1>2 DEF Backward, Reverse
<1>5. Backward(ts) \in Seq(Op)
    <2>1. \A j \in 1 .. n : (n - j) + 1 \in 1 .. n
        BY <1>1
    <2>2. \A j \in 1 .. n : r[(n - j) + 1] \in Op
        BY <1>1, <2>1
    <2> HIDE DEF r
    <2> QED
        BY <1>1, <1>4, <2>2
<1>6. ASSUME NEW c \in TrackedCall, ts = <<c>>
      PROVE  Forward(ts) = <<c.op>> /\ Backward(ts) = <<c.reverse>>
    <2>1. n = 1 /\ ts[1] = c
        BY <1>6
    <2>2. Forward(ts) = [k \in 1 .. 1 |-> c.op]
        BY <1>1, <2>1 DEF Forward
    <2>3. Backward(ts) = [k \in 1 .. 1 |-> c.reverse]
        BY <1>4, <2>1
    <2> QED
        BY <2>2, <2>3
<1>7. ASSUME ts = <<>> PROVE Forward(ts) = <<>> /\ Backward(ts) = <<>>
    <2>1. n = 0 /\ 1 .. 0 = {}
        BY <1>7
    <2> QED
        BY <1>1, <1>3, <1>4, <1>5, <2>1, EmptySeq DEF Forward
<1> QED
    BY <1>3, <1>5, <1>6, <1>7

-----------------------------------------------------------------------------
(* What single operations make of a list of quads. *)

Put(qs, q, quad) == [qs EXCEPT ![q] = quad]
WithEnv(quad, e) == [quad EXCEPT !.env = e]

LEMMA PutAt ==
    ASSUME NEW qs \in Seq(Sound), NEW q \in 1 .. Len(qs), NEW quad \in Sound
    PROVE  /\ Put(qs, q, quad) \in Seq(Sound) /\ Len(Put(qs, q, quad)) = Len(qs)
           /\ Put(qs, q, quad)[q] = quad
           /\ \A j \in 1 .. Len(qs) : j # q => Put(qs, q, quad)[j] = qs[j]
BY ExceptSeq, LenProperties DEF Put

IsPut(p, qs, q, quad) ==
    /\ p \in Seq(Sound) /\ Len(p) = Len(qs) /\ p[q] = quad
    /\ \A j \in 1 .. Len(qs) : j # q => p[j] = qs[j]

LEMMA PutIsPut ==
    ASSUME NEW qs \in Seq(Sound), NEW q \in 1 .. Len(qs), NEW quad \in Sound
    PROVE  IsPut(Put(qs, q, quad), qs, q, quad)
BY PutAt DEF IsPut

LEMMA EnvOf ==
    ASSUME NEW quad \in Sound, NEW e \in {NoEnv, Env}
    PROVE  /\ WithEnv(quad, e) \in Sound /\ WithEnv(quad, e).env = e
           /\ WithEnv(quad, e).points = quad.points /\ WithEnv(quad, e).colors = quad.colors
           /\ quad.env = e => WithEnv(quad, e) = quad
           /\ quad.env \in {NoEnv, Env}
BY DEF WithEnv, Sound

LEMMA Edited ==
    ASSUME NEW qs \in Seq(Sound), NEW q \in 1 .. Len(qs), NEW quad \in Sound
    PROVE  /\ q \in Nat /\ qs[q] \in Sound
           /\ Possible(qs, Edit(q, quad)) /\ Stored(qs, Edit(q, quad)) = Put(qs, q, quad)
           /\ Handle(qs, Edit(q, quad)) = Put(qs, q, WithEnv(quad, qs[q].env))
           /\ WithEnv(quad, qs[q].env) \in Sound
           /\ quad.env = qs[q].env => Handle(qs, Edit(q, quad)) = Put(qs, q, quad)
<1>1. q \in Nat /\ q \in DOMAIN qs /\ qs[q] \in Sound
    BY ElementOfSeq, LenProperties
<1>2. qs[q].env \in {NoEnv, Env}
    BY <1>1, EnvOf
<1>3. Possible(qs, Edit(q, quad)) /\ Stored(qs, Edit(q, quad)) = Put(qs, q, quad)
    BY <1>1 DEF Possible, Stored, Edit, Put
<1>4. Handle(qs, Edit(q, quad)) = Put(qs, q, WithEnv(quad, qs[q].env))
    BY <1>3 DEF Handle, Edit, Put, WithEnv
<1>5. WithEnv(quad, qs[q].env) \in Sound /\ (quad.env = qs[q].env => WithEnv(quad, qs[q].env) = quad)
    BY <1>2, EnvOf
<1> QED
    BY <1>1, <1>3, <1>4, <1>5

LEMMA PutTwice ==
    ASSUME NEW qs \in Seq(Sound), NEW q \in 1 .. Len(qs), NEW x \in Sound, NEW y \in Sound
    PROVE  Put(Put(qs, q, x), q, y) = Put(qs, q, y)
BY DEF Put

LEMMA PutApart ==
    ASSUME NEW qs \in Seq(Sound), NEW p \in 1 .. Len(qs), NEW q \in 1 .. Len(qs), p # q,
           NEW x \in Sound, NEW y \in Sound
    PROVE  Put(Put(qs, p, x), q, y) = Put(Put(qs, q, y), p, x)
BY DEF Put

LEMMA Created ==
    ASSUME NEW qs \in Seq(Sound), NEW quad \in Sound
    PROVE  /\ Possible(qs, Create(quad)) /\ Stored(qs, Create(quad)) = Append(qs, quad)
           /\ Handle(qs, Create(quad)) = Append(qs, quad)
           /\ Append(qs, quad) \in Seq(Sound) /\ Len(Append(qs, quad)) = Len(qs) + 1
           /\ \A q \in 1 .. Len(qs) : Append(qs, quad)[q] = qs[q]
           /\ Append(qs, quad)[Len(qs) + 1] = quad
BY AppendProperties, LenProperties DEF Possible, Stored, Handle, Create

LEMMA PutBefore ==
    ASSUME NEW qs \in Seq(Sound), NEW q \in 1 .. Len(qs), NEW x \in Sound, NEW y \in Sound
    PROVE  Put(Append(qs, x), q, y) = Append(Put(qs, q, y), x)
<1> DEFINE a == Append(qs, x)
           b == Put(qs, q, y)
           u == Put(a, q, y)
           v == Append(b, x)
<1>1. /\ a \in Seq(Sound) /\ Len(a) = Len(qs) + 1 /\ Len(qs) \in Nat
      /\ \A j \in 1 .. Len(qs) : a[j] = qs[j]
      /\ a[Len(qs) + 1] = x
    BY Created, LenProperties
<1>2. b \in Seq(Sound) /\ Len(b) = Len(qs) /\ b[q] = y /\ \A j \in 1 .. Len(qs) : j # q => b[j] = qs[j]
    BY PutAt
<1> HIDE DEF a, b
<1>3. q \in 1 .. Len(a)
    BY <1>1
<1>4. u \in Seq(Sound) /\ Len(u) = Len(a) /\ u[q] = y /\ \A j \in 1 .. Len(a) : j # q => u[j] = a[j]
    <2>1. a \in Seq(Sound)
        BY <1>1
    <2>2. IsPut(Put(a, q, y), a, q, y)
        BY <1>3, <2>1, PutIsPut
    <2> QED
        BY <2>2 DEF IsPut
<1>5. /\ v \in Seq(Sound) /\ Len(v) = Len(b) + 1
      /\ \A j \in 1 .. Len(b) : v[j] = b[j]
      /\ v[Len(b) + 1] = x
    BY <1>2, Created
<1> HIDE DEF u, v
<1>6. ASSUME NEW j \in 1 .. Len(qs) + 1 PROVE u[j] = v[j]
    <2>1. j \in 1 .. Len(qs) \/ j = Len(qs) + 1
        BY <1>1
    <2>2. q # Len(qs) + 1
        BY <1>1
    <2> QED
        BY <1>1, <1>2, <1>4, <1>5, <2>1, <2>2
<1>7. u = v
    BY <1>1, <1>2, <1>4, <1>5, <1>6, SeqEqual
<1> QED
    BY <1>7 DEF u, v, a, b

LEMMA Deleted ==
    ASSUME NEW qs \in Seq(Sound), NEW q \in 1 .. Len(qs)
    PROVE  /\ Possible(qs, Delete(q)) /\ Stored(qs, Delete(q)) = RemoveAt(qs, q)
           /\ Handle(qs, Delete(q)) = RemoveAt(qs, q)
           /\ RemoveAt(qs, q) \in Seq(Sound) /\ Len(RemoveAt(qs, q)) = Len(qs) - 1
           /\ \A j \in 1 .. Len(qs) - 1 :
                 RemoveAt(qs, q)[j] = IF j < q THEN qs[j] ELSE qs[j + 1]
<1>1. q \in DOMAIN qs
    BY LenProperties
<1>2. Possible(qs, Delete(q)) /\ Stored(qs, Delete(q)) = RemoveAt(qs, q)
    BY <1>1 DEF Possible, Stored, Delete
<1>3. Handle(qs, Delete(q)) = RemoveAt(qs, q)
    BY <1>2 DEF Handle, Delete
<1> QED
    BY <1>2, <1>3, RemovedFrom

(* A quad that was added last is taken away again, whatever became of the *)
(* others.                                                                *)
LEMMA Shortened ==
    ASSUME NEW qs \in Seq(Sound), NEW quad \in Sound
    PROVE  Handle(Append(qs, quad), Delete(Len(qs) + 1)) = qs
<1> DEFINE a == Append(qs, quad)
           b == RemoveAt(a, Len(qs) + 1)
<1>1. /\ Len(qs) \in Nat /\ a \in Seq(Sound) /\ Len(a) = Len(qs) + 1
      /\ \A q \in 1 .. Len(qs) : a[q] = qs[q]
    BY Created, LenProperties
<1>2. Len(qs) + 1 \in 1 .. Len(a)
    BY <1>1
<1> HIDE DEF a
<1>3. /\ Handle(a, Delete(Len(qs) + 1)) = b /\ b \in Seq(Sound) /\ Len(b) = Len(a) - 1
      /\ \A j \in 1 .. Len(a) - 1 : b[j] = IF j < Len(qs) + 1 THEN a[j] ELSE a[j + 1]
    BY <1>1, <1>2, Deleted
<1> HIDE DEF b
<1>4. Len(b) = Len(qs) /\ \A j \in 1 .. Len(qs) : b[j] = qs[j]
    BY <1>1, <1>3
<1>5. b = qs
    BY <1>3, <1>4, SeqEqual
<1> QED
    BY <1>3, <1>5 DEF a

LEMMA HandledOne ==
    ASSUME NEW qs \in Seq(Sound), NEW op \in Op
    PROVE  Handled(qs, <<op>>) = Handle(qs, op)
<1> DEFINE ops == <<op>>
<1>1. ops \in Seq(Op) /\ Len(ops) = 1 /\ ops[1] = op
    OBVIOUS
<1> HIDE DEF ops
<1>2. PICK h \in [0 .. Len(ops) -> Seq(Sound)] :
         /\ h[0] = qs
         /\ \A k \in 1 .. Len(ops) : h[k] = Handle(h[k - 1], ops[k])
         /\ Handled(qs, ops) = h[Len(ops)]
    BY <1>1, HandledSteps
<1>3. h[1] = Handle(h[1 - 1], op) /\ 1 - 1 = 0
    BY <1>1, <1>2
<1> QED
    BY <1>1, <1>2, <1>3 DEF ops

LEMMA HandledThree ==
    ASSUME NEW qs \in Seq(Sound), NEW a \in Op, NEW b \in Op, NEW c \in Op
    PROVE  Handled(qs, <<a, b, c>>) = Handle(Handle(Handle(qs, a), b), c)
<1> DEFINE ops == <<a, b, c>>
<1>1. ops \in Seq(Op) /\ Len(ops) = 3 /\ ops[1] = a /\ ops[2] = b /\ ops[3] = c
    OBVIOUS
<1> HIDE DEF ops
<1>2. PICK h \in [0 .. Len(ops) -> Seq(Sound)] :
         /\ h[0] = qs
         /\ \A k \in 1 .. Len(ops) : h[k] = Handle(h[k - 1], ops[k])
         /\ Handled(qs, ops) = h[Len(ops)]
    BY <1>1, HandledSteps
<1>3. /\ h[1] = Handle(h[1 - 1], a) /\ 1 - 1 = 0
      /\ h[2] = Handle(h[2 - 1], b) /\ 2 - 1 = 1
      /\ h[3] = Handle(h[3 - 1], c) /\ 3 - 1 = 2
    BY <1>1, <1>2
<1> QED
    BY <1>1, <1>2, <1>3 DEF ops

-----------------------------------------------------------------------------
(* A request made when the quads were d: the history can take it back, and *)
(* exactly so if it moved points.                                          *)
Reverses(c, d) ==
    /\ c.op = c.sent /\ Possible(d, c.sent)
    /\ c.tracked =>
         \/ \E quad \in Sound :
               c.sent = Create(quad) /\ c.by = "create" /\ c.reverse = Delete(Len(d) + 1)
         \/ \E q \in 1 .. Len(d), quad, before \in Sound :
               /\ c.sent = Edit(q, quad) /\ c.reverse = Edit(q, before) /\ c.by # "create"
               /\ c.by = "points" => before = d[q] /\ quad.env = d[q].env

(* What may cross a request: no deletion, and an edit that leaves the      *)
(* envelope alone.                                                         *)
Crossing(op, d) ==
    \/ \E quad \in Sound : op = Create(quad)
    \/ \E q \in 1 .. Len(d), quad \in Sound : op = Edit(q, quad) /\ quad.env = d[q].env

LEMMA CrossedCreate ==
    ASSUME NEW d \in Seq(Sound), NEW op, Crossing(op, d), NEW quad \in Sound
    PROVE  /\ Stored(d, op) \in Seq(Sound)
           /\ Handle(Handle(Append(d, quad), Delete(Len(d) + 1)), op) = Stored(d, op)
<1>1. Handle(Append(d, quad), Delete(Len(d) + 1)) = d
    BY Shortened
<1>2. CASE \E x \in Sound : op = Create(x)
    <2>1. PICK x \in Sound : op = Create(x)
        BY <1>2
    <2>2. Handle(d, op) = Append(d, x) /\ Stored(d, op) = Append(d, x) /\ Append(d, x) \in Seq(Sound)
        BY <2>1, Created
    <2> QED
        BY <1>1, <2>2
<1>3. CASE \E q \in 1 .. Len(d), x \in Sound : op = Edit(q, x) /\ x.env = d[q].env
    <2>1. PICK q \in 1 .. Len(d), x \in Sound : op = Edit(q, x) /\ x.env = d[q].env
        BY <1>3
    <2>2. Handle(d, op) = Put(d, q, x) /\ Stored(d, op) = Put(d, q, x)
        BY <2>1, Edited
    <2>3. Put(d, q, x) \in Seq(Sound)
        BY PutAt
    <2> QED
        BY <1>1, <2>2, <2>3
<1> QED
    BY <1>2, <1>3 DEF Crossing

(* The edit of a quad that is taken back and made again around another     *)
(* user's operation is made on top of it.                                  *)
LEMMA CrossedEdit ==
    ASSUME NEW d \in Seq(Sound), NEW op, Crossing(op, d),
           NEW q \in 1 .. Len(d), NEW quad \in Sound, NEW before \in Sound
    PROVE  /\ q \in 1 .. Len(Stored(d, op)) /\ Stored(d, op) \in Seq(Sound)
           /\ Handle(Handle(Handle(Put(d, q, quad), Edit(q, before)), op), Edit(q, quad))
                = Put(Stored(d, op), q, quad)
<1> DEFINE e == Put(d, q, quad)
           mid == WithEnv(before, quad.env)
           f == Put(d, q, mid)
<1>1. Len(d) \in Nat /\ \A j \in 1 .. Len(d) : d[j] \in Sound
    BY ElementOfSeq, LenProperties
<1>2. e \in Seq(Sound) /\ Len(e) = Len(d) /\ e[q] = quad
    BY PutAt
<1>3. mid \in Sound /\ mid.env = quad.env
    <2>1. quad.env \in {NoEnv, Env}
        BY EnvOf
    <2> QED
        BY <2>1, EnvOf
<1>4. Handle(e, Edit(q, before)) = f
    <2>1. q \in 1 .. Len(e)
        BY <1>2
    <2> HIDE DEF e
    <2>2. Handle(e, Edit(q, before)) = Put(e, q, WithEnv(before, e[q].env))
        BY <1>2, <2>1, Edited
    <2>3. Handle(e, Edit(q, before)) = Put(e, q, mid)
        BY <1>2, <2>2
    <2> HIDE DEF mid
    <2>4. Put(Put(d, q, quad), q, mid) = Put(d, q, mid)
        BY <1>3, PutTwice
    <2> QED
        BY <2>3, <2>4 DEF e
<1> HIDE DEF mid
<1>5. /\ f \in Seq(Sound) /\ Len(f) = Len(d) /\ f[q].env = quad.env
      /\ \A j \in 1 .. Len(d) : j # q => f[j] = d[j]
    <2>1. mid \in Sound
        BY <1>3
    <2>2. IsPut(f, d, q, mid)
        BY <2>1, PutIsPut
    <2>3. f \in Seq(Sound) /\ Len(f) = Len(d) /\ f[q] = mid /\ \A j \in 1 .. Len(d) : j # q => f[j] = d[j]
        BY <2>2 DEF IsPut
    <2> HIDE DEF f
    <2> QED
        BY <1>3, <2>3
<1>6. Put(f, q, quad) = Put(d, q, quad)
    BY <1>3, PutTwice
<1>7. CASE \E x \in Sound : op = Create(x)
    <2>1. PICK x \in Sound : op = Create(x)
        BY <1>7
    <2> HIDE DEF f
    <2> DEFINE g == Append(f, x)
    <2>2. /\ Handle(f, op) = g /\ g \in Seq(Sound) /\ Len(g) = Len(f) + 1
          /\ \A j \in 1 .. Len(f) : g[j] = f[j]
        BY <1>5, <2>1, Created
    <2>3. /\ Stored(d, op) = Append(d, x) /\ Append(d, x) \in Seq(Sound)
          /\ Len(Append(d, x)) = Len(d) + 1
        BY <2>1, Created
    <2>4. q \in 1 .. Len(g) /\ q \in 1 .. Len(f) /\ g[q].env = quad.env
          /\ q \in 1 .. Len(Append(d, x))
        BY <1>1, <1>5, <2>2, <2>3
    <2>5. Handle(g, Edit(q, quad)) = Put(g, q, quad)
        <3> HIDE DEF g
        <3> QED
            BY <2>2, <2>4, Edited
    <2>6. Put(g, q, quad) = Append(Put(f, q, quad), x)
        BY <1>5, <2>4, PutBefore
    <2>7. Put(Append(d, x), q, quad) = Append(Put(d, q, quad), x)
        BY PutBefore
    <2> QED
        BY <1>4, <1>6, <2>2, <2>3, <2>4, <2>5, <2>6, <2>7
<1>8. CASE \E p \in 1 .. Len(d), x \in Sound : op = Edit(p, x) /\ x.env = d[p].env
    <2>1. PICK p \in 1 .. Len(d), x \in Sound : op = Edit(p, x) /\ x.env = d[p].env
        BY <1>8
    <2>2. Stored(d, op) = Put(d, p, x)
        BY <2>1, Edited
    <2>3. Put(d, p, x) \in Seq(Sound) /\ Len(Put(d, p, x)) = Len(d)
        BY PutAt
    <2>4. p \in 1 .. Len(f) /\ f[p].env \in {NoEnv, Env}
        <3>1. p \in 1 .. Len(f)
            BY <1>5
        <3>2. f[p] \in Sound
            BY <1>5, <3>1, ElementOfSeq
        <3> QED
            BY <3>1, <3>2, EnvOf
    <2> DEFINE y == WithEnv(x, f[p].env)
    <2>5. y \in Sound /\ y.env = f[p].env /\ (x.env = f[p].env => y = x)
        BY <2>4, EnvOf
    <2> HIDE DEF f
    <2>6. Handle(f, op) = Put(f, p, y)
        BY <1>5, <2>1, <2>4, Edited
    <2> HIDE DEF y
    <2>7. /\ Put(f, p, y) \in Seq(Sound) /\ Len(Put(f, p, y)) = Len(f)
          /\ Put(f, p, y)[p] = y /\ \A j \in 1 .. Len(f) : j # p => Put(f, p, y)[j] = f[j]
        <3> DEFINE g == Put(f, p, y)
        <3>1. f \in Seq(Sound) /\ p \in 1 .. Len(f) /\ y \in Sound
            BY <1>5, <2>4, <2>5
        <3>2. IsPut(g, f, p, y)
            BY <3>1, PutIsPut
        <3> HIDE DEF g
        <3>3. /\ g \in Seq(Sound) /\ Len(g) = Len(f) /\ g[p] = y
              /\ \A j \in 1 .. Len(f) : j # p => g[j] = f[j]
            BY <3>2 DEF IsPut
        <3> QED
            BY <3>3 DEF g
    <2>8. q \in 1 .. Len(Put(f, p, y)) /\ Put(f, p, y)[q].env = quad.env
        BY <1>5, <2>5, <2>7
    <2>9. Handle(Put(f, p, y), Edit(q, quad)) = Put(Put(f, p, y), q, quad)
        <3> DEFINE g == Put(f, p, y)
        <3>1. g \in Seq(Sound) /\ q \in 1 .. Len(g) /\ g[q].env = quad.env
            BY <2>7, <2>8
        <3> HIDE DEF g
        <3>2. Handle(g, Edit(q, quad)) = Put(g, q, quad)
            BY <3>1, Edited
        <3> QED
            BY <3>2 DEF g
    <2>10. Put(Put(f, p, y), q, quad) = Put(Put(d, p, x), q, quad)
        <3>1. CASE p = q
            <4>1. Put(Put(f, q, y), q, quad) = Put(f, q, quad)
                BY <1>5, <2>4, <2>5, <3>1, PutTwice
            <4>2. Put(Put(d, q, x), q, quad) = Put(d, q, quad)
                BY PutTwice
            <4> QED
                BY <1>6, <3>1, <4>1, <4>2
        <3>2. CASE p # q
            <4>1. y = x
                BY <1>5, <2>1, <2>5, <3>2
            <4>2. Put(Put(f, p, x), q, quad) = Put(Put(f, q, quad), p, x)
                <5>1. q \in 1 .. Len(f)
                    BY <1>5
                <5> QED
                    BY <1>5, <2>4, <3>2, <5>1, PutApart
            <4>3. Put(Put(d, p, x), q, quad) = Put(Put(d, q, quad), p, x)
                BY <3>2, PutApart
            <4> QED
                BY <1>6, <4>1, <4>2, <4>3
        <3> QED
            BY <3>1, <3>2
    <2> QED
        BY <1>4, <2>2, <2>3, <2>6, <2>9, <2>10
<1> QED
    BY <1>7, <1>8 DEF Crossing

(* A refused move of points, or a refused creation, is taken back; a quad   *)
(* that is held meanwhile is another one.                                  *)
Exact(c, d) == c.tracked /\ c.by \in {"points", "create"} /\ Reverses(c, d)
Apart(c, d, qs, h, w) ==
    /\ Put(qs, h, w) = Stored(d, c.sent)
    /\ h # (IF c.sent.kind = "create" THEN Len(qs) ELSE c.sent.q)

LEMMA TakenBack ==
    ASSUME NEW d \in Seq(Sound), NEW c, Exact(c, d),
           NEW qs \in Seq(Sound), NEW h \in 1 .. Len(qs), NEW w \in Sound, Apart(c, d, qs, h, w)
    PROVE  /\ h \in 1 .. Len(Handle(qs, c.reverse))
           /\ Handle(qs, c.reverse) \in Seq(Sound)
           /\ Put(Handle(qs, c.reverse), h, w) = d
           /\ Handle(qs, c.reverse)[h] = qs[h] /\ Len(Handle(qs, c.reverse)) <= Len(qs)
<1> DEFINE b == Put(qs, h, w)
           n == Len(d)
<1>0. n \in Nat /\ Len(qs) \in Nat /\ \A j \in 1 .. n : d[j] \in Sound
    BY ElementOfSeq, LenProperties
<1>1. /\ b \in Seq(Sound) /\ Len(b) = Len(qs)
      /\ b[h] = w /\ \A j \in 1 .. Len(qs) : j # h => b[j] = qs[j]
    BY PutAt
<1>2. CASE \E quad \in Sound : c.sent = Create(quad) /\ c.by = "create" /\ c.reverse = Delete(Len(d) + 1)
    <2>1. PICK quad \in Sound : c.sent = Create(quad) /\ c.reverse = Delete(Len(d) + 1)
        BY <1>2
    <2>2. b = Append(d, quad)
        BY <2>1, Created DEF Apart
    <2>3. /\ Len(Append(d, quad)) = n + 1 /\ \A j \in 1 .. n : Append(d, quad)[j] = d[j]
        BY Created
    <2>4. Len(qs) = n + 1 /\ h \in 1 .. n
        <3>1. Len(qs) = n + 1
            BY <1>1, <2>2, <2>3
        <3>2. c.sent.kind = "create"
            BY <2>1 DEF Create
        <3>3. h # n + 1 /\ h \in 1 .. n + 1
            BY <3>1, <3>2 DEF Apart
        <3> QED
            BY <1>0, <3>1, <3>3
    <2> DEFINE r == RemoveAt(qs, n + 1)
    <2>5. /\ Handle(qs, c.reverse) = r /\ r \in Seq(Sound) /\ Len(r) = n
          /\ \A j \in 1 .. n : r[j] = qs[j]
        <3>1. n + 1 \in 1 .. Len(qs)
            BY <1>0, <2>4
        <3>2. /\ Handle(qs, Delete(n + 1)) = r /\ r \in Seq(Sound) /\ Len(r) = Len(qs) - 1
              /\ \A j \in 1 .. Len(qs) - 1 : r[j] = IF j < n + 1 THEN qs[j] ELSE qs[j + 1]
            BY <3>1, Deleted
        <3> HIDE DEF r
        <3>3. Len(qs) - 1 = n /\ \A j \in 1 .. n : j < n + 1
            BY <1>0, <2>4
        <3> QED
            BY <2>1, <3>2, <3>3
    <2> HIDE DEF r, b
    <2> DEFINE p == Put(r, h, w)
    <2>6. /\ p \in Seq(Sound) /\ Len(p) = Len(r)
          /\ p[h] = w /\ \A j \in 1 .. Len(r) : j # h => p[j] = r[j]
        <3>1. h \in 1 .. Len(r) /\ r \in Seq(Sound)
            BY <2>4, <2>5
        <3> QED
            BY <3>1, PutAt
    <2> HIDE DEF p
    <2>7. ASSUME NEW j \in 1 .. n PROVE p[j] = d[j]
        <3>1. j \in 1 .. Len(qs) /\ b[j] = d[j]
            BY <1>0, <2>2, <2>3, <2>4
        <3> QED
            BY <1>1, <2>5, <2>6, <3>1
    <2>8. p = d
        BY <2>5, <2>6, <2>7, SeqEqual
    <2>9. r[h] = qs[h] /\ Len(r) <= Len(qs)
        BY <1>0, <2>4, <2>5
    <2> QED
        BY <2>4, <2>5, <2>8, <2>9 DEF p
<1>3. CASE \E q \in 1 .. Len(d), quad \in Sound, before \in Sound :
              /\ c.sent = Edit(q, quad) /\ c.reverse = Edit(q, before) /\ c.by # "create"
              /\ c.by = "points" => before = d[q] /\ quad.env = d[q].env
    <2>1. PICK q \in 1 .. Len(d), quad \in Sound :
             c.sent = Edit(q, quad) /\ c.reverse = Edit(q, d[q]) /\ quad.env = d[q].env
        BY <1>3 DEF Exact
    <2>2. b = Put(d, q, quad)
        BY <2>1, Edited DEF Apart
    <2>3. Len(Put(d, q, quad)) = n /\ Put(d, q, quad)[q] = quad
        BY PutAt
    <2>4. h # q /\ Len(qs) = n /\ q \in 1 .. Len(qs) /\ qs[q] = quad
        <3>1. c.sent.kind = "edit" /\ c.sent.q = q
            BY <2>1 DEF Edit
        <3>3. h # q
            BY <3>1 DEF Apart
        <3>2. Len(qs) = n /\ b[q] = quad
            BY <1>1, <2>2, <2>3
        <3> HIDE DEF b
        <3> QED
            BY <1>1, <3>2, <3>3
    <2>5. Handle(qs, c.reverse) = Put(qs, q, d[q])
        <3>1. d[q] \in Sound /\ d[q].env = qs[q].env
            BY <1>0, <2>1, <2>4
        <3>2. Handle(qs, Edit(q, d[q])) = Put(qs, q, d[q])
            BY <2>4, <3>1, Edited
        <3> QED
            BY <2>1, <3>2
    <2>6. /\ Put(qs, q, d[q]) \in Seq(Sound) /\ Len(Put(qs, q, d[q])) = n
          /\ Put(qs, q, d[q])[h] = qs[h]
        <3> DEFINE x == d[q]
        <3>1. x \in Sound
            BY <1>0
        <3> HIDE DEF x
        <3>2. /\ Put(qs, q, x) \in Seq(Sound) /\ Len(Put(qs, q, x)) = Len(qs)
              /\ Put(qs, q, x)[h] = qs[h]
            BY <2>4, <3>1, PutAt
        <3> QED
            BY <2>4, <3>2 DEF x
    <2>7. Put(Put(qs, q, d[q]), h, w) = Put(Put(qs, h, w), q, d[q])
        <3>1. d[q] \in Sound
            BY <1>0
        <3> QED
            BY <2>4, <3>1, PutApart
    <2>8. Put(Put(d, q, quad), q, d[q]) = Put(d, q, d[q])
        <3>1. d[q] \in Sound
            BY <1>0
        <3> QED
            BY <3>1, PutTwice
    <2>9. Put(d, q, d[q]) = d
        BY DEF Put
    <2>10. n <= Len(qs)
        BY <1>0, <2>4
    <2> QED
        BY <2>2, <2>4, <2>5, <2>6, <2>7, <2>8, <2>9, <2>10
<1> QED
    BY <1>2, <1>3 DEF Exact, Reverses

LEMMA TakenBackWhole ==
    ASSUME NEW d \in Seq(Sound), NEW c, Exact(c, d)
    PROVE  Handle(Stored(d, c.sent), c.reverse) = d /\ Len(d) <= Len(Stored(d, c.sent))
<1>1. CASE \E quad \in Sound : c.sent = Create(quad) /\ c.by = "create" /\ c.reverse = Delete(Len(d) + 1)
    <2>1. PICK quad \in Sound : c.sent = Create(quad) /\ c.reverse = Delete(Len(d) + 1)
        BY <1>1
    <2>2. Stored(d, c.sent) = Append(d, quad)
        BY <2>1, Created
    <2>3. Len(Append(d, quad)) = Len(d) + 1 /\ Len(d) \in Nat
        BY Created, LenProperties
    <2> QED
        BY <2>1, <2>2, <2>3, Shortened
<1>2. CASE \E q \in 1 .. Len(d), quad \in Sound, before \in Sound :
              /\ c.sent = Edit(q, quad) /\ c.reverse = Edit(q, before) /\ c.by # "create"
              /\ c.by = "points" => before = d[q] /\ quad.env = d[q].env
    <2>1. PICK q \in 1 .. Len(d), quad \in Sound :
             c.sent = Edit(q, quad) /\ c.reverse = Edit(q, d[q]) /\ quad.env = d[q].env
        BY <1>2 DEF Exact
    <2>2. Stored(d, c.sent) = Put(d, q, quad) /\ d[q] \in Sound
        BY <2>1, Edited
    <2> DEFINE e == Put(d, q, quad)
    <2>3. e \in Seq(Sound) /\ q \in 1 .. Len(e) /\ e[q] = quad /\ Len(d) <= Len(e)
        <3>1. e \in Seq(Sound) /\ Len(e) = Len(d) /\ e[q] = quad
            BY PutAt
        <3>2. Len(d) \in Nat
            BY LenProperties
        <3> HIDE DEF e
        <3> QED
            BY <3>1, <3>2
    <2> HIDE DEF e
    <2>4. Handle(e, Edit(q, d[q])) = Put(e, q, d[q])
        BY <2>1, <2>2, <2>3, Edited
    <2>5. Put(Put(d, q, quad), q, d[q]) = Put(d, q, d[q])
        BY <2>2, PutTwice
    <2>6. Put(d, q, d[q]) = d
        BY DEF Put
    <2> QED
        BY <2>1, <2>2, <2>3, <2>4, <2>5, <2>6 DEF e
<1> QED
    BY <1>1, <1>2 DEF Exact, Reverses

(* A tracked request that another user's operation crosses is taken back   *)
(* and made again on top of it.                                            *)
LEMMA Crossed ==
    ASSUME NEW d \in Seq(Sound), NEW c, c.tracked, Reverses(c, d), NEW op, Crossing(op, d)
    PROVE  /\ Stored(d, op) \in Seq(Sound) /\ Possible(Stored(d, op), c.sent)
           /\ Handle(Handle(Handle(Stored(d, c.sent), c.reverse), op), c.op)
                = Stored(Stored(d, op), c.sent)
<1>1. CASE \E quad \in Sound : c.sent = Create(quad) /\ c.by = "create" /\ c.reverse = Delete(Len(d) + 1)
    <2>1. PICK quad \in Sound : c.sent = Create(quad) /\ c.reverse = Delete(Len(d) + 1)
        BY <1>1
    <2>2. Stored(d, c.sent) = Append(d, quad)
        BY <2>1, Created
    <2>3. /\ Stored(d, op) \in Seq(Sound)
          /\ Handle(Handle(Append(d, quad), Delete(Len(d) + 1)), op) = Stored(d, op)
        BY CrossedCreate
    <2> DEFINE s == Stored(d, op)
    <2> HIDE DEF s
    <2>4. Possible(s, Create(quad)) /\ Handle(s, Create(quad)) = Stored(s, Create(quad))
        BY <2>3, Created DEF s
    <2> QED
        BY <2>1, <2>2, <2>3, <2>4 DEF s, Reverses
<1>2. CASE \E q \in 1 .. Len(d), quad \in Sound, before \in Sound :
              /\ c.sent = Edit(q, quad) /\ c.reverse = Edit(q, before) /\ c.by # "create"
              /\ c.by = "points" => before = d[q] /\ quad.env = d[q].env
    <2>1. PICK q \in 1 .. Len(d), quad \in Sound, before \in Sound :
             c.sent = Edit(q, quad) /\ c.reverse = Edit(q, before)
        BY <1>2
    <2>2. Stored(d, c.sent) = Put(d, q, quad)
        BY <2>1, Edited
    <2>3. /\ q \in 1 .. Len(Stored(d, op)) /\ Stored(d, op) \in Seq(Sound)
          /\ Handle(Handle(Handle(Put(d, q, quad), Edit(q, before)), op), Edit(q, quad))
                = Put(Stored(d, op), q, quad)
        BY CrossedEdit
    <2> DEFINE s == Stored(d, op)
    <2> HIDE DEF s
    <2>4. Possible(s, Edit(q, quad)) /\ Stored(s, Edit(q, quad)) = Put(s, q, quad)
        BY <2>3, Edited DEF s
    <2> QED
        BY <2>1, <2>2, <2>3, <2>4 DEF s, Reverses
<1> QED
    BY <1>1, <1>2 DEF Reverses

-----------------------------------------------------------------------------
(* The requests on their way lead from the server's quads to the client's, *)
(* one by one, each possible when its turn comes.                          *)
IsChain(s, d, cs, b) ==
    /\ s \in [0 .. Len(cs) -> Seq(Sound)] /\ s[0] = d /\ s[Len(cs)] = b
    /\ \A k \in 1 .. Len(cs) :
          Reverses(cs[k], s[k - 1]) /\ s[k] = Stored(s[k - 1], cs[k].sent)
Leads(d, cs, b) == \E s : IsChain(s, d, cs, b)

LEMMA LeadsNone ==
    ASSUME NEW d \in Seq(Sound)
    PROVE  Leads(d, <<>>, d)
<1> DEFINE s == [k \in 0 .. 0 |-> d]
<1>1. Len(<<>>) = 0 /\ s \in [0 .. 0 -> Seq(Sound)] /\ s[0] = d /\ 1 .. 0 = {}
    OBVIOUS
<1> HIDE DEF s
<1>2. IsChain(s, d, <<>>, d)
    BY <1>1 DEF IsChain
<1> QED
    BY <1>2 DEF Leads

LEMMA LeadsEnds ==
    ASSUME NEW cs \in Seq(CallType), NEW d, NEW b, Leads(d, cs, b)
    PROVE  /\ d \in Seq(Sound) /\ b \in Seq(Sound)
           /\ cs = <<>> => b = d
<1>1. PICK s : IsChain(s, d, cs, b)
    BY DEF Leads
<1>2. Len(cs) \in Nat /\ (cs = <<>> => Len(cs) = 0)
    BY LenProperties
<1>3. s \in [0 .. Len(cs) -> Seq(Sound)] /\ s[0] = d /\ s[Len(cs)] = b
    BY <1>1 DEF IsChain
<1> QED
    BY <1>2, <1>3

LEMMA LeadsMore ==
    ASSUME NEW cs \in Seq(CallType), NEW d, NEW b, Leads(d, cs, b),
           NEW c \in CallType, Reverses(c, b)
    PROVE  Leads(d, Append(cs, c), Stored(b, c.sent))
<1> DEFINE n == Len(cs)
           e == Stored(b, c.sent)
           a == Append(cs, c)
<1>1. PICK s : IsChain(s, d, cs, b)
    BY DEF Leads
<1>2. /\ s \in [0 .. n -> Seq(Sound)] /\ s[0] = d /\ s[n] = b
      /\ \A k \in 1 .. n : Reverses(cs[k], s[k - 1]) /\ s[k] = Stored(s[k - 1], cs[k].sent)
    BY <1>1 DEF IsChain
<1>3. /\ a \in Seq(CallType) /\ Len(a) = n + 1 /\ n \in Nat
      /\ \A k \in 1 .. n : a[k] = cs[k]
      /\ a[n + 1] = c
    BY AppendProperties, LenProperties
<1>4. e \in Seq(Sound)
    <2>1. b \in Seq(Sound) /\ c.sent \in Op /\ Possible(b, c.sent)
        BY LeadsEnds DEF CallType, Reverses
    <2> QED
        BY <2>1, StoredTyped
<1> HIDE DEF n, e, a
<1> DEFINE t == [k \in 0 .. n + 1 |-> IF k = n + 1 THEN e ELSE s[k]]
<1>5. /\ t \in [0 .. n + 1 -> Seq(Sound)]
      /\ \A k \in 0 .. n : t[k] = s[k]
      /\ t[n + 1] = e
    BY <1>2, <1>3, <1>4
<1> HIDE DEF t
<1>6. ASSUME NEW k \in 1 .. n + 1
      PROVE  Reverses(a[k], t[k - 1]) /\ t[k] = Stored(t[k - 1], a[k].sent)
    <2>1. CASE k = n + 1
        <3>1. t[k - 1] = b /\ a[k] = c /\ t[k] = e
            BY <1>2, <1>3, <1>5, <2>1
        <3> QED
            BY <3>1 DEF e
    <2>2. CASE k # n + 1
        <3>1. k \in 1 .. n /\ k \in 0 .. n /\ k - 1 \in 0 .. n
            BY <1>3, <2>2
        <3> QED
            BY <1>2, <1>3, <1>5, <3>1
    <2> QED
        BY <2>1, <2>2
<1>7. t[0] = d
    BY <1>2, <1>3, <1>5
<1>8. IsChain(t, d, a, e)
    BY <1>3, <1>5, <1>6, <1>7 DEF IsChain
<1> QED
    BY <1>8 DEF Leads, a, e

LEMMA LeadsOn ==
    ASSUME NEW cs \in Seq(CallType), cs # <<>>, NEW d, NEW b, Leads(d, cs, b)
    PROVE  /\ Reverses(cs[1], d) /\ Head(cs) = cs[1] /\ cs[1] \in CallType
           /\ Tail(cs) \in Seq(CallType)
           /\ Leads(Stored(d, cs[1].sent), Tail(cs), b)
           /\ Len(cs) = 1 => b = Stored(d, cs[1].sent)
<1> DEFINE n == Len(cs)
           a == Tail(cs)
<1>1. PICK s : IsChain(s, d, cs, b)
    BY DEF Leads
<1>2. /\ s \in [0 .. n -> Seq(Sound)] /\ s[0] = d /\ s[n] = b
      /\ \A k \in 1 .. n : Reverses(cs[k], s[k - 1]) /\ s[k] = Stored(s[k - 1], cs[k].sent)
    BY <1>1 DEF IsChain
<1>3. /\ a \in Seq(CallType) /\ Len(a) = n - 1 /\ n \in Nat \ {0}
      /\ \A k \in 1 .. n - 1 : a[k] = cs[k + 1]
      /\ Head(cs) = cs[1] /\ cs[1] \in CallType
    BY HeadTailProperties, ElementOfSeq, LenProperties, EmptySeq
<1> HIDE DEF n, a
<1> DEFINE t == [k \in 0 .. n - 1 |-> s[k + 1]]
<1>4. t \in [0 .. n - 1 -> Seq(Sound)] /\ \A k \in 0 .. n - 1 : t[k] = s[k + 1]
    BY <1>2, <1>3
<1> HIDE DEF t
<1>5. Reverses(cs[1], d) /\ s[1] = Stored(d, cs[1].sent)
    <2>1. 1 \in 1 .. n /\ 1 - 1 = 0
        BY <1>3
    <2> QED
        BY <1>2, <2>1
<1>6. ASSUME NEW k \in 1 .. n - 1
      PROVE  Reverses(a[k], t[k - 1]) /\ t[k] = Stored(t[k - 1], a[k].sent)
    <2>1. /\ k + 1 \in 1 .. n /\ (k + 1) - 1 = k /\ k - 1 \in 0 .. n - 1 /\ k \in 0 .. n - 1
          /\ (k - 1) + 1 = k
        BY <1>3
    <2>2. t[k - 1] = s[k] /\ t[k] = s[k + 1] /\ a[k] = cs[k + 1]
        BY <1>3, <1>4, <2>1
    <2> QED
        BY <1>2, <2>1, <2>2
<1>7. t[0] = s[1] /\ t[n - 1] = b
    <2>1. 0 \in 0 .. n - 1 /\ n - 1 \in 0 .. n - 1 /\ (n - 1) + 1 = n /\ 0 + 1 = 1
        BY <1>3
    <2> QED
        BY <1>2, <1>4, <2>1
<1>8. IsChain(t, s[1], a, b)
    BY <1>3, <1>4, <1>6, <1>7 DEF IsChain
<1>9. n = 1 => b = Stored(d, cs[1].sent)
    BY <1>2, <1>5
<1> QED
    BY <1>3, <1>5, <1>8, <1>9 DEF Leads, a, n

-----------------------------------------------------------------------------
(* Dragging: what rounding leaves of a move along the normal of an edge.  *)

LEMMA Grow ==
    ASSUME NEW x \in Nat, NEW y \in Nat, NEW z \in Nat, x <= y
    PROVE  x * z <= y * z
<1>1. y - x \in Nat /\ y = x + (y - x)
    OBVIOUS
<1> DEFINE d == y - x
<1> HIDE DEF d
<1>2. d \in Nat /\ y = x + d
    BY <1>1 DEF d
<1>3. y * z = x * z + d * z /\ d * z \in Nat /\ x * z \in Nat
    BY <1>2
<1> QED
    BY <1>3

LEMMA Bounded ==
    ASSUME NEW a \in Int, NEW S \in Nat, NEW r \in 0 .. S
    PROVE  /\ a * a \in Nat /\ S * (a * a) \in Nat /\ a * r \in Int
           /\ a * r <= S * (a * a) /\ - (S * (a * a)) <= a * r
<1>1. ASSUME NEW m \in Nat
      PROVE  m * r <= S * (m * m) /\ m * r \in Nat /\ m * m \in Nat /\ S * (m * m) \in Nat
    <2>1. m * r \in Nat /\ m * m \in Nat /\ S * m \in Nat /\ S * (m * m) \in Nat /\ r \in Nat /\ r <= S
        OBVIOUS
    <2>2. r * m <= S * m
        BY <2>1, Grow
    <2>3. m <= m * m
        OBVIOUS
    <2>4. m * S <= (m * m) * S
        BY <2>1, <2>3, Grow
    <2>5. r * m = m * r /\ m * S = S * m /\ (m * m) * S = S * (m * m)
        OBVIOUS
    <2> QED
        BY <2>1, <2>2, <2>4, <2>5
<1>2. CASE a >= 0
    <2>1. a \in Nat
        BY <1>2
    <2>2. a * r <= S * (a * a) /\ a * r \in Nat /\ a * a \in Nat /\ S * (a * a) \in Nat
        BY <1>1, <2>1
    <2> QED
        BY <2>2
<1>3. CASE a < 0
    <2> DEFINE m == -a
    <2>1. m \in Nat /\ m * m = a * a /\ a * r = -(m * r)
        BY <1>3
    <2>2. m * r <= S * (m * m) /\ m * r \in Nat /\ m * m \in Nat /\ S * (m * m) \in Nat
        BY <1>1, <2>1
    <2> HIDE DEF m
    <2> QED
        BY <2>1, <2>2
<1> QED
    BY <1>2, <1>3

LEMMA Divides ==
    ASSUME NEW x \in Int, NEW S \in Nat \ {0}
    PROVE  /\ x \div S \in Int
           /\ \E r \in 0 .. S : x = S * (x \div S) + r
<1>1. x \div S \in Int /\ x % S \in 0 .. S - 1 /\ x = S * (x \div S) + (x % S)
    OBVIOUS
<1>2. x % S \in 0 .. S
    BY <1>1
<1> QED
    BY <1>1, <1>2

(* An edge that is rounded along its normal leaves it by less than the     *)
(* square of the normal's length.                                          *)
LEMMA AlongNormal ==
    ASSUME NEW a \in Int, NEW b \in Int, a # 0 \/ b # 0, NEW D \in Int
    PROVE  LET S == (a * a) + (b * b)
               x == (a * D) \div S
               y == (b * D) \div S
           IN  /\ S \in Nat \ {0} /\ x \in Int /\ y \in Int
               /\ (x * b) - (y * a) \in (-S) .. S
<1> DEFINE A == a * a
           B == b * b
           S == A + B
           P == a * D
           Q == b * D
           x == P \div S
           y == Q \div S
<1>1. S \in Nat \ {0} /\ P \in Int /\ Q \in Int
    <2>1. \A c \in Int : c * c \in Nat /\ (c # 0 => c * c # 0)
        OBVIOUS
    <2>2. A \in Nat /\ B \in Nat /\ (A # 0 \/ B # 0)
        BY <2>1
    <2>3. P \in Int /\ Q \in Int
        OBVIOUS
    <2> HIDE DEF A, B
    <2> QED
        BY <2>2, <2>3
<1>2. PICK r \in 0 .. S : P = S * x + r
    <2> HIDE DEF S, P
    <2> QED
        BY <1>1, Divides
<1>3. PICK s \in 0 .. S : Q = S * y + s
    <2> HIDE DEF S, Q
    <2> QED
        BY <1>1, Divides
<1>4. x \in Int /\ y \in Int
    <2> HIDE DEF S, P, Q
    <2> QED
        BY <1>1, Divides
<1> HIDE DEF S, x, y
<1>5. /\ A \in Nat /\ S * A \in Nat /\ a * s \in Int
      /\ a * s <= S * A /\ - (S * A) <= a * s
    BY <1>1, Bounded
<1>6. /\ B \in Nat /\ S * B \in Nat /\ b * r \in Int
      /\ b * r <= S * B /\ - (S * B) <= b * r
    BY <1>1, Bounded
<1> DEFINE w == (x * b) - (y * a)
<1>7. S * w = a * s - b * r
    <2>1. P * b = Q * a
        OBVIOUS
    <2>2. (S * x + r) * b = (S * y + s) * a
        BY <1>2, <1>3, <2>1
    <2>3. S \in Int /\ r \in Int /\ s \in Int
        BY <1>1
    <2> HIDE DEF P, Q
    <2>4. (S * x + r) * b = S * (x * b) + b * r
        BY <1>4, <2>3
    <2>5. (S * y + s) * a = S * (y * a) + a * s
        BY <1>4, <2>3
    <2>6. S * w = S * (x * b) - S * (y * a)
        BY <1>4, <2>3
    <2>7. S * (x * b) \in Int /\ S * (y * a) \in Int
        BY <1>4, <2>3
    <2> DEFINE j == S * (x * b)
               k == S * (y * a)
               l == a * s
               m == b * r
    <2>8. j \in Int /\ k \in Int /\ l \in Int /\ m \in Int
        BY <1>5, <1>6, <2>7
    <2>9. j + m = k + l /\ S * w = j - k
        BY <2>2, <2>4, <2>5, <2>6
    <2> HIDE DEF j, k, l, m
    <2>10. j - k = l - m
        BY <2>8, <2>9
    <2> QED
        BY <2>9, <2>10 DEF l, m
<1>8. S * S = S * A + S * B
    BY <1>5, <1>6 DEF S
<1>9. w \in Int
    BY <1>4
<1> HIDE DEF w, A, B
<1>10. S * w <= S * S /\ - (S * S) <= S * w
    BY <1>5, <1>6, <1>7, <1>8
<1>11. w <= S
    <2>1. SUFFICES ASSUME w > S PROVE FALSE
        BY <1>1, <1>9
    <2>2. S + 1 <= w /\ w \in Nat /\ S + 1 \in Nat /\ S \in Nat
        BY <1>1, <1>9, <2>1
    <2>3. (S + 1) * S <= w * S
        BY <2>2, Grow
    <2>4. (S + 1) * S = S * S + S /\ w * S = S * w /\ S * S \in Nat /\ S * w \in Int
        BY <2>2
    <2> DEFINE j == S * S
               k == S * w
    <2>5. j \in Nat /\ k \in Int /\ j + S <= k /\ k <= j
        BY <1>10, <2>3, <2>4
    <2> HIDE DEF j, k
    <2> QED
        BY <1>1, <2>5
<1>12. -S <= w
    <2> DEFINE z == -w
    <2>1. SUFFICES ASSUME z > S PROVE FALSE
        BY <1>1, <1>9
    <2>2. S + 1 <= z /\ z \in Nat /\ S + 1 \in Nat /\ S \in Nat
        BY <1>1, <1>9, <2>1
    <2>5. S * w = -(S * z)
        BY <1>9, <2>2
    <2> HIDE DEF z
    <2>3. (S + 1) * S <= z * S
        BY <2>2, Grow
    <2>4. (S + 1) * S = S * S + S /\ z * S = S * z /\ S * S \in Nat /\ S * z \in Nat
        BY <2>2
    <2> DEFINE j == S * S
               k == S * z
    <2>6. j \in Nat /\ k \in Nat /\ j + S <= k /\ - j <= - k
        BY <1>10, <2>3, <2>4, <2>5
    <2> HIDE DEF j, k
    <2> QED
        BY <1>1, <2>6
<1>13. w \in (-S) .. S
    BY <1>1, <1>9, <1>11, <1>12
<1> QED
    BY <1>1, <1>4, <1>13 DEF w, x, y, S, A, B

LEMMA Points ==
    /\ \A p \in Point : p.x \in Int /\ p.y \in Int /\ p = [x |-> p.x, y |-> p.y]
    /\ \A i, j \in Int : [x |-> i, y |-> j] \in Point
<1>1. ASSUME NEW p \in Point PROVE p.x \in Int /\ p.y \in Int /\ p = [x |-> p.x, y |-> p.y]
    BY DEF Point
<1>2. ASSUME NEW i \in Int, NEW j \in Int PROVE [x |-> i, y |-> j] \in Point
    BY DEF Point
<1> QED
    BY <1>1, <1>2

(* The points of a quad after a move, from what they were at its start. *)
Carried(start, grip, m) ==
    [p \in 1..5 |-> IF p \in Range(grip) THEN Plus(start[p], m) ELSE start[p]]
Along(start, grip, m) ==
    Len(grip) = 2 =>
        LET n == Normal(start, grip)
        IN  (m.x * n.y) - (m.y * n.x) \in (-Dot(n, n)) .. Dot(n, n)

LEMMA CarriedPoints ==
    ASSUME NEW start \in [1..5 -> Point], NEW grip \in Seq(1..5), NEW m \in Point
    PROVE  /\ Carried(start, grip, m) \in [1..5 -> Point]
           /\ Shifted(start, grip, LAMBDA p : Plus(p, m)) = Carried(start, grip, m)
           /\ Shifted(Carried(start, grip, m), grip, LAMBDA p : Minus(p, m)) = start
           /\ Carried(start, grip, Zero) = start
<1>1. ASSUME NEW p \in Point PROVE Plus(p, m) \in Point /\ Minus(Plus(p, m), m) = p
    <2>1. /\ p.x \in Int /\ p.y \in Int /\ m.x \in Int /\ m.y \in Int
          /\ p = [x |-> p.x, y |-> p.y]
        BY Points
    <2>2. Plus(p, m) \in Point
        <3>1. p.x + m.x \in Int /\ p.y + m.y \in Int
            BY <2>1
        <3> QED
            BY <3>1, Points DEF Plus
    <2>3. Minus(Plus(p, m), m) = [x |-> (p.x + m.x) - m.x, y |-> (p.y + m.y) - m.y]
        BY DEF Minus, Plus
    <2>4. (p.x + m.x) - m.x = p.x /\ (p.y + m.y) - m.y = p.y
        BY <2>1
    <2> QED
        BY <2>1, <2>2, <2>3, <2>4
<1>2. Carried(start, grip, m) \in [1..5 -> Point]
    BY <1>1 DEF Carried
<1>3. Shifted(start, grip, LAMBDA p : Plus(p, m)) = Carried(start, grip, m)
    BY DEF Shifted, Carried
<1> DEFINE c == Carried(start, grip, m)
           s == [p \in 1..5 |-> IF p \in Range(grip) THEN Minus(c[p], m) ELSE c[p]]
<1>4. Shifted(c, grip, LAMBDA p : Minus(p, m)) = s
    BY DEF Shifted
<1>5. \A p \in 1..5 : s[p] = start[p]
    BY <1>1 DEF Carried
<1>6. s = start
    BY <1>5
<1>7. Carried(start, grip, Zero) = start
    <2>1. ASSUME NEW p \in Point PROVE Plus(p, Zero) = p
        <3>1. p.x \in Int /\ p.y \in Int /\ p = [x |-> p.x, y |-> p.y]
            BY Points
        <3>2. p.x + 0 = p.x /\ p.y + 0 = p.y
            BY <3>1
        <3> QED
            BY <3>1, <3>2 DEF Plus, Zero
    <2> QED
        BY <2>1 DEF Carried
<1> QED
    BY <1>2, <1>3, <1>4, <1>6, <1>7

LEMMA NormalPoint ==
    ASSUME NEW start \in [1..5 -> Point], NEW grip \in Seq(1..5), Len(grip) = 2
    PROVE  Normal(start, grip) \in Point
<1> DEFINE u == start[grip[1]]
           v == start[grip[2]]
<1>1. grip[1] \in 1..5 /\ grip[2] \in 1..5
    <2>1. 1 \in 1 .. Len(grip) /\ 2 \in 1 .. Len(grip)
        OBVIOUS
    <2> QED
        BY <2>1, ElementOfSeq
<1>2. u.x \in Int /\ u.y \in Int /\ v.x \in Int /\ v.y \in Int
    BY <1>1, Points
<1>3. Normal(start, grip) = [x |-> u.y - v.y, y |-> v.x - u.x]
    BY DEF Normal
<1> HIDE DEF u, v
<1>4. u.y - v.y \in Int /\ v.x - u.x \in Int
    BY <1>2
<1> QED
    BY <1>3, <1>4, Points

LEMMA NotMoved ==
    ASSUME NEW start \in [1..5 -> Point], NEW grip \in Seq(1..5)
    PROVE  Along(start, grip, Zero)
<1>1. CASE Len(grip) # 2
    BY <1>1 DEF Along
<1>2. CASE Len(grip) = 2
    <2> DEFINE n == Normal(start, grip)
    <2>1. n.x \in Int /\ n.y \in Int
        BY <1>2, NormalPoint, Points
    <2> HIDE DEF n
    <2>2. Dot(n, n) \in Nat
        <3>1. \A c \in Int : c * c \in Nat
            OBVIOUS
        <3>2. n.x * n.x \in Nat /\ n.y * n.y \in Nat
            BY <2>1, <3>1
        <3> QED
            BY <3>2 DEF Dot
    <2>3. (0 * n.y) - (0 * n.x) = 0
        BY <2>1
    <2>4. (0 * n.y) - (0 * n.x) \in (-Dot(n, n)) .. Dot(n, n)
        BY <2>2, <2>3
    <2> QED
        BY <2>4 DEF Along, Zero, n
<1> QED
    BY <1>1, <1>2

LEMMA MovedAlong ==
    ASSUME NEW start \in [1..5 -> Point], NEW grip \in Seq(1..5), NEW d \in Point,
           Len(grip) = 2 => Normal(start, grip) # Zero
    PROVE  /\ Projected(start, grip, d) \in Point
           /\ Along(start, grip, Projected(start, grip, d))
<1>1. CASE Len(grip) # 2
    BY <1>1 DEF Projected, Along
<1>2. CASE Len(grip) = 2
    <2> DEFINE n == Normal(start, grip)
               a == n.x
               b == n.y
               D == Dot(d, n)
    <2>3. n \in Point
        BY <1>2, NormalPoint
    <2>4. n # Zero
        BY <1>2
    <2> HIDE DEF n
    <2>5. a \in Int /\ b \in Int /\ (a # 0 \/ b # 0)
        BY <2>3, <2>4, Points DEF Zero
    <2>6. D \in Int
        <3>1. d.x \in Int /\ d.y \in Int
            BY Points
        <3> QED
            BY <2>5, <3>1 DEF Dot
    <2>7. Dot(n, n) = (a * a) + (b * b)
        BY DEF Dot
    <2>8. Projected(start, grip, d) =
             [x |-> (a * D) \div ((a * a) + (b * b)), y |-> (b * D) \div ((a * a) + (b * b))]
        BY <1>2, <2>7 DEF Projected, n
    <2> HIDE DEF a, b, D
    <2> DEFINE S == (a * a) + (b * b)
               x == (a * D) \div S
               y == (b * D) \div S
    <2>9. x \in Int /\ y \in Int /\ (x * b) - (y * a) \in (-S) .. S
        BY <2>5, <2>6, AlongNormal
    <2> HIDE DEF x, y, S
    <2>10. Projected(start, grip, d) = [x |-> x, y |-> y]
        BY <2>8 DEF x, y, S
    <2>11. Along(start, grip, [x |-> x, y |-> y])
        BY <2>7, <2>9 DEF Along, n, a, b, S
    <2>12. [x |-> x, y |-> y] \in Point
        BY <2>9, Points
    <2> QED
        BY <2>10, <2>11, <2>12
<1> QED
    BY <1>1, <1>2

-----------------------------------------------------------------------------
(* The invariant *)

(* Nobody touches the quad that is held, requests are refused only where   *)
(* the reverse makes it good, the button is released inside the view, and  *)
(* no envelope is taken away.                                              *)
Tame == ~ Disturbed /\ ~ AnyRefusal /\ ~ Outside /\ ~ Unsets

Reshaped(quad, points) == [quad EXCEPT !.points = points]

HeldView == [mode : {"none", "drag", "menu"}, q : Nat,
             last : [kind : {"edit"}, q : Nat, quad : Sound], grip : Seq(1..5), moved : Point]

Dragging(v, quad) ==
    LET start == v.last.quad.points
    IN  /\ Len(v.grip) = 2 => Normal(start, v.grip) # Zero
        /\ quad = Reshaped(v.last.quad, Carried(start, v.grip, v.moved))
        /\ Along(start, v.grip, v.moved)

HoldOK(v, qs) ==
    /\ v.mode \in {"none", "drag", "menu"}
    /\ v.mode # "none" =>
         /\ v \in HeldView /\ v.q \in 1 .. Len(qs) /\ v.last = Edit(v.q, v.last.quad)
         /\ v.mode = "menu" => qs[v.q] = v.last.quad
         /\ v.mode = "drag" => Dragging(v, qs[v.q])

(* The client's quads, but for the move that is not sent yet. *)
Based(v, qs) == IF v.mode = "none" THEN qs ELSE Put(qs, v.q, v.last.quad)

Sorts ==
    /\ quads \in Seq(Sound) /\ Len(quads) <= MaxQuads
    /\ calls \in Seq(CallType)
    /\ now \in EnvPoints /\ drawn = InitBuffers(quads, now)

IInv ==
    /\ Sorts
    /\ HoldOK(view, quads)
    /\ Leads(doc, calls, Based(view, quads))

LEMMA ReshapedSound ==
    ASSUME NEW quad \in Sound, NEW points \in [1..5 -> Point]
    PROVE  /\ Reshaped(quad, points) \in Sound
           /\ Reshaped(quad, points).points = points
           /\ Reshaped(quad, points).env = quad.env
           /\ Reshaped(quad, points).colors = quad.colors
           /\ quad.points \in [1..5 -> Point]
           /\ Reshaped(quad, quad.points) = quad
BY DEF Reshaped, Sound

LEMMA HeldFacts ==
    ASSUME Sorts, HoldOK(view, quads), view.mode # "none"
    PROVE  /\ Held \in 1 .. Len(quads) /\ Held \in Nat /\ view \in HeldView
           /\ view.last.quad \in Sound /\ view.last = Edit(Held, view.last.quad)
           /\ quads[Held] \in Sound
           /\ quads[Held].env = view.last.quad.env
           /\ Based(view, quads) = Put(quads, Held, view.last.quad)
<1>1. /\ view \in HeldView /\ Held \in 1 .. Len(quads) /\ view.last = Edit(Held, view.last.quad)
      /\ view.mode = "menu" => quads[Held] = view.last.quad
      /\ view.mode = "drag" => Dragging(view, quads[Held])
      /\ view.mode \in {"drag", "menu"}
    BY DEF HoldOK, Held
<1>2. view.last.quad \in Sound /\ view.grip \in Seq(1..5) /\ view.moved \in Point
    BY <1>1 DEF HeldView
<1>3. quads[Held] \in Sound /\ Held \in Nat
    BY <1>1, ElementOfSeq, LenProperties DEF Sorts
<1>4. quads[Held].env = view.last.quad.env
    <2>1. CASE view.mode = "menu"
        BY <1>1, <2>1
    <2>2. CASE view.mode = "drag"
        <3>1. quads[Held] = Reshaped(view.last.quad, Carried(view.last.quad.points, view.grip, view.moved))
            BY <1>1, <2>2 DEF Dragging
        <3>2. view.last.quad.points \in [1..5 -> Point]
            BY <1>2 DEF Sound
        <3>3. Carried(view.last.quad.points, view.grip, view.moved) \in [1..5 -> Point]
            BY <1>2, <3>2, CarriedPoints
        <3> QED
            BY <1>2, <3>1, <3>3, ReshapedSound
    <2> QED
        BY <1>1, <2>1, <2>2
<1> QED
    BY <1>1, <1>2, <1>3, <1>4 DEF Based, Held

(* Requests, as they are made. *)
LEMMA CallEdit ==
    ASSUME NEW before \in Seq(Sound), NEW q \in 1 .. Len(before), NEW quad \in Sound,
           NEW b \in Seq(Sound), q \in 1 .. Len(b), NEW by \in {"points", "colors", "envelope"},
           by = "points" => before[q] = b[q] /\ quad.env = b[q].env
    PROVE  LET c == Call(before, Edit(q, quad), by)
           IN  c \in CallType /\ c.sent = Edit(q, quad) /\ Reverses(c, b)
<1> DEFINE op == Edit(q, quad)
           c == Call(before, op, by)
<1>1. q \in Nat /\ before[q] \in Sound /\ q \in DOMAIN before
    BY ElementOfSeq, LenProperties
<1>2. op \in Op /\ Edit(q, before[q]) \in Op /\ op.kind = "edit" /\ op.q = q
    BY <1>1, OpsMade DEF Edit
<1>3. Undoing(before, op) = Edit(q, before[q])
    BY <1>2 DEF Undoing
<1> HIDE DEF op
<1>4. c = [op |-> op, reverse |-> Edit(q, before[q]), sent |-> op, by |-> by, tracked |-> TRUE]
    BY <1>2, <1>3 DEF Call
<1>5. c \in CallType
    BY <1>2, <1>4 DEF CallType
<1>6. c.op = op /\ c.sent = op /\ c.by = by /\ c.reverse = Edit(q, before[q])
    BY <1>4
<1> HIDE DEF c
<1>7. Possible(b, op)
    BY Edited DEF op
<1>8. \E p \in 1 .. Len(b), x \in Sound, y \in Sound :
         /\ c.sent = Edit(p, x) /\ c.reverse = Edit(p, y) /\ c.by # "create"
         /\ c.by = "points" => y = b[p] /\ x.env = b[p].env
    <2>1. /\ c.sent = Edit(q, quad) /\ c.reverse = Edit(q, before[q]) /\ c.by # "create"
          /\ c.by = "points" => before[q] = b[q] /\ quad.env = b[q].env
        BY <1>6 DEF op
    <2> QED
        BY <1>1, <2>1
<1>9. Reverses(c, b)
    BY <1>6, <1>7, <1>8 DEF Reverses
<1> QED
    BY <1>5, <1>6, <1>9 DEF c, op

LEMMA CallTyped ==
    ASSUME NEW op \in Op, NEW r \in Op \cup {NoReverse}, NEW t \in BOOLEAN, t => r \in Op,
           NEW by \in {"points", "colors", "envelope", "create", "delete"}
    PROVE  [op |-> op, reverse |-> r, sent |-> op, by |-> by, tracked |-> t] \in CallType
BY DEF CallType

LEMMA CallCreate ==
    ASSUME NEW qs \in Seq(Sound), NEW quad \in Sound, NEW b \in Seq(Sound), Len(b) = Len(qs)
    PROVE  LET c == Call(qs, Create(quad), "create")
           IN  c \in CallType /\ c.sent = Create(quad) /\ Reverses(c, b)
<1> DEFINE op == Create(quad)
           c == Call(qs, op, "create")
<1>1. Len(qs) + 1 \in Nat
    BY LenProperties
<1>2. op \in Op /\ Delete(Len(qs) + 1) \in Op /\ op.kind = "create"
    BY <1>1, OpsMade DEF Create
<1>3. Undoing(qs, op) = Delete(Len(qs) + 1)
    BY <1>2 DEF Undoing
<1> HIDE DEF op
<1>4. c = [op |-> op, reverse |-> Delete(Len(qs) + 1), sent |-> op, by |-> "create", tracked |-> TRUE]
    BY <1>2, <1>3 DEF Call
<1>5. c \in CallType
    <2> DEFINE r == Delete(Len(qs) + 1)
    <2>1. op \in Op /\ r \in Op /\ r \in Op \cup {NoReverse}
        BY <1>2
    <2> HIDE DEF r
    <2>2. [op |-> op, reverse |-> r, sent |-> op, by |-> "create", tracked |-> TRUE] \in CallType
        BY <2>1, CallTyped
    <2> QED
        BY <1>4, <2>2 DEF r
<1>6. c.op = op /\ c.sent = op /\ c.by = "create" /\ c.reverse = Delete(Len(b) + 1)
    BY <1>4
<1> HIDE DEF c
<1>7. Possible(b, op)
    BY Created DEF op
<1>8. Reverses(c, b)
    BY <1>6, <1>7 DEF Reverses, op
<1> QED
    BY <1>5, <1>6, <1>8 DEF c, op

LEMMA CallDelete ==
    ASSUME NEW qs \in Seq(Sound), NEW q \in 1 .. Len(qs)
    PROVE  LET c == Call(qs, Delete(q), "delete")
           IN  c \in CallType /\ c.sent = Delete(q) /\ Reverses(c, qs)
<1> DEFINE op == Delete(q)
           c == Call(qs, op, "delete")
<1>1. q \in Nat
    BY LenProperties
<1>2. op \in Op /\ op.kind = "delete"
    <2>1. Delete(q) \in [kind : {"delete"}, q : Nat]
        BY <1>1 DEF Delete
    <2> QED
        BY <2>1 DEF Op, Delete
<1>3. Undoing(qs, op) = NoReverse
    BY <1>2 DEF Undoing, NoReverse
<1> HIDE DEF op
<1>4. c = [op |-> op, reverse |-> NoReverse, sent |-> op, by |-> "delete", tracked |-> FALSE]
    BY <1>2, <1>3 DEF Call
<1>5. c \in CallType
    <2>1. op \in Op /\ NoReverse \in Op \cup {NoReverse}
        BY <1>2
    <2>2. [op |-> op, reverse |-> NoReverse, sent |-> op, by |-> "delete", tracked |-> FALSE] \in CallType
        BY <2>1, CallTyped
    <2> QED
        BY <1>4, <2>2
<1>6. c.op = op /\ c.sent = op /\ ~ c.tracked
    BY <1>4
<1> HIDE DEF c
<1>7. Possible(qs, op)
    BY Deleted DEF op
<1>8. Reverses(c, qs)
    BY <1>6, <1>7 DEF Reverses
<1> QED
    BY <1>5, <1>6, <1>8 DEF c, op

LEMMA BasedFacts ==
    ASSUME Sorts, HoldOK(view, quads), view.mode # "none"
    PROVE  /\ Based(view, quads) \in Seq(Sound) /\ Len(Based(view, quads)) = Len(quads)
           /\ Based(view, quads)[Held] = view.last.quad
           /\ \A j \in 1 .. Len(quads) : j # Held => Based(view, quads)[j] = quads[j]
<1> DEFINE y == view.last.quad
<1>1. /\ y \in Sound /\ Held \in 1 .. Len(quads) /\ quads \in Seq(Sound)
      /\ Based(view, quads) = Put(quads, Held, y)
    BY HeldFacts DEF Sorts
<1> HIDE DEF y
<1>2. /\ Put(quads, Held, y) \in Seq(Sound) /\ Len(Put(quads, Held, y)) = Len(quads)
      /\ Put(quads, Held, y)[Held] = y
      /\ \A j \in 1 .. Len(quads) : j # Held => Put(quads, Held, y)[j] = quads[j]
    BY <1>1, PutAt
<1> QED
    BY <1>1, <1>2 DEF y

(* A change of the quad that is held is stored as it is shown, and sent. *)
LEMMA ChangeSent ==
    ASSUME IInv, view.mode # "none", NEW quad \in Sound, NEW v, NEW lq \in Sound, NEW done,
           NEW by \in {"points", "colors", "envelope"},
           v.q = Held, v.last = Edit(Held, lq),
           by = "points" => lq = view.last.quad /\ quad.env = lq.env,
           OnChange(Put(quads, Held, quad), v, done, by)
    PROVE  /\ quads' = Put(quads, Held, quad) /\ quads' \in Seq(Sound)
           /\ Len(quads') = Len(quads) /\ quads'[Held] = quad
           /\ view' = [done EXCEPT !.last = Edit(Held, quad)]
           /\ calls' \in Seq(CallType) /\ Leads(doc, calls', quads')
           /\ drawn' = InitBuffers(quads', now)
<1> DEFINE qs == Put(quads, Held, quad)
           edit == Edit(Held, quad)
           x == WithEnv(lq, quad.env)
           before == Put(quads, Held, x)
           c == Call(before, edit, by)
           b == Based(view, quads)
<1>1. /\ Held \in 1 .. Len(quads) /\ Held \in Nat /\ quads \in Seq(Sound)
      /\ view.last.quad \in Sound /\ b = Put(quads, Held, view.last.quad)
    BY HeldFacts DEF IInv, Sorts
<1>2. /\ qs \in Seq(Sound) /\ Len(qs) = Len(quads) /\ qs[Held] = quad
    BY <1>1, PutAt
<1>3. quad.env \in {NoEnv, Env} /\ quad.env # Undef /\ Message(quad) = quad
    BY EnvOf, SoundQuads
<1>4. x \in Sound /\ x.env = quad.env /\ (lq.env = quad.env => x = lq)
    BY <1>3, EnvOf
<1> HIDE DEF x
<1>5. Handle(qs, v.last) = before
    <2> HIDE DEF qs
    <2>1. Handle(qs, Edit(Held, lq)) = Put(qs, Held, WithEnv(lq, qs[Held].env))
        BY <1>1, <1>2, Edited
    <2>2. Put(Put(quads, Held, quad), Held, x) = Put(quads, Held, x)
        BY <1>1, <1>4, PutTwice
    <2> QED
        BY <1>2, <2>1, <2>2 DEF qs, x
<1>6. /\ before \in Seq(Sound) /\ Len(before) = Len(quads) /\ before[Held] = x
    BY <1>1, <1>4, PutAt
<1>7. Handle(before, edit) = qs
    <2>1. Put(Put(quads, Held, x), Held, quad) = Put(quads, Held, quad)
        BY <1>1, <1>4, PutTwice
    <2>2. Held \in 1 .. Len(before) /\ before \in Seq(Sound) /\ quad.env = before[Held].env
        BY <1>1, <1>4, <1>6
    <2> HIDE DEF before
    <2>3. Handle(before, Edit(Held, quad)) = Put(before, Held, quad)
        BY <2>2, Edited
    <2> QED
        BY <2>1, <2>3 DEF before
<1>8. Query(before, edit, by) /\ view' = [done EXCEPT !.last = edit]
    <2> HIDE DEF qs, before
    <2>1. OnChange(qs, v, done, by)
        BY DEF qs
    <2>2. qs[v.q].env # Undef /\ Edit(v.q, Message(qs[v.q])) = edit
        BY <1>2, <1>3
    <2> HIDE DEF edit
    <2> QED
        BY <1>5, <2>1, <2>2 DEF OnChange
<1>9. calls' = Append(calls, c) /\ quads' = qs /\ drawn' = InitBuffers(qs, now)
    <2> HIDE DEF qs, before, edit
    <2> QED
        BY <1>7, <1>8 DEF Query, Show, c
<1>10. /\ b \in Seq(Sound) /\ Len(b) = Len(quads) /\ b[Held] = view.last.quad
    BY BasedFacts DEF IInv
<1>11. c \in CallType /\ c.sent = edit /\ Reverses(c, b)
    <2>1. Held \in 1 .. Len(before) /\ Held \in 1 .. Len(b)
        BY <1>1, <1>6, <1>10
    <2>2. by = "points" => before[Held] = b[Held] /\ quad.env = b[Held].env
        BY <1>4, <1>6, <1>10
    <2> HIDE DEF before, b
    <2> QED
        BY <1>6, <1>10, <2>1, <2>2, CallEdit DEF c
<1>12. Stored(b, edit) = qs
    <2>1. Put(Put(quads, Held, view.last.quad), Held, quad) = Put(quads, Held, quad)
        BY <1>1, PutTwice
    <2>2. Stored(b, edit) = Put(b, Held, quad)
        <3>1. Held \in 1 .. Len(b)
            BY <1>1, <1>10
        <3> HIDE DEF b
        <3> QED
            BY <1>10, <3>1, Edited
    <2> QED
        BY <1>1, <2>1, <2>2
<1>13. calls \in Seq(CallType) /\ Leads(doc, calls, b)
    BY DEF IInv, Sorts
<1> HIDE DEF b, c, edit, qs
<1>14. Leads(doc, Append(calls, c), Stored(b, c.sent))
    BY <1>11, <1>13, LeadsMore
<1>15. Append(calls, c) \in Seq(CallType)
    BY <1>11, <1>13
<1> QED
    BY <1>2, <1>8, <1>9, <1>11, <1>12, <1>14, <1>15 DEF qs, edit

LEMMA PutSame ==
    ASSUME NEW qs \in Seq(Sound), NEW q \in 1 .. Len(qs), NEW quad \in Sound, qs[q] = quad
    PROVE  Put(qs, q, quad) = qs
BY LenProperties DEF Put

(* In the menu every change goes out at once, so what is held stays what   *)
(* the map has.                                                            *)
LEMMA MenuChanged ==
    ASSUME IInv, view.mode = "menu", NEW quad \in Sound, NEW v \in HeldView,
           NEW by \in {"points", "colors", "envelope"},
           v.mode = "menu", v.q = Held, v.last = Edit(Held, v.last.quad),
           by = "points" => v.last.quad = view.last.quad /\ quad.env = v.last.quad.env,
           OnChange(Put(quads, Held, quad), v, v, by),
           now' = now, doc' = doc
    PROVE  IInv'
<1> DEFINE lq == v.last.quad
<1>1. lq \in Sound
    BY DEF HeldView
<1>2. v.last = Edit(Held, lq) /\ view.mode # "none"
      /\ (by = "points" => lq = view.last.quad /\ quad.env = lq.env)
    OBVIOUS
<1> HIDE DEF lq
<1>3. /\ quads' = Put(quads, Held, quad) /\ quads' \in Seq(Sound)
      /\ Len(quads') = Len(quads) /\ quads'[Held] = quad
      /\ view' = [v EXCEPT !.last = Edit(Held, quad)]
      /\ calls' \in Seq(CallType) /\ Leads(doc, calls', quads')
      /\ drawn' = InitBuffers(quads', now)
    BY <1>1, <1>2, ChangeSent
<1>4. Held \in 1 .. Len(quads) /\ Held \in Nat
    BY <1>2, HeldFacts DEF IInv
<1>5. /\ view' \in HeldView /\ view'.mode = "menu" /\ view'.q = Held
      /\ view'.last = Edit(Held, quad) /\ view'.last.quad = quad
    BY <1>3, <1>4 DEF HeldView, Edit
<1>6. HoldOK(view', quads')
    BY <1>3, <1>4, <1>5 DEF HoldOK
<1>7. Based(view', quads') = quads'
    <2>1. Put(quads', Held, quad) = quads'
        BY <1>3, <1>4, PutSame
    <2> QED
        BY <1>5, <2>1 DEF Based
<1>8. Sorts'
    BY <1>3 DEF IInv, Sorts
<1> QED
    BY <1>3, <1>6, <1>7, <1>8 DEF IInv

LEMMA ViewLast ==
    ASSUME IInv, view.mode = "menu"
    PROVE  /\ view \in HeldView /\ view.q = Held /\ view.last = Edit(Held, view.last.quad)
           /\ quads[Held] = view.last.quad /\ quads[Held] \in Sound /\ Held \in 1 .. Len(quads)
<1>1. view.mode # "none"
    OBVIOUS
<1> QED
    BY <1>1, HeldFacts DEF IInv, HoldOK, Held

LEMMA EditPosStep ==
    ASSUME IInv, NEW p \in 1..5, NEW x \in Typed, OnEditPos(p, x)
    PROVE  IInv'
<1> DEFINE old == quads[Held]
           a == [old EXCEPT !.points[p].x = x]
           b == [old EXCEPT !.points[p].y = x]
<1>1. view.mode = "menu" /\ now' = now /\ doc' = doc
    BY DEF OnEditPos, Menu
<1>2. x \in Int
    BY PointerAssumption
<1>3. view \in HeldView /\ view.q = Held /\ view.last = Edit(Held, view.last.quad)
      /\ old = view.last.quad /\ old \in Sound
    BY <1>1, ViewLast
<1>4. \/ OnChange(Put(quads, Held, a), view, view, "points")
      \/ OnChange(Put(quads, Held, b), view, view, "points")
    BY DEF OnEditPos, Changed, Put
<1> HIDE DEF old
<1>5. a \in Sound /\ b \in Sound /\ a.env = old.env /\ b.env = old.env
    BY <1>2, <1>3 DEF Sound, Point
<1> HIDE DEF a, b
<1>6. CASE OnChange(Put(quads, Held, a), view, view, "points")
    BY <1>1, <1>3, <1>5, <1>6, MenuChanged
<1>7. CASE OnChange(Put(quads, Held, b), view, view, "points")
    BY <1>1, <1>3, <1>5, <1>7, MenuChanged
<1> QED
    BY <1>4, <1>6, <1>7

LEMMA EditColorStep ==
    ASSUME IInv, NEW p \in 1..5, NEW x \in Typed, OnEditColor(p, x)
    PROVE  IInv'
<1> DEFINE old == quads[Held]
           colors == [old.colors EXCEPT ![p] = ClampOpacity(x)]
           a == [old EXCEPT !.colors = colors]
           v == [view EXCEPT !.last.quad.colors = colors]
<1>1. view.mode = "menu" /\ now' = now /\ doc' = doc /\ p \in 1..4
    BY DEF OnEditColor, Menu
<1>2. ClampOpacity(x) \in 0..Full
    BY PointerAssumption, QuadAssumption DEF ClampOpacity
<1>3. view \in HeldView /\ view.q = Held /\ view.last = Edit(Held, view.last.quad)
      /\ old = view.last.quad /\ old \in Sound
    BY <1>1, ViewLast
<1>4. OnChange(Put(quads, Held, a), v, v, "colors")
    BY DEF OnEditColor, Changed, Put
<1> HIDE DEF old
<1>5. colors \in [1..4 -> 0..Full]
    BY <1>1, <1>2, <1>3 DEF Sound
<1> HIDE DEF colors
<1>6. a \in Sound
    BY <1>3, <1>5 DEF Sound
<1>7. /\ v \in HeldView /\ v.mode = "menu" /\ v.q = Held
      /\ v.last = Edit(Held, v.last.quad)
    <2> DEFINE u == [view.last.quad EXCEPT !.colors = colors]
    <2>1. u \in Sound
        BY <1>3, <1>5 DEF Sound
    <2>2. v = [view EXCEPT !.last = [@ EXCEPT !.quad = u]]
        OBVIOUS
    <2> HIDE DEF u, v
    <2>3. Held \in Nat /\ view.last = [kind |-> "edit", q |-> Held, quad |-> view.last.quad]
        BY <1>3 DEF HeldView, Edit
    <2>4. v.last = [kind |-> "edit", q |-> Held, quad |-> u]
        BY <1>3, <2>2, <2>3 DEF HeldView
    <2>5. v \in HeldView /\ v.mode = "menu" /\ v.q = Held
        BY <1>1, <1>3, <2>1, <2>2, <2>3, <2>4 DEF HeldView
    <2> QED
        BY <2>4, <2>5 DEF Edit
<1> HIDE DEF a, v
<1> QED
    BY <1>1, <1>4, <1>6, <1>7, MenuChanged

LEMMA EditPosEnvStep ==
    ASSUME IInv, OnEditPosEnv(Env)
    PROVE  IInv'
<1> DEFINE old == quads[Held]
           a == WithEnv(old, Env)
<1>1. view.mode = "menu" /\ now' = now /\ doc' = doc
    BY DEF OnEditPosEnv, Menu
<1>2. view \in HeldView /\ view.q = Held /\ view.last = Edit(Held, view.last.quad)
      /\ old \in Sound
    BY <1>1, ViewLast
<1>3. OnChange(Put(quads, Held, a), view, view, "envelope")
    BY DEF OnEditPosEnv, Changed, Put, WithEnv
<1> HIDE DEF old
<1>4. a \in Sound
    BY <1>2, EnvOf
<1> HIDE DEF a
<1> QED
    BY <1>1, <1>2, <1>3, <1>4, MenuChanged

LEMMA RecenterStep ==
    ASSUME IInv, OnRecenter
    PROVE  IInv'
<1> DEFINE old == quads[Held]
           ps == old.points
           mid == [x |-> Mean4(ps[1].x, ps[2].x, ps[3].x, ps[4].x),
                   y |-> Mean4(ps[1].y, ps[2].y, ps[3].y, ps[4].y)]
           a == [old EXCEPT !.points[5] = mid]
<1>1. view.mode = "menu" /\ now' = now /\ doc' = doc
    BY DEF OnRecenter, Menu
<1>2. view \in HeldView /\ view.q = Held /\ view.last = Edit(Held, view.last.quad)
      /\ old = view.last.quad /\ old \in Sound
    BY <1>1, ViewLast
<1>3. OnChange(Put(quads, Held, a), view, view, "points")
    BY DEF OnRecenter, Changed, Put
<1> HIDE DEF old
<1>4. mid \in Point
    <2>1. \A k \in 1..5 : ps[k] \in Point
        BY <1>2 DEF Sound
    <2>2. /\ ps[1].x \in Int /\ ps[2].x \in Int /\ ps[3].x \in Int /\ ps[4].x \in Int
          /\ ps[1].y \in Int /\ ps[2].y \in Int /\ ps[3].y \in Int /\ ps[4].y \in Int
        <3>1. ps[1] \in Point /\ ps[2] \in Point /\ ps[3] \in Point /\ ps[4] \in Point
            BY <2>1
        <3> QED
            BY <3>1, Points
    <2> HIDE DEF ps, mid, a
    <2>3. \A i, j, k, l \in Int : Mean4(i, j, k, l) \in Int
        BY DEF Mean4
    <2>4. /\ Mean4(ps[1].x, ps[2].x, ps[3].x, ps[4].x) \in Int
          /\ Mean4(ps[1].y, ps[2].y, ps[3].y, ps[4].y) \in Int
        BY <2>2, <2>3, Zenon
    <2> QED
        BY <2>4, Points DEF mid
<1> HIDE DEF mid
<1>5. a \in Sound /\ a.env = old.env
    BY <1>2, <1>4 DEF Sound
<1> HIDE DEF a
<1> QED
    BY <1>1, <1>2, <1>3, <1>5, MenuChanged

-----------------------------------------------------------------------------
(* The drag and the menu *)

(* Nothing is held, or the menu shows what the map has: the requests on    *)
(* their way lead to what the client shows.                                *)
LEMMA BasedIsShown ==
    ASSUME IInv, view.mode # "drag"
    PROVE  Based(view, quads) = quads /\ quads \in Seq(Sound) /\ Leads(doc, calls, quads)
<1>1. quads \in Seq(Sound) /\ Leads(doc, calls, Based(view, quads))
    BY DEF IInv, Sorts
<1>2. CASE view.mode = "none"
    BY <1>1, <1>2 DEF Based
<1>3. CASE view.mode = "menu"
    <2>1. quads[Held] = view.last.quad /\ quads[Held] \in Sound /\ Held \in 1 .. Len(quads)
        BY <1>3, ViewLast
    <2>2. Put(quads, Held, view.last.quad) = quads
        BY <1>1, <2>1, PutSame
    <2> QED
        BY <1>1, <1>3, <2>2 DEF Based, Held
<1> QED
    BY <1>2, <1>3 DEF IInv, HoldOK

LEMMA MouseDownStep ==
    ASSUME Tame, IInv, NEW q \in 1..MaxQuads, NEW grip \in Grips, OnMouseDown(q, grip)
    PROVE  IInv'
<1> DEFINE x == quads[q]
<1>1. /\ view.mode = "none" /\ q \in DOMAIN quads /\ (Len(grip) = 2 => Normal(x.points, grip) # Zero)
      /\ view' = [Hold("drag", q) EXCEPT !.grip = grip]
      /\ UNCHANGED <<quads, doc, now, drawn, calls>>
    BY DEF OnMouseDown, Tame
<1>2. quads \in Seq(Sound) /\ Leads(doc, calls, quads)
    BY <1>1, BasedIsShown
<1>3. q \in 1 .. Len(quads) /\ q \in Nat /\ x \in Sound /\ Message(x) = x
    BY <1>1, <1>2, ElementOfSeq, LenProperties, SoundQuads
<1>4. Hold("drag", q) = [mode |-> "drag", q |-> q, last |-> Edit(q, x), grip |-> <<>>, moved |-> Zero]
    BY <1>3 DEF Hold
<1> HIDE DEF x
<1>5. view' = [mode |-> "drag", q |-> q, last |-> Edit(q, x), grip |-> grip, moved |-> Zero]
    BY <1>1, <1>4
<1>6. grip \in Seq(1..5) /\ Zero \in Point
    BY PointerAssumption DEF Zero, Point
<1>7. view' \in HeldView /\ view'.q = q /\ view'.last = Edit(q, x) /\ view'.last.quad = x
      /\ view'.mode = "drag" /\ view'.grip = grip /\ view'.moved = Zero
    BY <1>3, <1>5, <1>6 DEF HeldView, Edit
<1>8. Dragging(view', x)
    <2>1. x.points \in [1..5 -> Point]
        BY <1>3 DEF Sound
    <2>2. Carried(x.points, grip, Zero) = x.points /\ Along(x.points, grip, Zero)
        BY <1>6, <2>1, CarriedPoints, NotMoved
    <2>3. Reshaped(x, x.points) = x
        BY <1>3, <2>1, ReshapedSound
    <2> QED
        BY <1>1, <1>7, <2>2, <2>3 DEF Dragging, x
<1>9. HoldOK(view', quads')
    BY <1>1, <1>3, <1>7, <1>8 DEF HoldOK, x
<1>10. Based(view', quads') = quads
    <2>1. Put(quads, q, x) = quads
        BY <1>2, <1>3, PutSame DEF x
    <2> QED
        BY <1>1, <1>7, <2>1 DEF Based
<1> QED
    BY <1>1, <1>2, <1>9, <1>10 DEF IInv, Sorts

LEMMA ShowCMStep ==
    ASSUME IInv, NEW q \in 1..MaxQuads, ShowCM(q)
    PROVE  IInv'
<1> DEFINE x == quads[q]
<1>1. /\ view.mode = "none" /\ q \in DOMAIN quads /\ view' = Hold("menu", q)
      /\ UNCHANGED <<quads, doc, now, drawn, calls>>
    BY DEF ShowCM
<1>2. quads \in Seq(Sound) /\ Leads(doc, calls, quads)
    BY <1>1, BasedIsShown
<1>3. q \in 1 .. Len(quads) /\ q \in Nat /\ x \in Sound /\ Message(x) = x
    BY <1>1, <1>2, ElementOfSeq, LenProperties, SoundQuads
<1>4. view' = [mode |-> "menu", q |-> q, last |-> Edit(q, x), grip |-> <<>>, moved |-> Zero]
    BY <1>1, <1>3 DEF Hold
<1> HIDE DEF x
<1>5. <<>> \in Seq(1..5) /\ Zero \in Point
    BY DEF Zero, Point
<1>6. view' \in HeldView /\ view'.q = q /\ view'.last = Edit(q, x) /\ view'.last.quad = x
      /\ view'.mode = "menu"
    BY <1>3, <1>4, <1>5 DEF HeldView, Edit
<1>7. HoldOK(view', quads')
    BY <1>1, <1>3, <1>6 DEF HoldOK, x
<1>8. Based(view', quads') = quads
    <2>1. Put(quads, q, x) = quads
        BY <1>2, <1>3, PutSame DEF x
    <2> QED
        BY <1>1, <1>6, <2>1 DEF Based
<1> QED
    BY <1>1, <1>2, <1>7, <1>8 DEF IInv, Sorts

LEMMA NothingHeld ==
    ASSUME NEW qs
    PROVE  HoldOK(Idle, qs) /\ Based(Idle, qs) = qs
BY DEF HoldOK, Based, Idle

LEMMA HideCMStep ==
    ASSUME IInv, HideCM
    PROVE  IInv'
<1>1. view.mode # "drag" /\ view' = Idle /\ UNCHANGED <<quads, doc, now, drawn, calls>>
    BY DEF HideCM
<1>2. Leads(doc, calls, quads)
    BY <1>1, BasedIsShown
<1> QED
    BY <1>1, <1>2, NothingHeld DEF IInv, Sorts

LEMMA MouseMoveStep ==
    ASSUME IInv, NEW d \in Moves, OnMouseMove(d)
    PROVE  IInv'
<1> DEFINE x == quads[Held]
           y == view.last.quad
           start == y.points
           grip == view.grip
           m == Projected(start, grip, d)
           z == Reshaped(y, Carried(start, grip, m))
           new == Dragged(x.points, view, d)
<1>1. /\ view.mode = "drag" /\ view.mode # "none" /\ view' = [view EXCEPT !.moved = new.moved]
      /\ Show(Put(quads, Held, Reshaped(x, new.points)))
      /\ UNCHANGED <<doc, now, calls, steps>>
    BY DEF OnMouseMove, Put, Reshaped
<1>2. /\ Held \in 1 .. Len(quads) /\ Held \in Nat /\ view \in HeldView /\ y \in Sound
      /\ view.last = Edit(Held, y) /\ x \in Sound
      /\ Based(view, quads) = Put(quads, Held, y)
      /\ quads \in Seq(Sound)
    BY <1>1, HeldFacts DEF IInv, Sorts
<1>3. /\ grip \in Seq(1..5) /\ view.moved \in Point /\ d \in Point
      /\ start \in [1..5 -> Point]
    BY <1>2, PointerAssumption DEF HeldView, Sound
<1>4. /\ Len(grip) = 2 => Normal(start, grip) # Zero
      /\ x = Reshaped(y, Carried(start, grip, view.moved))
    BY <1>1 DEF IInv, HoldOK, Dragging, Held
<1>5. x.points = Carried(start, grip, view.moved) /\ \A ps : Reshaped(x, ps) = Reshaped(y, ps)
    <2>1. Carried(start, grip, view.moved) \in [1..5 -> Point]
        BY <1>3, CarriedPoints
    <2> HIDE DEF x, start
    <2>2. x.points = Carried(start, grip, view.moved)
        BY <1>2, <1>4, <2>1, ReshapedSound
    <2> HIDE DEF y
    <2>3. \A ps : Reshaped(x, ps) = Reshaped(y, ps)
        BY <1>2, <1>4 DEF Reshaped, Sound
    <2> QED
        BY <2>2, <2>3
<1> HIDE DEF x, start, grip
<1>6. Shifted(x.points, grip, LAMBDA p : Minus(p, view.moved)) = start
    <2>1. Shifted(Carried(start, grip, view.moved), grip, LAMBDA p : Minus(p, view.moved)) = start
        BY <1>3, CarriedPoints
    <2> QED
        BY <1>5, <2>1
<1>7. m \in Point /\ Along(start, grip, m)
    BY <1>3, <1>4, MovedAlong
<1>8. new = [points |-> Shifted(start, grip, LAMBDA p : Plus(p, m)), moved |-> m]
    BY <1>6 DEF Dragged, Shifted, grip
<1>9. Shifted(start, grip, LAMBDA p : Plus(p, m)) = Carried(start, grip, m)
      /\ Carried(start, grip, m) \in [1..5 -> Point]
    BY <1>3, <1>7, CarriedPoints
<1> HIDE DEF m, new
<1>10. new.points = Carried(start, grip, m) /\ new.moved = m
    BY <1>8, <1>9
<1>11. Reshaped(x, new.points) = z /\ z \in Sound
    BY <1>2, <1>5, <1>9, <1>10, ReshapedSound
<1> HIDE DEF y
<1>12. /\ quads' = Put(quads, Held, z) /\ drawn' = InitBuffers(quads', now)
       /\ view' = [view EXCEPT !.moved = m]
    BY <1>1, <1>10, <1>11 DEF Show
<1> HIDE DEF z
<1>13. quads' \in Seq(Sound) /\ Len(quads') = Len(quads) /\ quads'[Held] = z
    <2>1. IsPut(Put(quads, Held, z), quads, Held, z)
        BY <1>2, <1>11, PutIsPut
    <2> QED
        BY <1>12, <2>1 DEF IsPut
<1>14. /\ view' \in HeldView /\ view'.mode = "drag" /\ view'.q = Held /\ view'.last = view.last
       /\ view'.grip = view.grip /\ view'.moved = m
    BY <1>1, <1>2, <1>7, <1>12 DEF HeldView, Held
<1>15. Dragging(view', z)
    BY <1>4, <1>7, <1>14 DEF Dragging, start, grip, z, y
<1>16. view'.last = Edit(view'.q, view'.last.quad)
    BY <1>2, <1>14 DEF y
<1>17. HoldOK(view', quads')
    BY <1>2, <1>13, <1>14, <1>15, <1>16 DEF HoldOK
<1>18. Based(view', quads') = Based(view, quads)
    <2>1. Put(Put(quads, Held, z), Held, y) = Put(quads, Held, y)
        BY <1>2, <1>11, PutTwice
    <2> QED
        BY <1>2, <1>12, <1>14, <2>1 DEF Based, y
<1> QED
    BY <1>1, <1>12, <1>13, <1>17, <1>18 DEF IInv, Sorts

LEMMA MouseUpStep ==
    ASSUME IInv, OnMouseUp
    PROVE  IInv'
<1> DEFINE x == quads[Held]
           done == [view EXCEPT !.mode = "none"]
<1>1. /\ view.mode # "none" /\ OnChange(quads, view, done, "points")
      /\ UNCHANGED <<doc, now, steps>>
    BY DEF OnMouseUp
<1>2. /\ Held \in 1 .. Len(quads) /\ view \in HeldView /\ view.last.quad \in Sound
      /\ view.last = Edit(Held, view.last.quad) /\ x \in Sound /\ x.env = view.last.quad.env
      /\ quads \in Seq(Sound) /\ view.q = Held
    BY <1>1, HeldFacts DEF IInv, Sorts, Held
<1>3. Put(quads, Held, x) = quads
    BY <1>2, PutSame
<1> DEFINE lq == view.last.quad
<1>4. lq \in Sound /\ view.last = Edit(Held, lq) /\ lq = view.last.quad /\ x.env = lq.env
    BY <1>2
<1> HIDE DEF x, lq
<1>5. done.mode = "none" /\ [done EXCEPT !.last = Edit(Held, x)].mode = "none"
    BY <1>2 DEF HeldView
<1> HIDE DEF done
<1>6. OnChange(Put(quads, Held, x), view, done, "points")
    BY <1>1, <1>3
<1>7. /\ quads' = Put(quads, Held, x) /\ quads' \in Seq(Sound)
      /\ Len(quads') = Len(quads)
      /\ view' = [done EXCEPT !.last = Edit(Held, x)]
      /\ calls' \in Seq(CallType) /\ Leads(doc, calls', quads')
      /\ drawn' = InitBuffers(quads', now)
    BY <1>1, <1>2, <1>4, <1>6, ChangeSent
<1>8. HoldOK(view', quads') /\ Based(view', quads') = quads'
    BY <1>5, <1>7 DEF HoldOK, Based
<1> QED
    BY <1>1, <1>7, <1>8 DEF IInv, Sorts

-----------------------------------------------------------------------------
(* Quads created and deleted here *)

LEMMA QuadAdded ==
    ASSUME IInv, NEW quad \in Sound, Len(quads) < MaxQuads,
           Query(quads, Create(quad), "create"),
           view' = IF view.mode = "menu" THEN Idle ELSE view,
           doc' = doc, now' = now
    PROVE  IInv'
<1> DEFINE c == Call(quads, Create(quad), "create")
           b == Based(view, quads)
           qs == Append(quads, quad)
<1>1. /\ quads \in Seq(Sound) /\ calls \in Seq(CallType) /\ Leads(doc, calls, b)
      /\ Len(quads) \in Nat /\ now \in EnvPoints
    BY LenProperties DEF IInv, Sorts
<1>2. /\ Handle(quads, Create(quad)) = qs /\ qs \in Seq(Sound) /\ Len(qs) = Len(quads) + 1
      /\ \A q \in 1 .. Len(quads) : qs[q] = quads[q]
    BY <1>1, Created
<1>3. calls' = Append(calls, c) /\ quads' = qs /\ drawn' = InitBuffers(qs, now)
    <2> HIDE DEF qs
    <2> QED
        BY <1>2 DEF Query, Show
<1>4. b \in Seq(Sound) /\ Len(b) = Len(quads)
    <2>1. CASE view.mode = "none"
        BY <1>1, <2>1 DEF Based
    <2>2. CASE view.mode # "none"
        BY <2>2, BasedFacts DEF IInv
    <2> QED
        BY <2>1, <2>2
<1>5. c \in CallType /\ c.sent = Create(quad) /\ Reverses(c, b)
    <2> HIDE DEF b
    <2> QED
        BY <1>1, <1>4, CallCreate
<1>6. Stored(b, Create(quad)) = Append(b, quad)
    <2> HIDE DEF b
    <2> QED
        BY <1>4, Created
<1> HIDE DEF c
<1>7. Leads(doc, Append(calls, c), Append(b, quad)) /\ Append(calls, c) \in Seq(CallType)
    <2> HIDE DEF b
    <2>1. Leads(doc, Append(calls, c), Stored(b, c.sent))
        BY <1>1, <1>5, LeadsMore
    <2> QED
        BY <1>1, <1>5, <1>6, <2>1
<1>8. Sorts'
    <2> HIDE DEF qs
    <2>1. Len(qs) <= MaxQuads
        BY <1>1, <1>2, BoundAssumption
    <2> QED
        BY <1>1, <1>2, <1>3, <1>7, <2>1 DEF Sorts
<1>9. HoldOK(view', quads') /\ Based(view', quads') = Append(b, quad)
    <2>1. CASE view.mode = "menu"
        <3>1. b = quads
            BY <2>1, BasedIsShown
        <3> QED
            BY <2>1, <1>3, <3>1, NothingHeld
    <2>2. CASE view.mode = "none"
        BY <1>3, <2>2 DEF HoldOK, Based
    <2>3. CASE view.mode = "drag"
        <3>1. view' = view /\ view.mode # "none"
            BY <2>3
        <3>2. /\ Held \in 1 .. Len(quads) /\ view.last.quad \in Sound
              /\ b = Put(quads, Held, view.last.quad)
            BY <3>1, HeldFacts DEF IInv
        <3>3. HoldOK(view, quads)
            BY DEF IInv
        <3> HIDE DEF qs
        <3>4. Held \in 1 .. Len(qs) /\ qs[Held] = quads[Held]
            BY <1>1, <1>2, <3>2
        <3>5. HoldOK(view, qs)
            BY <3>3, <3>4 DEF HoldOK, Held
        <3>6. Based(view, qs) = Put(qs, Held, view.last.quad)
            BY <3>1 DEF Based, Held
        <3>7. Put(Append(quads, quad), Held, view.last.quad)
                 = Append(Put(quads, Held, view.last.quad), quad)
            BY <1>1, <3>2, PutBefore
        <3> QED
            BY <1>3, <3>1, <3>2, <3>5, <3>6, <3>7 DEF qs
    <2> QED
        BY <2>1, <2>2, <2>3 DEF IInv, HoldOK
<1> QED
    BY <1>3, <1>7, <1>8, <1>9 DEF IInv

LEMMA CreateQuadStep ==
    ASSUME IInv, CreateQuad
    PROVE  IInv'
<1> DEFINE quad == NewQuad(Zero)
<1>1. /\ Len(quads) < MaxQuads /\ Query(quads, Create(quad), "create")
      /\ view' = IF view.mode = "menu" THEN Idle ELSE view
      /\ UNCHANGED <<doc, now>>
    BY DEF CreateQuad
<1>2. quad \in Sound
    <2>1. Width \in Int /\ Full \in 0..Full
        BY QuadAssumption
    <2>2. 0 - Width \in Int /\ 0 + Width \in Int /\ 0 \in Int
        BY <2>1
    <2>3. \A i, j \in Int : At(i, j) \in Point
        BY Points DEF At
    <2> DEFINE ps == <<At(0 - Width, 0 - Width), At(0 + Width, 0 - Width),
                       At(0 - Width, 0 + Width), At(0 + Width, 0 + Width), Zero>>
               cs == <<Full, Full, Full, Full>>
    <2>4. quad = [points |-> ps, colors |-> cs, env |-> NoEnv]
        BY DEF NewQuad, Zero
    <2>5. /\ At(0 - Width, 0 - Width) \in Point /\ At(0 + Width, 0 - Width) \in Point
          /\ At(0 - Width, 0 + Width) \in Point /\ At(0 + Width, 0 + Width) \in Point
          /\ Zero \in Point
        BY <2>2, <2>3, Points DEF Zero
    <2>6. ps \in [1..5 -> Point]
        BY <2>5
    <2>7. cs \in [1..4 -> 0..Full]
        BY <2>1
    <2> HIDE DEF quad, ps, cs
    <2> QED
        BY <2>4, <2>6, <2>7 DEF Sound, NoEnv, Env
<1> HIDE DEF quad
<1> QED
    BY <1>1, <1>2, QuadAdded

LEMMA DuplicateStep ==
    ASSUME IInv, OnDuplicate
    PROVE  IInv'
<1> DEFINE old == quads[Held]
           quad == [old EXCEPT !.points = [p \in 1..5 |-> Plus(@[p], At(1, 1))]]
<1>1. view.mode = "menu" /\ Len(quads) < MaxQuads /\ doc' = doc /\ now' = now
      /\ view' = IF view.mode = "menu" THEN Idle ELSE view
    BY DEF OnDuplicate, Menu
<1>2. old \in Sound /\ Message(old) = old
    BY <1>1, ViewLast, SoundQuads
<1>3. Query(quads, Create(quad), "create")
    BY <1>2 DEF OnDuplicate
<1>4. quad \in Sound
    <2>1. old.points \in [1..5 -> Point]
        BY <1>2 DEF Sound
    <2>2. ASSUME NEW p \in 1..5 PROVE Plus(old.points[p], At(1, 1)) \in Point
        <3> DEFINE x == old.points[p]
        <3>1. x.x \in Int /\ x.y \in Int
            BY <2>1, Points
        <3> HIDE DEF x
        <3>2. x.x + 1 \in Int /\ x.y + 1 \in Int
            BY <3>1
        <3>3. Plus(x, At(1, 1)) \in Point
            BY <3>2, Points DEF Plus, At
        <3> QED
            BY <3>3 DEF x
    <2> DEFINE ps == [p \in 1..5 |-> Plus(old.points[p], At(1, 1))]
    <2>3. ps \in [1..5 -> Point]
        BY <2>2
    <2>4. quad = [old EXCEPT !.points = ps]
        BY <1>2 DEF Sound
    <2> HIDE DEF old, ps, quad
    <2> QED
        BY <1>2, <2>3, <2>4 DEF Sound
<1> HIDE DEF quad
<1> QED
    BY <1>1, <1>3, <1>4, QuadAdded

LEMMA DeleteStep ==
    ASSUME IInv, OnDelete
    PROVE  IInv'
<1> DEFINE c == Call(quads, Delete(Held), "delete")
           qs == RemoveAt(quads, Held)
<1>1. /\ view.mode = "menu" /\ doc' = doc /\ now' = now /\ view' = Idle
      /\ Query(quads, Delete(Held), "delete")
    BY DEF OnDelete, Menu
<1>2. /\ quads \in Seq(Sound) /\ calls \in Seq(CallType) /\ Leads(doc, calls, quads)
      /\ Len(quads) \in Nat /\ now \in EnvPoints /\ Len(quads) <= MaxQuads
    BY <1>1, BasedIsShown, LenProperties DEF IInv, Sorts
<1>3. Held \in 1 .. Len(quads)
    BY <1>1, ViewLast
<1>4. /\ Handle(quads, Delete(Held)) = qs /\ Stored(quads, Delete(Held)) = qs
      /\ qs \in Seq(Sound) /\ Len(qs) = Len(quads) - 1
    BY <1>2, <1>3, Deleted
<1>5. c \in CallType /\ c.sent = Delete(Held) /\ Reverses(c, quads)
    BY <1>2, <1>3, CallDelete
<1> HIDE DEF c, qs
<1>6. calls' = Append(calls, c) /\ quads' = qs /\ drawn' = InitBuffers(qs, now)
    BY <1>1, <1>4 DEF Query, Show, c
<1>7. Leads(doc, Append(calls, c), qs) /\ Append(calls, c) \in Seq(CallType)
    <2>1. Leads(doc, Append(calls, c), Stored(quads, c.sent))
        BY <1>2, <1>5, LeadsMore
    <2> QED
        BY <1>2, <1>4, <1>5, <2>1
<1>8. Sorts'
    <2>1. Len(qs) <= MaxQuads
        BY <1>2, <1>4, BoundAssumption
    <2> QED
        BY <1>1, <1>2, <1>4, <1>6, <1>7, <2>1 DEF Sorts
<1> QED
    BY <1>1, <1>6, <1>7, <1>8, NothingHeld DEF IInv

-----------------------------------------------------------------------------
(* Answers, and the envelope *)

LEMMA AcceptedStep ==
    ASSUME IInv, Accepted
    PROVE  IInv'
<1>1. /\ calls # <<>> /\ doc' = Stored(doc, Head(calls).sent) /\ calls' = Tail(calls)
      /\ UNCHANGED <<quads, view, now, drawn, steps>>
    BY DEF Accepted
<1>2. calls \in Seq(CallType) /\ Leads(doc, calls, Based(view, quads))
    BY DEF IInv, Sorts
<1>3. /\ Head(calls) = calls[1] /\ Tail(calls) \in Seq(CallType)
      /\ Leads(Stored(doc, calls[1].sent), Tail(calls), Based(view, quads))
    BY <1>1, <1>2, LeadsOn
<1> QED
    BY <1>1, <1>3 DEF IInv, Sorts

LEMMA MadeAgain ==
    ASSUME NEW qs, NEW point, NEW old
    PROVE  RecomputeEnvelope(InitBuffers(qs, old), qs, point) = InitBuffers(qs, point)
BY DEF RecomputeEnvelope, InitBuffers

LEMMA UpdateEnvelopesStep ==
    ASSUME IInv, NEW point \in EnvPoints, UpdateEnvelopes(point)
    PROVE  IInv'
<1>1. /\ now' = point /\ drawn' = RecomputeEnvelope(drawn, quads, point)
      /\ UNCHANGED <<quads, doc, view, calls, steps>>
    BY DEF UpdateEnvelopes
<1>2. drawn' = InitBuffers(quads, point)
    BY <1>1, MadeAgain DEF IInv, Sorts
<1> QED
    BY <1>1, <1>2 DEF IInv, Sorts

LEMMA InitialInv ==
    ASSUME Init
    PROVE  IInv
<1>1. InitialQuads \in Seq(Sound)
    <2>1. Len(InitialQuads) \in Nat /\ DOMAIN InitialQuads = 1 .. Len(InitialQuads)
          /\ \A q \in 1 .. Len(InitialQuads) : InitialQuads[q] \in Quad
        BY QuadAssumption, ElementOfSeq, LenProperties
    <2>2. \A q \in 1 .. Len(InitialQuads) : InitialQuads[q].env # Undef
        BY <2>1, QuadAssumption DEF Range
    <2>3. \A q \in 1 .. Len(InitialQuads) : InitialQuads[q] \in Sound
        BY <2>1, <2>2, SoundQuads
    <2> QED
        BY <2>1, <2>3, QuadAssumption
<1>2. Leads(InitialQuads, <<>>, InitialQuads)
    BY <1>1, LeadsNone
<1>3. HoldOK(view, quads) /\ Based(view, quads) = quads
    BY NothingHeld DEF Init
<1>4. Sorts
    BY <1>1, QuadAssumption DEF Init, Sorts
<1> QED
    BY <1>2, <1>3, <1>4 DEF IInv, Init

LEMMA Joined ==
    ASSUME NEW a \in Op, NEW b \in Op, NEW c \in Op
    PROVE  <<a>> \o <<b>> \o <<c>> = <<a, b, c>> /\ <<a>> \o <<>> = <<a>> /\ <<>> \o <<a>> \o <<>> = <<a>>
<1> DEFINE s == <<a>> \o <<b>>
           t == s \o <<c>>
           u == <<a, b, c>>
<1>1. /\ <<a>> \in Seq(Op) /\ <<b>> \in Seq(Op) /\ <<c>> \in Seq(Op)
      /\ Len(<<a>>) = 1 /\ Len(<<b>>) = 1 /\ Len(<<c>>) = 1
      /\ <<a>>[1] = a /\ <<b>>[1] = b /\ <<c>>[1] = c
    OBVIOUS
<1>2. s \in Seq(Op) /\ Len(s) = 2 /\ s[1] = a /\ s[2] = b
    BY <1>1, ConcatProperties
<1> HIDE DEF s
<1>3. t \in Seq(Op) /\ Len(t) = 3 /\ t[1] = a /\ t[2] = b /\ t[3] = c
    <2> DEFINE v == <<c>>
    <2>1. v \in Seq(Op) /\ Len(v) = 1 /\ v[1] = c /\ t = s \o v
        BY <1>1
    <2> HIDE DEF v, t
    <2>2. /\ s \o v \in Seq(Op) /\ Len(s \o v) = Len(s) + Len(v)
          /\ \A i \in 1 .. Len(s) + Len(v) : (s \o v)[i] = IF i <= Len(s) THEN s[i] ELSE v[i - Len(s)]
        BY <1>2, <2>1, ConcatProperties
    <2>3. Len(t) = 3 /\ \A i \in 1 .. 3 : t[i] = IF i <= 2 THEN s[i] ELSE v[i - 2]
        BY <1>2, <2>1, <2>2
    <2>4. t[1] = s[1] /\ t[2] = s[2] /\ t[3] = v[1]
        BY <2>3
    <2> QED
        BY <1>2, <2>1, <2>2, <2>3, <2>4
<1> HIDE DEF t
<1>4. u \in Seq(Op) /\ Len(u) = 3 /\ u[1] = a /\ u[2] = b /\ u[3] = c
    OBVIOUS
<1> HIDE DEF u
<1>5. \A k \in 1 .. 3 : t[k] = u[k]
    BY <1>3, <1>4
<1>6. t = u
    BY <1>3, <1>4, <1>5, SeqEqual
<1>7. <<a>> \o <<>> = <<a>> /\ <<>> \o <<a>> \o <<>> = <<a>>
    OBVIOUS
<1> QED
    BY <1>6, <1>7 DEF t, s, u

(* A refusal takes the only request back. *)
LEMMA OneTakenBack ==
    ASSUME NEW cs \in Seq(CallType), Len(cs) = 1, cs[1].tracked
    PROVE  /\ AfterRefusal(cs) = <<cs[1].reverse>> /\ cs[1].reverse \in Op /\ cs[1].op \in Op
           /\ \A op \in Op : Around(cs, op) = <<cs[1].reverse, op, cs[1].op>>
<1> DEFINE c == cs[1]
<1>1. c \in CallType /\ c.tracked /\ Head(cs) = c
    BY ElementOfSeq
<1>2. c \in TrackedCall /\ c.reverse \in Op /\ c.op \in Op
    BY <1>1 DEF TrackedCall, CallType
<1>3. Tracked(cs) = <<c>>
    BY TrackedTyped
<1> HIDE DEF c
<1>4. <<c>> \in Seq(TrackedCall) /\ Tail(<<c>>) = <<>> /\ <<>> \in Seq(TrackedCall)
    BY <1>2
<1>5. Forward(<<c>>) = <<c.op>> /\ Backward(<<c>>) = <<c.reverse>> /\ Forward(<<>>) = <<>>
    BY <1>2, <1>4, RemadeTyped
<1>6. AfterRefusal(cs) = <<c.reverse>> \o <<>>
    BY <1>1, <1>3, <1>4, <1>5 DEF AfterRefusal
<1>7. \A op \in Op : Around(cs, op) = <<c.reverse>> \o <<op>> \o <<c.op>>
    BY <1>3, <1>5 DEF Around
<1>8. <<c.reverse>> \o <<>> = <<c.reverse>>
    BY <1>2, Joined
<1>9. \A op \in Op : <<c.reverse>> \o <<op>> \o <<c.op>> = <<c.reverse, op, c.op>>
    BY <1>2, Joined
<1> QED
    BY <1>2, <1>6, <1>7, <1>8, <1>9 DEF c

LEMMA RefusedStep ==
    ASSUME Tame, IInv, Refused
    PROVE  IInv'
<1> DEFINE c == calls[1]
           b == Based(view, quads)
           qs == Handle(quads, c.reverse)
<1>1. /\ calls # <<>> /\ calls' = Tail(calls) /\ UNCHANGED <<doc, view, now, steps>>
      /\ ~ Possible(doc, Head(calls).sent) \/ MadeGood(Head(calls))
      /\ Show(Handled(quads, AfterRefusal(calls)))
    BY DEF Refused, Tame
<1>2. calls \in Seq(CallType) /\ Leads(doc, calls, b) /\ quads \in Seq(Sound) /\ now \in EnvPoints
      /\ Len(quads) <= MaxQuads /\ Len(quads) \in Nat /\ doc \in Seq(Sound)
    BY LeadsEnds, LenProperties DEF IInv, Sorts
<1> HIDE DEF b
<1>3. /\ Reverses(c, doc) /\ Head(calls) = c /\ c \in CallType /\ Tail(calls) \in Seq(CallType)
      /\ Len(calls) = 1 => b = Stored(doc, c.sent)
    BY <1>1, <1>2, LeadsOn
<1>4. MadeGood(c) /\ c.op = c.sent
    BY <1>1, <1>3 DEF Reverses
<1>5. /\ Len(calls) = 1 /\ c.tracked /\ Exact(c, doc)
      /\ ~ Holding(IF c.sent.kind = "create" THEN Len(quads) ELSE c.sent.q)
    BY <1>3, <1>4 DEF MadeGood, Exact
<1>6. b = Stored(doc, c.sent)
    BY <1>3, <1>5
<1>7. calls' = <<>>
    BY <1>1, <1>2, <1>5, HeadTailProperties, EmptySeq
<1>8. quads' = qs /\ drawn' = InitBuffers(qs, now)
    <2>1. AfterRefusal(calls) = <<c.reverse>> /\ c.reverse \in Op
        BY <1>2, <1>5, OneTakenBack
    <2>2. Handled(quads, <<c.reverse>>) = qs
        BY <1>2, <2>1, HandledOne
    <2> QED
        BY <1>1, <2>1, <2>2 DEF Show
<1> HIDE DEF c, qs
<1>9. CASE view.mode = "none"
    <2>1. b = quads
        BY <1>9 DEF b, Based
    <2>2. qs = doc /\ Len(doc) <= Len(quads) /\ Len(doc) \in Nat
        BY <1>2, <1>5, <1>6, <2>1, TakenBackWhole, LenProperties DEF qs
    <2>3. Leads(doc, <<>>, doc)
        BY <1>2, LeadsNone
    <2>4. HoldOK(view', quads') /\ Based(view', quads') = quads'
        BY <1>1, <1>9 DEF HoldOK, Based
    <2>5. Len(qs) <= MaxQuads
        BY <1>2, <2>2, BoundAssumption
    <2> QED
        BY <1>1, <1>2, <1>3, <1>7, <1>8, <2>2, <2>3, <2>4, <2>5 DEF IInv, Sorts
<1>10. CASE view.mode # "none"
    <2> DEFINE w == view.last.quad
    <2>1. Held \in 1 .. Len(quads) /\ w \in Sound /\ b = Put(quads, Held, w)
        BY <1>10, HeldFacts DEF IInv, b
    <2>2. Apart(c, doc, quads, Held, w)
        BY <1>5, <1>6, <1>10, <2>1 DEF Apart, Holding
    <2> HIDE DEF w
    <2>3. /\ Held \in 1 .. Len(qs) /\ qs \in Seq(Sound) /\ Put(qs, Held, w) = doc
          /\ qs[Held] = quads[Held] /\ Len(qs) <= Len(quads)
        BY <1>2, <1>5, <2>1, <2>2, TakenBack DEF qs
    <2>4. HoldOK(view, qs)
        <3>1. HoldOK(view, quads)
            BY DEF IInv
        <3> QED
            BY <2>3, <3>1 DEF HoldOK, Held
    <2>5. Based(view, qs) = doc
        BY <1>10, <2>3 DEF Based, Held, w
    <2>6. Leads(doc, <<>>, doc)
        BY <1>2, LeadsNone
    <2>7. Len(qs) <= MaxQuads
        <3>1. Len(qs) \in Nat
            BY <2>3, LenProperties
        <3> QED
            BY <1>2, <2>3, <3>1, BoundAssumption
    <2> QED
        BY <1>1, <1>2, <1>3, <1>7, <1>8, <2>3, <2>4, <2>5, <2>6, <2>7 DEF IInv, Sorts
<1> QED
    BY <1>9, <1>10

-----------------------------------------------------------------------------
(* Operations of other users *)

LEMMA Forgotten ==
    ASSUME NEW cs \in Seq(CallType)
    PROVE  /\ cs = <<>> => FirstForgotten(cs) = <<>>
           /\ Len(cs) = 1 /\ cs[1].tracked =>
                 FirstForgotten(cs) = [cs EXCEPT ![1].tracked = FALSE]
<1> DEFINE I == {k \in 1 .. Len(cs) : cs[k].tracked}
<1>1. FirstForgotten(cs) =
         IF I = {} THEN cs ELSE
         IF Min(I) = 0 THEN cs ELSE [cs EXCEPT ![Min(I)].tracked = FALSE]
    BY Zenon DEF FirstForgotten, SelectInSeq
<1>2. ASSUME cs = <<>> PROVE I = {}
    BY <1>2
<1>3. ASSUME Len(cs) = 1, cs[1].tracked PROVE I = {1}
    BY <1>3
<1>4. Min({1}) = 1 /\ {1} # {} /\ 1 # 0
    BY DEF Min
<1> HIDE DEF I
<1>5. cs = <<>> => FirstForgotten(cs) = <<>>
    BY <1>1, <1>2
<1>6. ASSUME Len(cs) = 1, cs[1].tracked
      PROVE  FirstForgotten(cs) = [cs EXCEPT ![1].tracked = FALSE]
    <2>1. I = {1}
        BY <1>3, <1>6
    <2>2. FirstForgotten(cs) =
             IF {1} = {} THEN cs ELSE
             IF Min({1}) = 0 THEN cs ELSE [cs EXCEPT ![Min({1})].tracked = FALSE]
        BY <1>1, <2>1
    <2> QED
        BY <1>4, <2>2
<1> QED
    BY <1>5, <1>6

LEMMA Untracked ==
    ASSUME NEW c \in CallType
    PROVE  [<<c>> EXCEPT ![1].tracked = FALSE] = <<[c EXCEPT !.tracked = FALSE]>>
<1> DEFINE f == [c EXCEPT !.tracked = FALSE]
           s == <<c>>
           t == [s EXCEPT ![1] = f]
           u == <<f>>
<1>1. f \in CallType
    BY DEF CallType
<1>2. s \in Seq(CallType) /\ Len(s) = 1 /\ 1 \in 1 .. Len(s) /\ s[1] = c
    OBVIOUS
<1>3. [<<c>> EXCEPT ![1].tracked = FALSE] = t
    BY <1>2
<1> HIDE DEF f, s
<1>4. t \in Seq(CallType) /\ Len(t) = 1 /\ t[1] = f
    BY <1>1, <1>2, ExceptSeq
<1>5. u \in Seq(CallType) /\ Len(u) = 1 /\ u[1] = f
    BY <1>1
<1> HIDE DEF t, u
<1>6. \A k \in 1 .. Len(t) : t[k] = u[k]
    BY <1>4, <1>5
<1>7. t = u
    BY <1>4, <1>5, <1>6, SeqEqual
<1> QED
    BY <1>3, <1>7 DEF t, u, f, s

FromAnother(op, d) == Crossing(op, d) \/ \E q \in 1 .. Len(d) : op = Delete(q)

LEMMA AsStored ==
    ASSUME NEW d \in Seq(Sound), NEW op, FromAnother(op, d)
    PROVE  /\ op \in Op /\ Possible(d, op) /\ Handle(d, op) = Stored(d, op)
           /\ Stored(d, op) \in Seq(Sound)
           /\ op.kind # "create" => Len(Stored(d, op)) <= Len(d)
           /\ op.kind = "create" => Len(Stored(d, op)) = Len(d) + 1
<1>0. Len(d) \in Nat
    BY LenProperties
<1>1. CASE \E quad \in Sound : op = Create(quad)
    <2>1. PICK quad \in Sound : op = Create(quad)
        BY <1>1
    <2>2. op \in Op /\ op.kind = "create"
        BY <2>1, OpsMade DEF Create
    <2> QED
        BY <1>0, <2>1, <2>2, Created
<1>2. CASE \E q \in 1 .. Len(d), quad \in Sound : op = Edit(q, quad) /\ quad.env = d[q].env
    <2>1. PICK q \in 1 .. Len(d), quad \in Sound : op = Edit(q, quad) /\ quad.env = d[q].env
        BY <1>2
    <2>2. op \in Op /\ op.kind = "edit"
        BY <1>0, <2>1, OpsMade DEF Edit
    <2>3. Possible(d, op) /\ Handle(d, op) = Put(d, q, quad) /\ Stored(d, op) = Put(d, q, quad)
        BY <2>1, Edited
    <2>4. Put(d, q, quad) \in Seq(Sound) /\ Len(Put(d, q, quad)) = Len(d)
        BY PutAt
    <2> QED
        BY <1>0, <2>2, <2>3, <2>4
<1>3. CASE \E q \in 1 .. Len(d) : op = Delete(q)
    <2>1. PICK q \in 1 .. Len(d) : op = Delete(q)
        BY <1>3
    <2>2. op \in Op /\ op.kind = "delete"
        BY <1>0, <2>1, OpsMade DEF Delete, Op
    <2>3. /\ Possible(d, op) /\ Handle(d, op) = Stored(d, op) /\ Stored(d, op) \in Seq(Sound)
          /\ Len(Stored(d, op)) = Len(d) - 1
        BY <2>1, Deleted
    <2> QED
        BY <1>0, <2>2, <2>3
<1> QED
    BY <1>1, <1>2, <1>3 DEF FromAnother, Crossing

LEMMA PutRemoved ==
    ASSUME NEW qs \in Seq(Sound), NEW q \in 1 .. Len(qs), NEW h \in 1 .. Len(qs), h < q,
           NEW w \in Sound
    PROVE  /\ h \in 1 .. Len(RemoveAt(qs, q)) /\ RemoveAt(qs, q)[h] = qs[h]
           /\ Put(RemoveAt(qs, q), h, w) = RemoveAt(Put(qs, h, w), q)
<1> DEFINE n == Len(qs)
           r == RemoveAt(qs, q)
           p == Put(qs, h, w)
           u == Put(r, h, w)
           v == RemoveAt(p, q)
<1>1. n \in Nat
    BY LenProperties
<1>2. /\ r \in Seq(Sound) /\ Len(r) = n - 1
      /\ \A j \in 1 .. n - 1 : r[j] = IF j < q THEN qs[j] ELSE qs[j + 1]
    BY Deleted
<1>3. p \in Seq(Sound) /\ Len(p) = n /\ p[h] = w /\ \A j \in 1 .. n : j # h => p[j] = qs[j]
    BY PutAt
<1> HIDE DEF r, p
<1>4. h \in 1 .. Len(r) /\ q \in 1 .. Len(p) /\ r[h] = qs[h]
    BY <1>1, <1>2, <1>3
<1>5. u \in Seq(Sound) /\ Len(u) = n - 1 /\ u[h] = w /\ \A j \in 1 .. n - 1 : j # h => u[j] = r[j]
    <2>1. /\ u \in Seq(Sound) /\ Len(u) = Len(r) /\ u[h] = w
          /\ \A j \in 1 .. Len(r) : j # h => u[j] = r[j]
        BY <1>2, <1>4, PutAt
    <2> HIDE DEF u
    <2> QED
        BY <1>2, <2>1
<1>6. /\ v \in Seq(Sound) /\ Len(v) = n - 1
      /\ \A j \in 1 .. n - 1 : v[j] = IF j < q THEN p[j] ELSE p[j + 1]
    <2>1. /\ v \in Seq(Sound) /\ Len(v) = Len(p) - 1
          /\ \A j \in 1 .. Len(p) - 1 : v[j] = IF j < q THEN p[j] ELSE p[j + 1]
        BY <1>3, <1>4, Deleted
    <2> HIDE DEF v
    <2> QED
        BY <1>3, <2>1
<1> HIDE DEF u, v
<1>7. ASSUME NEW j \in 1 .. n - 1 PROVE u[j] = v[j]
    <2>1. CASE j = h
        <3>1. u[j] = w /\ v[j] = p[j] /\ p[j] = w
            BY <1>1, <1>3, <1>5, <1>6, <2>1
        <3> QED
            BY <3>1
    <2>2. CASE j # h /\ j < q
        <3>1. j \in 1 .. n /\ u[j] = r[j] /\ r[j] = qs[j] /\ v[j] = p[j]
            BY <1>1, <1>2, <1>5, <1>6, <2>2
        <3> QED
            BY <1>3, <2>2, <3>1
    <2>3. CASE j # h /\ ~ (j < q)
        <3>1. /\ j + 1 \in 1 .. n /\ j + 1 # h /\ u[j] = r[j] /\ r[j] = qs[j + 1]
              /\ v[j] = p[j + 1]
            BY <1>1, <1>2, <1>5, <1>6, <2>3
        <3> QED
            BY <1>3, <3>1
    <2> QED
        BY <2>1, <2>2, <2>3
<1>8. u = v
    <2>1. Len(u) = Len(v) /\ \A j \in 1 .. Len(u) : u[j] = v[j]
        BY <1>5, <1>6, <1>7
    <2> QED
        BY <1>5, <1>6, <2>1, SeqEqual
<1> QED
    BY <1>4, <1>8 DEF r, p, u, v

(* An operation that leaves the quad that is held alone is made beside it. *)
LEMMA BesideHeld ==
    ASSUME NEW qs \in Seq(Sound), NEW h \in 1 .. Len(qs), NEW w \in Sound,
           NEW op, FromAnother(op, Put(qs, h, w)),
           op.kind = "edit" => op.q # h, op.kind = "delete" => op.q > h
    PROVE  /\ Handle(qs, op) \in Seq(Sound)
           /\ h \in 1 .. Len(Handle(qs, op)) /\ Handle(qs, op)[h] = qs[h]
           /\ Put(Handle(qs, op), h, w) = Stored(Put(qs, h, w), op)
           /\ op.kind # "create" => Len(Handle(qs, op)) <= Len(qs)
           /\ op.kind = "create" => Len(Handle(qs, op)) = Len(qs) + 1
<1> DEFINE d == Put(qs, h, w)
<1>1. /\ d \in Seq(Sound) /\ Len(d) = Len(qs) /\ Len(qs) \in Nat
      /\ \A j \in 1 .. Len(qs) : j # h => d[j] = qs[j]
    BY PutAt, LenProperties
<1>2. CASE \E quad \in Sound : op = Create(quad)
    <2>1. PICK quad \in Sound : op = Create(quad)
        BY <1>2
    <2>2. op.kind = "create"
        BY <2>1 DEF Create
    <2> DEFINE a == Append(qs, quad)
    <2>3. /\ Handle(qs, op) = a /\ a \in Seq(Sound) /\ Len(a) = Len(qs) + 1
          /\ \A q \in 1 .. Len(qs) : a[q] = qs[q]
        BY <2>1, Created
    <2>4. Stored(d, op) = Append(d, quad)
        <3> HIDE DEF d
        <3> QED
            BY <1>1, <2>1, Created
    <2>5. Put(a, h, w) = Append(d, quad)
        BY PutBefore
    <2> HIDE DEF a, d
    <2>6. h \in 1 .. Len(a) /\ a[h] = qs[h]
        BY <1>1, <2>3
    <2> QED
        BY <2>2, <2>3, <2>4, <2>5, <2>6 DEF d
<1>3. CASE \E q \in 1 .. Len(d), quad \in Sound : op = Edit(q, quad) /\ quad.env = d[q].env
    <2> HIDE DEF d
    <2>1. PICK q \in 1 .. Len(d), quad \in Sound : op = Edit(q, quad) /\ quad.env = d[q].env
        BY <1>3
    <2>2. op.kind = "edit" /\ op.q = q
        BY <2>1 DEF Edit
    <2>3. q # h /\ q \in 1 .. Len(qs) /\ quad.env = qs[q].env
        BY <1>1, <2>1, <2>2
    <2> DEFINE a == Put(qs, q, quad)
    <2>4. Handle(qs, op) = a
        BY <2>1, <2>3, Edited
    <2>5. a \in Seq(Sound) /\ Len(a) = Len(qs) /\ a[h] = qs[h]
        BY <2>3, PutAt
    <2>6. Stored(d, op) = Put(d, q, quad)
        BY <1>1, <2>1, Edited
    <2>7. Put(Put(qs, q, quad), h, w) = Put(Put(qs, h, w), q, quad)
        BY <2>3, PutApart
    <2> HIDE DEF a
    <2>8. h \in 1 .. Len(a) /\ Len(a) <= Len(qs)
        BY <1>1, <2>5
    <2> QED
        BY <2>2, <2>4, <2>5, <2>6, <2>7, <2>8 DEF a, d
<1>4. CASE \E q \in 1 .. Len(d) : op = Delete(q)
    <2> HIDE DEF d
    <2>1. PICK q \in 1 .. Len(d) : op = Delete(q)
        BY <1>4
    <2>2. op.kind = "delete" /\ op.q = q
        BY <2>1 DEF Delete
    <2>3. h < q /\ q \in 1 .. Len(qs)
        BY <1>1, <2>1, <2>2
    <2> DEFINE a == RemoveAt(qs, q)
    <2>4. Handle(qs, op) = a /\ a \in Seq(Sound) /\ Len(a) = Len(qs) - 1
        BY <2>1, <2>3, Deleted
    <2>5. Stored(d, op) = RemoveAt(d, q)
        BY <1>1, <2>1, Deleted
    <2>6. /\ h \in 1 .. Len(a) /\ a[h] = qs[h]
          /\ Put(a, h, w) = RemoveAt(Put(qs, h, w), q)
        BY <2>3, PutRemoved
    <2> HIDE DEF a
    <2>7. Len(a) <= Len(qs)
        BY <1>1, <2>4
    <2> QED
        BY <2>2, <2>4, <2>5, <2>6, <2>7 DEF d
<1> QED
    BY <1>2, <1>3, <1>4 DEF FromAnother, Crossing

LEMMA SameWhenIdle ==
    ASSUME IInv
    PROVE  doc \in Seq(Sound) /\ (calls = <<>> => Based(view, quads) = doc)
<1>1. calls \in Seq(CallType) /\ Leads(doc, calls, Based(view, quads))
    BY DEF IInv, Sorts
<1> QED
    BY <1>1, LeadsEnds

(* While another quad is held nothing is on its way. *)
LEMMA OthersWhileHeld ==
    ASSUME Tame, IInv, NEW op, FromAnother(op, doc), Others(op), view.mode # "none",
           op.kind = "create" => Len(quads) < MaxQuads
    PROVE  IInv'
<1> DEFINE w == view.last.quad
           qs == Handle(quads, op)
<1>1. /\ calls = <<>> /\ doc' = Stored(doc, op) /\ Show(Handled(quads, Around(calls, op)))
      /\ calls' = FirstForgotten(calls) /\ UNCHANGED <<view, now>>
      /\ op.kind = "edit" => op.q # Held
      /\ op.kind = "delete" => op.q > Held
    BY DEF Others, LeftAlone, Tame
<1>2. /\ quads \in Seq(Sound) /\ Len(quads) \in Nat /\ Len(quads) <= MaxQuads
      /\ calls \in Seq(CallType) /\ now \in EnvPoints /\ doc \in Seq(Sound)
      /\ Based(view, quads) = doc
    BY <1>1, LeadsEnds, LenProperties DEF IInv, Sorts
<1>3. Held \in 1 .. Len(quads) /\ w \in Sound /\ doc = Put(quads, Held, w)
    BY <1>2, HeldFacts DEF IInv
<1> HIDE DEF w
<1>4. op \in Op /\ Stored(doc, op) \in Seq(Sound)
    BY <1>2, AsStored
<1>5. /\ qs \in Seq(Sound) /\ Held \in 1 .. Len(qs) /\ qs[Held] = quads[Held]
      /\ Put(qs, Held, w) = Stored(doc, op)
      /\ op.kind # "create" => Len(qs) <= Len(quads)
      /\ op.kind = "create" => Len(qs) = Len(quads) + 1
    BY <1>1, <1>2, <1>3, BesideHeld
<1>6. quads' = qs /\ drawn' = InitBuffers(qs, now)
    <2>1. Tracked(calls) = <<>> /\ Forward(<<>>) = <<>> /\ Backward(<<>>) = <<>>
        <3>1. <<>> \in Seq(TrackedCall)
            OBVIOUS
        <3> QED
            BY <1>1, <1>2, <3>1, TrackedTyped, RemadeTyped
    <2>2. Around(calls, op) = <<op>>
        BY <1>4, <2>1, Joined DEF Around
    <2>3. Handled(quads, <<op>>) = qs
        BY <1>2, <1>4, HandledOne
    <2> HIDE DEF qs
    <2> QED
        BY <1>1, <2>2, <2>3 DEF Show
<1>7. calls' = <<>>
    BY <1>1, <1>2, Forgotten
<1> HIDE DEF qs
<1>8. HoldOK(view, qs)
    <2>1. HoldOK(view, quads)
        BY DEF IInv
    <2> QED
        BY <1>5, <2>1 DEF HoldOK, Held
<1>9. Based(view, qs) = doc'
    BY <1>1, <1>5 DEF Based, Held, w
<1>10. Leads(doc', <<>>, doc')
    BY <1>1, <1>4, LeadsNone
<1>11. Len(qs) <= MaxQuads
    <2>1. Len(qs) \in Nat
        BY <1>5, LenProperties
    <2> QED
        BY <1>2, <1>5, <2>1, BoundAssumption
<1>12. Sorts'
    BY <1>1, <1>2, <1>5, <1>6, <1>7, <1>11 DEF Sorts
<1> QED
    BY <1>1, <1>6, <1>7, <1>8, <1>9, <1>10, <1>12 DEF IInv

LEMMA OthersWhileIdle ==
    ASSUME Tame, IInv, NEW op, FromAnother(op, doc), Others(op), view.mode = "none", calls = <<>>,
           op.kind = "create" => Len(quads) < MaxQuads
    PROVE  IInv'
<1> DEFINE qs == Handle(quads, op)
<1>1. /\ doc' = Stored(doc, op) /\ Show(Handled(quads, Around(calls, op)))
      /\ calls' = FirstForgotten(calls) /\ UNCHANGED <<view, now>>
    BY DEF Others
<1>2. /\ quads \in Seq(Sound) /\ Len(quads) \in Nat /\ Len(quads) <= MaxQuads
      /\ calls \in Seq(CallType) /\ now \in EnvPoints /\ doc = quads
    <2>1. /\ quads \in Seq(Sound) /\ Len(quads) <= MaxQuads
          /\ calls \in Seq(CallType) /\ now \in EnvPoints /\ Leads(doc, calls, quads)
        BY DEF IInv, Sorts, Based
    <2>2. doc = quads
        BY SameWhenIdle DEF Based
    <2> QED
        BY <2>1, <2>2, LenProperties
<1>3. /\ op \in Op /\ qs = Stored(doc, op) /\ qs \in Seq(Sound)
      /\ op.kind # "create" => Len(qs) <= Len(quads)
      /\ op.kind = "create" => Len(qs) = Len(quads) + 1
    BY <1>2, AsStored
<1>4. quads' = qs /\ drawn' = InitBuffers(qs, now)
    <2>1. Tracked(calls) = <<>> /\ Forward(<<>>) = <<>> /\ Backward(<<>>) = <<>>
        <3>1. <<>> \in Seq(TrackedCall)
            OBVIOUS
        <3> QED
            BY <1>2, <3>1, TrackedTyped, RemadeTyped
    <2>2. Around(calls, op) = <<op>>
        BY <1>3, <2>1, Joined DEF Around
    <2>3. Handled(quads, <<op>>) = qs
        BY <1>2, <1>3, HandledOne
    <2> HIDE DEF qs
    <2> QED
        BY <1>1, <2>2, <2>3 DEF Show
<1>5. calls' = <<>>
    BY <1>1, <1>2, Forgotten
<1> HIDE DEF qs
<1>6. HoldOK(view', qs) /\ Based(view', qs) = qs
    BY <1>1 DEF HoldOK, Based
<1>7. Leads(doc', <<>>, doc')
    BY <1>1, <1>3, LeadsNone
<1>8. Len(qs) <= MaxQuads
    <2>1. Len(qs) \in Nat
        BY <1>3, LenProperties
    <2> QED
        BY <1>2, <1>3, <2>1, BoundAssumption
<1>9. Sorts'
    BY <1>1, <1>2, <1>3, <1>4, <1>5, <1>8 DEF Sorts
<1> QED
    BY <1>1, <1>3, <1>4, <1>5, <1>6, <1>7, <1>9 DEF IInv

(* How long the list is after an operation that crossed a request. *)
LEMMA CrossedLength ==
    ASSUME NEW d \in Seq(Sound), NEW op, Crossing(op, d), NEW e, e = Stored(d, op),
           NEW c, c \in Op, Possible(d, c), Possible(e, c), NEW qs, qs = Stored(d, c)
    PROVE  \/ Len(Stored(e, c)) <= Len(qs)
           \/ op.kind = "create" /\ Len(Stored(e, c)) = Len(qs) + 1
<1>1. /\ e \in Seq(Sound) /\ Len(d) \in Nat /\ Len(e) \in Nat
      /\ Len(e) <= Len(d) \/ (op.kind = "create" /\ Len(e) = Len(d) + 1)
    BY AsStored, LenProperties DEF FromAnother
<1>2. \E i \in Int : Len(Stored(d, c)) = Len(d) + i /\ Len(Stored(e, c)) = Len(e) + i
    <2>1. CASE c \in [kind : {"edit"}, q : Nat, quad : Sound]
        <3>1. c = Edit(c.q, c.quad) /\ c.quad \in Sound /\ c.q \in 1 .. Len(d) /\ c.q \in 1 .. Len(e)
            BY <1>1, <2>1, LenProperties DEF Edit, Possible
        <3> DEFINE q == c.q
                   x == c.quad
        <3>2. Stored(d, c) = Put(d, q, x) /\ Stored(e, c) = Put(e, q, x)
            BY <1>1, <3>1, Edited
        <3>3. Len(Put(d, q, x)) = Len(d) /\ Len(Put(e, q, x)) = Len(e)
            <4>1. x \in Sound /\ q \in 1 .. Len(d) /\ q \in 1 .. Len(e)
                BY <3>1
            <4> HIDE DEF q, x
            <4> QED
                BY <1>1, <4>1, PutAt
        <3>4. Len(d) = Len(d) + 0 /\ Len(e) = Len(e) + 0 /\ 0 \in Int
            BY <1>1
        <3> QED
            BY <3>2, <3>3, <3>4
    <2>2. CASE c \in [kind : {"create"}, quad : Sound]
        <3>1. c = Create(c.quad) /\ c.quad \in Sound
            BY <2>2 DEF Create
        <3>2. Len(Stored(d, c)) = Len(d) + 1 /\ Len(Stored(e, c)) = Len(e) + 1
            BY <1>1, <3>1, Created
        <3> QED
            BY <3>2
    <2>3. CASE c \in [kind : {"delete"}, q : Nat]
        <3>1. c = Delete(c.q) /\ c.q \in 1 .. Len(d) /\ c.q \in 1 .. Len(e)
            BY <1>1, <2>3, LenProperties DEF Delete, Possible
        <3>2. Len(Stored(d, c)) = Len(d) - 1 /\ Len(Stored(e, c)) = Len(e) - 1
            BY <1>1, <3>1, Deleted
        <3>3. Len(d) - 1 = Len(d) + (-1) /\ Len(e) - 1 = Len(e) + (-1) /\ -1 \in Int
            BY <1>1
        <3> QED
            BY <3>2, <3>3
    <2> QED
        BY <2>1, <2>2, <2>3 DEF Op
<1> QED
    BY <1>1, <1>2

(* A request that is crossed is forgotten by the history: what is left of  *)
(* it on its way cannot be taken back any more.                            *)
LEMMA OthersCrossing ==
    ASSUME Tame, IInv, NEW op, FromAnother(op, doc), Others(op), view.mode = "none", calls # <<>>,
           op.kind = "create" => Len(quads) < MaxQuads
    PROVE  IInv'
<1> DEFINE c == calls[1]
           f == [c EXCEPT !.tracked = FALSE]
           d == Stored(doc, op)
           qs == Stored(d, c.sent)
<1>1. /\ doc' = d /\ Show(Handled(quads, Around(calls, op)))
      /\ calls' = FirstForgotten(calls) /\ UNCHANGED <<view, now>>
      /\ Len(calls) <= 1 /\ c.tracked /\ op.kind # "delete"
    BY DEF Others, LeftAlone, Tame
<1>2. /\ quads \in Seq(Sound) /\ Len(quads) \in Nat /\ Len(quads) <= MaxQuads
      /\ calls \in Seq(CallType) /\ now \in EnvPoints /\ Leads(doc, calls, quads)
      /\ doc \in Seq(Sound)
    BY LeadsEnds, LenProperties DEF IInv, Sorts, Based
<1>3. Len(calls) = 1
    <2>1. Len(calls) \in Nat /\ Len(calls) # 0
        BY <1>2, LenProperties, EmptySeq
    <2> QED
        BY <1>1, <2>1
<1>4. c \in CallType /\ Reverses(c, doc) /\ quads = Stored(doc, c.sent)
    BY <1>2, <1>3, LeadsOn
<1>5. op \in Op /\ Crossing(op, doc)
    <2>1. ~ \E q \in 1 .. Len(doc) : op = Delete(q)
        BY <1>1 DEF Delete
    <2> QED
        BY <1>2, <2>1, AsStored DEF FromAnother
<1>6. calls' = [calls EXCEPT ![1].tracked = FALSE]
    BY <1>1, <1>2, <1>3, Forgotten
<1>7. AfterRefusal(calls) = <<c.reverse>> /\ c.reverse \in Op /\ c.op \in Op
      /\ Around(calls, op) = <<c.reverse, op, c.op>>
    BY <1>1, <1>2, <1>3, <1>5, OneTakenBack
<1>8. calls' = <<f>>
    <2>1. calls = <<c>>
        BY <1>2, <1>3
    <2> HIDE DEF c
    <2>2. [<<c>> EXCEPT ![1].tracked = FALSE] = <<f>>
        BY <1>4, Untracked
    <2> QED
        BY <1>6, <2>1, <2>2
<1> HIDE DEF c
<1>9. /\ d \in Seq(Sound) /\ Possible(d, c.sent)
      /\ Handle(Handle(Handle(Stored(doc, c.sent), c.reverse), op), c.op) = qs
    BY <1>1, <1>2, <1>4, <1>5, Crossed
<1>10. quads' = qs /\ drawn' = InitBuffers(qs, now)
    <2>1. Handled(quads, <<c.reverse, op, c.op>>) = qs
        BY <1>2, <1>4, <1>5, <1>7, <1>9, HandledThree
    <2> HIDE DEF qs
    <2> QED
        BY <1>1, <1>7, <2>1 DEF Show
<1> HIDE DEF d
<1>11. f \in CallType /\ f.sent = c.sent /\ Reverses(f, d)
    <2>1. f \in CallType /\ f.sent = c.sent /\ f.op = c.op /\ ~ f.tracked
        BY <1>4 DEF CallType
    <2> QED
        BY <1>4, <1>9, <2>1 DEF Reverses
<1>12. qs \in Seq(Sound) /\ Len(qs) <= MaxQuads
    <2>1. c.sent \in Op
        BY <1>4 DEF CallType
    <2>2. qs \in Seq(Sound) /\ Len(qs) \in Nat
        BY <1>9, <2>1, StoredTyped, LenProperties
    <2>3. Len(qs) <= Len(quads) \/ (op.kind = "create" /\ Len(qs) = Len(quads) + 1)
        <3>1. d = Stored(doc, op) /\ Possible(doc, c.sent)
            BY <1>4 DEF d, Reverses
        <3> QED
            BY <1>2, <1>4, <1>5, <1>9, <2>1, <3>1, CrossedLength
    <2> HIDE DEF qs
    <2> QED
        BY <1>2, <2>2, <2>3, BoundAssumption
<1> HIDE DEF f
<1>13. Leads(d, <<f>>, qs)
    <2>1. Leads(d, <<>>, d) /\ <<>> \in Seq(CallType)
        BY <1>9, LeadsNone
    <2>2. Leads(d, Append(<<>>, f), Stored(d, f.sent))
        BY <1>9, <1>11, <2>1, LeadsMore
    <2>3. Append(<<>>, f) = <<f>>
        OBVIOUS
    <2> QED
        BY <1>11, <2>2, <2>3
<1>14. HoldOK(view', qs) /\ Based(view', qs) = qs
    BY <1>1 DEF HoldOK, Based
<1> HIDE DEF qs
<1>15. Sorts'
    BY <1>1, <1>2, <1>8, <1>10, <1>11, <1>12 DEF Sorts
<1> QED
    BY <1>1, <1>8, <1>10, <1>13, <1>14, <1>15 DEF IInv

LEMMA FromOthersStep ==
    ASSUME Tame, IInv, FromOthers
    PROVE  IInv'
<1>1. doc \in Seq(Sound)
    BY SameWhenIdle
<1>2. \A quad \in OthersQuads : quad \in Sound
    BY QuadAssumption, SoundQuads
<1>3. ASSUME NEW op, FromAnother(op, doc), Others(op),
             op.kind = "create" => Len(quads) < MaxQuads
      PROVE  IInv'
    <2>1. CASE view.mode # "none"
        BY <1>3, <2>1, OthersWhileHeld
    <2>2. CASE view.mode = "none" /\ calls = <<>>
        BY <1>3, <2>2, OthersWhileIdle
    <2>3. CASE view.mode = "none" /\ calls # <<>>
        BY <1>3, <2>3, OthersCrossing
    <2> QED
        BY <2>1, <2>2, <2>3
<1>4. ASSUME NEW quad \in OthersQuads, OthersCreate(quad) PROVE IInv'
    <2>1. FromAnother(Create(quad), doc)
        BY <1>2 DEF FromAnother, Crossing
    <2> QED
        BY <1>3, <1>4, <2>1 DEF OthersCreate
<1>5. ASSUME NEW quad \in OthersQuads, NEW q \in 1..MaxQuads, OthersEdit(q, quad) PROVE IInv'
    <2> DEFINE x == WithEnv(quad, doc[q].env)
               op == Edit(q, x)
    <2>1. q \in 1 .. Len(doc) /\ Others(op)
        BY <1>1, <1>5, LenProperties DEF OthersEdit, WithEnv
    <2>2. x \in Sound /\ x.env = doc[q].env
        <3>1. doc[q] \in Sound
            BY <1>1, <2>1, ElementOfSeq
        <3>2. doc[q].env \in {NoEnv, Env}
            BY <3>1 DEF Sound
        <3> QED
            BY <1>2, <3>2, EnvOf
    <2> HIDE DEF x
    <2>3. FromAnother(op, doc)
        BY <2>1, <2>2 DEF FromAnother, Crossing
    <2>4. op.kind # "create"
        BY DEF Edit
    <2> HIDE DEF op
    <2> QED
        BY <1>3, <2>1, <2>3, <2>4
<1>6. ASSUME NEW q \in 1..MaxQuads, OthersDelete(q) PROVE IInv'
    <2> DEFINE op == Delete(q)
    <2>1. Others(op) /\ op.kind = "delete" /\ op.q = q
        BY <1>6 DEF OthersDelete, Delete
    <2>2. q \in 1 .. Len(doc)
        BY <1>1, <2>1, LenProperties DEF Others, Possible
    <2>3. FromAnother(op, doc)
        BY <2>2 DEF FromAnother
    <2> HIDE DEF op
    <2> QED
        BY <1>3, <2>1, <2>3
<1> QED
    BY <1>4, <1>5, <1>6 DEF FromOthers

LEMMA InvKept ==
    ASSUME Tame
    PROVE  IInv /\ [Next]_vars => IInv'
<1> SUFFICES ASSUME IInv, [Next]_vars PROVE IInv'
    OBVIOUS
<1>1. ASSUME NEW q \in 1..MaxQuads, ShowCM(q) PROVE IInv'
    BY <1>1, ShowCMStep
<1>2. ASSUME NEW q \in 1..MaxQuads, NEW grip \in Grips, OnMouseDown(q, grip) PROVE IInv'
    BY <1>2, MouseDownStep
<1>3. ASSUME NEW d \in Moves, OnMouseMove(d) PROVE IInv'
    BY <1>3, MouseMoveStep
<1>4. CASE OnMouseUp
    BY <1>4, MouseUpStep
<1>5. CASE InTheMenu
    <2>1. ASSUME NEW p \in 1..5, NEW x \in Typed, OnEditPos(p, x) PROVE IInv'
        BY <2>1, EditPosStep
    <2>2. ASSUME NEW p \in 1..5, NEW x \in Typed, OnEditColor(p, x) PROVE IInv'
        BY <2>2, EditColorStep
    <2>3. ASSUME NEW e \in {Env} \cup (IF Unsets THEN {Undef} ELSE {}), OnEditPosEnv(e) PROVE IInv'
        BY <2>3, EditPosEnvStep DEF Tame
    <2> QED
        BY <1>5, <2>1, <2>2, <2>3, RecenterStep, DuplicateStep, DeleteStep, HideCMStep DEF InTheMenu
<1>6. CASE CreateQuad
    BY <1>6, CreateQuadStep
<1>7. CASE FromOthers
    BY <1>7, FromOthersStep
<1>8. CASE Accepted
    BY <1>8, AcceptedStep
<1>9. CASE Refused
    BY <1>9, RefusedStep
<1>10. ASSUME NEW point \in EnvPoints, UpdateEnvelopes(point) PROVE IInv'
    BY <1>10, UpdateEnvelopesStep
<1>11. CASE UNCHANGED vars
    BY <1>11 DEF vars, IInv, Sorts
<1> QED
    BY <1>1, <1>2, <1>3, <1>4, <1>5, <1>6, <1>7, <1>8, <1>9, <1>10, <1>11 DEF Next

LEMMA AlwaysInv ==
    ASSUME Tame
    PROVE  Spec => []IInv
<1>1. Init => IInv
    BY InitialInv
<1>2. IInv /\ [Next]_vars => IInv'
    BY InvKept
<1> QED
    BY <1>1, <1>2, PTL DEF Spec

-----------------------------------------------------------------------------
(* The properties *)

(* However often the pointer moves, the points that are held are where     *)
(* they were when the button was pressed, moved by one vector, an edge     *)
(* along its normal up to rounding, and the rest of the quad is as it was. *)
THEOREM DragsDoNotAddUp ==
    ASSUME Tame
    PROVE  Spec => []DragFromStart
<1>1. IInv => DragFromStart
    <2> SUFFICES ASSUME IInv, view.mode = "drag" PROVE DragFromStart
        BY DEF DragFromStart
    <2> DEFINE x == quads[Held]
               y == view.last.quad
               start == y.points
    <2>1. /\ view \in HeldView /\ Dragging(view, x) /\ view.mode # "none"
        BY DEF IInv, HoldOK, Held
    <2>2. y \in Sound /\ view.grip \in Seq(1..5) /\ view.moved \in Point
        BY <2>1 DEF HeldView
    <2>3. start \in [1..5 -> Point]
        BY <2>2 DEF Sound
    <2>4. x = Reshaped(y, Carried(start, view.grip, view.moved)) /\ Along(start, view.grip, view.moved)
        BY <2>1 DEF Dragging
    <2> HIDE DEF x, start
    <2>5. /\ Carried(start, view.grip, view.moved) \in [1..5 -> Point]
          /\ Shifted(start, view.grip, LAMBDA p : Plus(p, view.moved))
                = Carried(start, view.grip, view.moved)
        BY <2>2, <2>3, CarriedPoints
    <2> HIDE DEF y
    <2>6. x.points = Carried(start, view.grip, view.moved) /\ x.colors = y.colors
        BY <2>2, <2>4, <2>5, ReshapedSound
    <2>7. x.points = Shifted(start, view.grip, LAMBDA p : Plus(p, view.moved))
        BY <2>5, <2>6
    <2> QED
        BY <2>4, <2>6, <2>7 DEF DragFromStart, Along, x, y, start, Shifted
<1> QED
    BY <1>1, AlwaysInv, PTL

(* With nothing on its way the client has the server's quads, but for the  *)
(* one that is being dragged, and all of them are quads the server takes:  *)
(* whatever was accepted, refused, or crossed by another user's operation. *)
THEOREM QuadsAgree ==
    ASSUME Tame
    PROVE  Spec => []SameQuads
<1>1. IInv => SameQuads
    <2> SUFFICES ASSUME IInv PROVE SameQuads
        OBVIOUS
    <2>1. quads \in Seq(Sound) /\ doc \in Seq(Sound) /\ (calls = <<>> => Based(view, quads) = doc)
        BY SameWhenIdle DEF IInv, Sorts
    <2>2. quads \in Seq(Quad) /\ doc \in Seq(Quad)
        <3>1. \A s : s \in Seq(Sound) => s \in Seq(Quad)
            BY SoundQuads
        <3> QED
            BY <2>1, <3>1
    <2>3. DOMAIN quads = 1 .. Len(quads) /\ DOMAIN doc = 1 .. Len(doc) /\ \A q \in DOMAIN doc : doc[q].env # Undef
        BY <2>1, ElementOfSeq, LenProperties, SoundQuads
    <2>4. view.mode \in {"none", "drag", "menu"} /\ (view.mode # "none" => Held \in DOMAIN quads)
        BY <2>3 DEF IInv, HoldOK, Held
    <2>5. TypeOK
        BY <2>2, <2>3, <2>4 DEF TypeOK
    <2>6. ASSUME calls = <<>>
          PROVE  /\ Len(quads) = Len(doc)
                 /\ \A q \in DOMAIN doc : quads[q] = doc[q] \/ (view.mode = "drag" /\ q = Held)
        <3>1. CASE view.mode # "drag"
            <4>1. quads = doc
                BY <2>1, <2>6, <3>1, BasedIsShown
            <4> QED
                BY <4>1
        <3>2. CASE view.mode = "drag"
            <4>1. view.mode # "none" /\ Sorts /\ HoldOK(view, quads)
                BY <3>2 DEF IInv
            <4>2. /\ Len(Based(view, quads)) = Len(quads)
                  /\ \A j \in 1 .. Len(quads) : j # Held => Based(view, quads)[j] = quads[j]
                BY <4>1, BasedFacts
            <4>3. Based(view, quads) = doc
                BY <2>1, <2>6
            <4> QED
                BY <2>3, <3>2, <4>2, <4>3
        <3> QED
            BY <3>1, <3>2
    <2> QED
        BY <2>5, <2>6 DEF SameQuads
<1> QED
    BY <1>1, AlwaysInv, PTL

(* A table of n rows of m elements, and the elements in one row.           *)
IsTable(seqs, n, m) == seqs = [q \in 1 .. n |-> [k \in 1 .. m |-> seqs[q][k]]]
EndToEnd(t, seqs, n, m) == \A q \in 1 .. n, k \in 1 .. m : t[m * (q - 1) + k] = seqs[q][k]

LEMMA Pieces ==
    ASSUME NEW n \in Nat, NEW m \in Nat, NEW seqs, IsTable(seqs, n, m)
    PROVE  EndToEnd(FlattenSeq(seqs), seqs, n, m)
<1> DEFINE T == {seqs[q][k] : q \in 1 .. n, k \in 1 .. m}
<1>1. ASSUME NEW q \in 1 .. n PROVE seqs[q] \in Seq(T) /\ Len(seqs[q]) = m
    <2>1. seqs[q] = [k \in 1 .. m |-> seqs[q][k]]
        BY DEF IsTable
    <2>2. \A k \in 1 .. m : seqs[q][k] \in T
        OBVIOUS
    <2> DEFINE s == [k \in 1 .. m |-> seqs[q][k]]
    <2> HIDE DEF T
    <2>3. s \in Seq(T) /\ Len(s) = m
        BY <2>2
    <2> QED
        BY <2>1, <2>3
<1> HIDE DEF T
<1>2. seqs \in Seq(Seq(T)) /\ Len(seqs) = n
    <2> DEFINE s == [q \in 1 .. n |-> seqs[q]]
    <2>1. seqs = s
        BY DEF IsTable
    <2>2. s \in Seq(Seq(T)) /\ Len(s) = n
        BY <1>1
    <2> QED
        BY <2>1, <2>2
<1>3. Laid(FlattenSeq(seqs), n, seqs, T, m)
    BY <1>1, <1>2, Flattened
<1> QED
    BY <1>3 DEF Laid, EndToEnd

LEMMA VerticesLaid ==
    ASSUME NEW qs \in Seq(Sound), NEW point, NEW q \in 1 .. Len(qs), NEW k \in 1 .. 4
    PROVE  /\ InitBuffers(qs, point).vertices[4 * (q - 1) + k] = Placed(qs[q], Around4[k], point)
           /\ InitBuffers(qs, point).colors[4 * (q - 1) + k] = qs[q].colors[Around4[k]]
<1> DEFINE n == Len(qs)
           v == [j \in 1 .. n |-> MakeVertices(qs[j], point)]
           c == [j \in 1 .. n |-> MakeColors(qs[j])]
<1>1. n \in Nat /\ DOMAIN qs = 1 .. n
    BY LenProperties
<1>2. /\ InitBuffers(qs, point).vertices = FlattenSeq(v)
      /\ InitBuffers(qs, point).colors = FlattenSeq(c)
    BY <1>1 DEF InitBuffers, RecomputeEnvelope
<1>3. v[q] = MakeVertices(qs[q], point) /\ c[q] = MakeColors(qs[q])
    OBVIOUS
<1>4. IsTable(v, n, 4)
    BY DEF MakeVertices, IsTable
<1>5. IsTable(c, n, 4)
    BY DEF MakeColors, IsTable
<1> HIDE DEF n, v, c
<1>6. FlattenSeq(v)[4 * (q - 1) + k] = v[q][k] /\ FlattenSeq(c)[4 * (q - 1) + k] = c[q][k]
    <2>1. q \in 1 .. n
        BY DEF n
    <2>2. EndToEnd(FlattenSeq(v), v, n, 4) /\ EndToEnd(FlattenSeq(c), c, n, 4)
        BY <1>1, <1>4, <1>5, Pieces
    <2> QED
        BY <2>1, <2>2 DEF EndToEnd
<1> QED
    BY <1>2, <1>3, <1>6 DEF MakeVertices, MakeColors

LEMMA IndicesLaid ==
    ASSUME NEW qs \in Seq(Sound), NEW point, NEW q \in 1 .. Len(qs), NEW k \in 1 .. 6
    PROVE  InitBuffers(qs, point).indices[6 * (q - 1) + k] = MakeIndices(q - 1)[k]
<1> DEFINE n == Len(qs)
           v == [j \in 1 .. n |-> MakeIndices(j - 1)]
<1>1. n \in Nat /\ DOMAIN qs = 1 .. n
    BY LenProperties
<1>2. InitBuffers(qs, point).indices = FlattenSeq(v)
    BY <1>1 DEF InitBuffers, RecomputeEnvelope
<1>3. v[q] = MakeIndices(q - 1)
    OBVIOUS
<1>4. IsTable(v, n, 6)
    BY DEF MakeIndices, IsTable
<1> HIDE DEF n, v
<1>5. FlattenSeq(v)[6 * (q - 1) + k] = v[q][k]
    <2>1. q \in 1 .. n
        BY DEF n
    <2>2. EndToEnd(FlattenSeq(v), v, n, 6)
        BY <1>1, <1>4, Pieces
    <2> QED
        BY <2>1, <2>2 DEF EndToEnd
<1> QED
    BY <1>2, <1>3, <1>5

LEMMA NextVertex ==
    ASSUME NEW q \in Nat, NEW i \in Nat, NEW w, w = i + (q - 1) * 4
    PROVE  w + 1 = 4 * (q - 1) + (i + 1)
OBVIOUS

(* Each quad is drawn by its own two triangles, each corner in its colour  *)
(* and where the envelope now has it, as long as an index can name every   *)
(* vertex.                                                                 *)
THEOREM QuadsAreDrawn ==
    ASSUME Tame, 4 * MaxQuads <= IndexRange
    PROVE  Spec => []DrawnIsMap
<1>1. IInv => DrawnIsMap
    <2> SUFFICES ASSUME IInv, NEW q \in DOMAIN quads
                 PROVE  LET At4(c) == <<Placed(quads[q], c, now), quads[q].colors[c]>>
                            k == 6 * (q - 1)
                        IN  /\ {Corner(k + 1), Corner(k + 2), Corner(k + 3)} = {At4(1), At4(3), At4(4)}
                            /\ {Corner(k + 4), Corner(k + 5), Corner(k + 6)} = {At4(1), At4(2), At4(4)}
        BY DEF DrawnIsMap
    <2> DEFINE At4(c) == <<Placed(quads[q], c, now), quads[q].colors[c]>>
               k == 6 * (q - 1)
               I == <<0, 1, 2, 0, 2, 3>>
    <2>1. /\ quads \in Seq(Sound) /\ Len(quads) \in Nat /\ Len(quads) <= MaxQuads
          /\ drawn = InitBuffers(quads, now) /\ q \in 1 .. Len(quads) /\ q \in Nat
        BY LenProperties DEF IInv, Sorts
    <2>2. ASSUME NEW j \in 1 .. 6 PROVE Corner(k + j) = At4(Around4[I[j] + 1])
        <3> DEFINE i == I[j]
                   u == 4 * (q - 1) + (i + 1)
        <3>1. i \in 0 .. 3 /\ i + 1 \in 1 .. 4
            OBVIOUS
        <3>2. MakeIndices(q - 1)[j] = (i + (q - 1) * 4) % IndexRange
            BY DEF MakeIndices
        <3>3. drawn.indices[k + j] = MakeIndices(q - 1)[j]
            BY <2>1, IndicesLaid
        <3> HIDE DEF i
        <3>4. (i + (q - 1) * 4) % IndexRange = i + (q - 1) * 4
            <4>1. i + (q - 1) * 4 \in Nat /\ i + (q - 1) * 4 < IndexRange
                BY <2>1, <3>1, BoundAssumption, QuadAssumption
            <4> QED
                BY <4>1, QuadAssumption
        <3>5. drawn.indices[k + j] + 1 = u
            <4> DEFINE w == drawn.indices[k + j]
            <4>1. w = i + (q - 1) * 4
                BY <3>2, <3>3, <3>4
            <4>2. i \in Nat
                BY <3>1
            <4> HIDE DEF w
            <4>3. w + 1 = u
                BY <2>1, <4>1, <4>2, NextVertex
            <4> QED
                BY <4>3 DEF w
        <3>6. drawn.vertices[u] = Placed(quads[q], Around4[i + 1], now)
              /\ drawn.colors[u] = quads[q].colors[Around4[i + 1]]
            <4> DEFINE c == i + 1
            <4>1. c \in 1 .. 4
                BY <3>1
            <4> HIDE DEF c
            <4>2. /\ InitBuffers(quads, now).vertices[4 * (q - 1) + c] = Placed(quads[q], Around4[c], now)
                  /\ InitBuffers(quads, now).colors[4 * (q - 1) + c] = quads[q].colors[Around4[c]]
                BY <2>1, <4>1, VerticesLaid
            <4> QED
                BY <2>1, <4>2 DEF c
        <3> HIDE DEF u, k
        <3> QED
            BY <3>5, <3>6 DEF Corner, i
    <2>3. /\ Around4[I[1] + 1] = 1 /\ Around4[I[2] + 1] = 3 /\ Around4[I[3] + 1] = 4
          /\ Around4[I[4] + 1] = 1 /\ Around4[I[5] + 1] = 4 /\ Around4[I[6] + 1] = 2
        BY DEF Around4
    <2> HIDE DEF I, At4, k
    <2>4. /\ Corner(k + 1) = At4(1) /\ Corner(k + 2) = At4(3) /\ Corner(k + 3) = At4(4)
          /\ Corner(k + 4) = At4(1) /\ Corner(k + 5) = At4(4) /\ Corner(k + 6) = At4(2)
        BY <2>2, <2>3
    <2>5. /\ {Corner(k + 1), Corner(k + 2), Corner(k + 3)} = {At4(1), At4(3), At4(4)}
          /\ {Corner(k + 4), Corner(k + 5), Corner(k + 6)} = {At4(1), At4(2), At4(4)}
        BY <2>4
    <2> QED
        BY <2>5 DEF At4, k
<1> QED
    BY <1>1, AlwaysInv, PTL

=============================================================================
