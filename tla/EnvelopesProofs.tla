---------------------------- MODULE EnvelopesProofs ----------------------------
(***************************************************************************)
(* Theorems about the envelope editor: the curve of any envelope, and the  *)
(* order of its points whatever the user and the others do.                *)
(***************************************************************************)
EXTENDS Envelopes, SeqFacts

-----------------------------------------------------------------------------
(* Curves *)

Unit(f) == f.num \in Int /\ f.den \in Int /\ 0 <= f.num /\ f.num <= f.den /\ 0 < f.den

LEMMA Products ==
    ASSUME NEW a \in Nat, NEW b \in Nat
    PROVE  a * b \in Nat
OBVIOUS

LEMMA Growing ==
    ASSUME NEW a \in Nat, NEW b \in Nat, NEW c \in Nat, a <= b
    PROVE  a * c <= b * c
<1>1. PICK d \in Nat : b = a + d
    <2>1. b - a \in Nat /\ b = a + (b - a)
        OBVIOUS
    <2> QED
        BY <2>1
<1>2. b * c = a * c + d * c /\ d * c \in Nat /\ a * c \in Nat
    BY <1>1, Products
<1> QED
    BY <1>2

LEMMA CubesGrow ==
    ASSUME NEW n \in Nat, NEW d \in Nat, n <= d
    PROVE  Cube(n) \in Nat /\ Cube(d) \in Nat /\ Cube(n) <= Cube(d) /\ (0 < d => 0 < Cube(d))
<1>1. n * n \in Nat /\ n * d \in Nat /\ d * d \in Nat
    BY Products
<1>2. n * n <= d * n /\ n * d <= d * d /\ n * d = d * n
    BY Growing
<1>3. n * n <= d * d
    BY <1>1, <1>2
<1>4. n * n * n <= d * d * n /\ d * d * n = n * (d * d) /\ n * (d * d) <= d * (d * d)
    BY <1>1, <1>3, Growing
<1>5. n * n * n \in Nat /\ d * d * d \in Nat /\ d * (d * d) = d * d * d /\ n * (d * d) \in Nat
    BY <1>1, Products
<1>6. n * n * n <= d * d * d
    BY <1>4, <1>5
<1>7. ASSUME 0 < d PROVE 0 < d * d * d
    <2>1. 1 * d <= d * d
        BY <1>7, Growing
    <2>2. 1 * d <= (d * d) * d
        <3>1. 1 <= d * d
            BY <1>1, <1>7, <2>1
        <3> QED
            BY <1>1, <3>1, Growing
    <2> QED
        BY <1>5, <1>7, <2>2
<1> QED
    BY <1>5, <1>6, <1>7 DEF Cube

(* Between two points every curve goes from the one to the other, and it   *)
(* begins at the first.                                                    *)
LEMMA CurveInUnit ==
    ASSUME NEW n \in Nat, NEW d \in Nat, n <= d, 0 < d, NEW curve \in Shapes
    PROVE  /\ Unit(ApplyCurve(n, d, curve))
           /\ n = 0 => ApplyCurve(n, d, curve).num = 0
<1> DEFINE f == ApplyCurve(n, d, curve)
<1>1. Cube(n) \in Nat /\ Cube(d) \in Nat /\ Cube(n) <= Cube(d) /\ 0 < Cube(d)
    BY CubesGrow
<1>2. CASE curve = "step"
    <2>1. f = [num |-> 0, den |-> 1]
        BY <1>2 DEF ApplyCurve
    <2> QED
        BY <2>1 DEF Unit
<1>3. CASE curve = "linear"
    <2>1. f = [num |-> n, den |-> d]
        BY <1>3 DEF ApplyCurve
    <2> QED
        BY <2>1 DEF Unit
<1>4. CASE curve = "slow"
    <2>1. f = [num |-> Cube(n), den |-> Cube(d)]
        BY <1>4 DEF ApplyCurve
    <2>2. n = 0 => Cube(n) = 0
        BY DEF Cube
    <2> QED
        BY <1>1, <2>1, <2>2 DEF Unit
<1>5. CASE curve = "fast"
    <2>1. f = [num |-> Cube(d) - Cube(d - n), den |-> Cube(d)]
        BY <1>5 DEF ApplyCurve
    <2>2. d - n \in Nat /\ d - n <= d
        OBVIOUS
    <2>3. Cube(d - n) \in Nat /\ Cube(d - n) <= Cube(d)
        BY <2>2, CubesGrow
    <2>4. n = 0 => d - n = d
        OBVIOUS
    <2> QED
        BY <1>1, <2>1, <2>3, <2>4 DEF Unit
<1>6. CASE curve = "smooth"
    <2>1. f = [num |-> n * n * (3 * d - 2 * n), den |-> Cube(d)]
        BY <1>6 DEF ApplyCurve
    <2> DEFINE m == d - n
               x == n * n * (3 * d - 2 * n)
               y == m * m * (m + 3 * n)
    <2>2. m \in Nat /\ d = n + m /\ 3 * d - 2 * n = n + 3 * m
        OBVIOUS
    <2>3. /\ n * n \in Nat /\ m * m \in Nat /\ n + 3 * m \in Nat /\ m + 3 * n \in Nat
          /\ n * n * (n + 3 * m) \in Nat /\ m * m * (m + 3 * n) \in Nat
        <3>1. n * n \in Nat /\ m * m \in Nat /\ n + 3 * m \in Nat /\ m + 3 * n \in Nat
            BY <2>2, Products
        <3> QED
            BY <3>1, Products
    <2>4. n * n * (n + 3 * m) + m * m * (m + 3 * n) = (n + m) * (n + m) * (n + m)
        BY <2>2
    <2>5. x = n * n * (n + 3 * m) /\ x \in Nat /\ y \in Nat /\ x + y = Cube(d)
        BY <2>2, <2>3, <2>4 DEF Cube
    <2>6. n = 0 => x = 0
        OBVIOUS
    <2> HIDE DEF x, y
    <2>7. x <= Cube(d)
        BY <1>1, <2>5
    <2> QED
        BY <1>1, <2>1, <2>5, <2>6, <2>7 DEF Unit, x
<1> QED
    BY <1>2, <1>3, <1>4, <1>5, <1>6 DEF Shapes

(* The value at a fraction of the way lies between the two ends. *)
LEMMA Mixed ==
    ASSUME NEW from \in Int, NEW to \in Int, NEW low \in Int, NEW high \in Int,
           from \in low .. high, to \in low .. high, NEW f, Unit(f)
    PROVE  /\ Interpolate(from, to, f).num \in Int
           /\ Interpolate(from, to, f).den = f.den
           /\ low * f.den <= Interpolate(from, to, f).num
           /\ Interpolate(from, to, f).num <= high * f.den
           /\ f.num = 0 => Interpolate(from, to, f).num = from * f.den
<1> DEFINE a == f.num
           b == f.den - f.num
           v == (from * b) + (to * a)
<1>1. a \in Nat /\ b \in Nat /\ f.den = a + b /\ f.den \in Int
    BY DEF Unit
<1>2. Interpolate(from, to, f) = [num |-> v, den |-> f.den]
    BY DEF Interpolate
<1> HIDE DEF a, b
<1>3. ASSUME NEW x \in Int, NEW y \in Int, x <= y, NEW c \in Nat PROVE x * c <= y * c
    <2>1. y - x \in Nat
        BY <1>3
    <2>2. (y - x) * c \in Nat
        BY <2>1, Products
    <2>3. (y - x) * c = y * c - x * c /\ y * c \in Int /\ x * c \in Int
        BY <1>3
    <2> QED
        BY <2>2, <2>3
<1>4. low * b <= from * b /\ from * b <= high * b /\ low * a <= to * a /\ to * a <= high * a
    BY <1>1, <1>3
<1>5. /\ low * (a + b) = low * a + low * b /\ high * (a + b) = high * a + high * b
      /\ low * a \in Int /\ low * b \in Int /\ high * a \in Int /\ high * b \in Int
      /\ from * b \in Int /\ to * a \in Int
    BY <1>1
<1>6. v \in Int /\ low * (a + b) <= v /\ v <= high * (a + b)
    BY <1>4, <1>5
<1>7. a = 0 => v = from * (a + b)
    BY <1>1
<1> HIDE DEF v
<1> QED
    BY <1>1, <1>2, <1>6, <1>7 DEF a

-----------------------------------------------------------------------------
(* Points in order *)

LEMMA PointFields ==
    ASSUME NEW pts \in Points
    PROVE  /\ pts \in Seq(Point) /\ InOrder(pts) /\ Len(pts) \in Nat /\ DOMAIN pts = 1 .. Len(pts)
           /\ \A k \in 1 .. Len(pts) : /\ pts[k] \in Point
                                       /\ pts[k].time \in Nat /\ pts[k].value \in Int
                                       /\ pts[k].curve \in Shapes
<1>1. \A p \in Point : p.time \in Nat /\ p.value \in Int /\ p.curve \in Shapes
    BY DEF Point
<1> QED
    BY <1>1, ElementOfSeq, LenProperties DEF Points

LEMMA LaterPoints ==
    ASSUME NEW pts \in Points
    PROVE  \A i \in 1 .. Len(pts), j \in 1 .. Len(pts) : i <= j => pts[i].time <= pts[j].time
<1> DEFINE n == Len(pts)
           S == {j \in 0 .. n : \A i \in 1 .. j : pts[i].time <= pts[j].time}
<1>1. /\ n \in Nat /\ \A k \in 1 .. n : pts[k].time \in Nat
      /\ \A k \in 2 .. n : pts[k - 1].time <= pts[k].time
    BY PointFields DEF InOrder
<1> HIDE DEF n
<1>2. 0 \in S
    BY <1>1
<1>3. ASSUME NEW j \in 1 .. n, j - 1 \in S PROVE j \in S
    <2>1. j \in 0 .. n
        BY <1>1
    <2>2. ASSUME NEW i \in 1 .. j PROVE pts[i].time <= pts[j].time
        <3>1. CASE i = j
            BY <1>1, <3>1
        <3>2. CASE i # j
            <4>1. i \in 1 .. j - 1 /\ j \in 2 .. n /\ i \in 1 .. n /\ j - 1 \in 1 .. n
                BY <1>1, <3>2
            <4>2. pts[i].time <= pts[j - 1].time /\ pts[j - 1].time <= pts[j].time
                BY <1>1, <1>3, <4>1
            <4> QED
                BY <1>1, <4>1, <4>2
        <3> QED
            BY <3>1, <3>2
    <2> QED
        BY <2>1, <2>2
<1>4. 0 .. n \subseteq S
    <2> HIDE DEF S
    <2> QED
        BY <1>1, <1>2, <1>3, AllPositions
<1>5. ASSUME NEW i \in 1 .. n, NEW j \in 1 .. n, i <= j PROVE pts[i].time <= pts[j].time
    <2>1. j \in S /\ i \in 1 .. j
        BY <1>1, <1>4, <1>5
    <2> QED
        BY <2>1
<1> QED
    BY <1>5 DEF n

(* The first point that passes a test that all later ones pass too. *)
LEMMA FirstOf ==
    ASSUME NEW n \in Nat, NEW I \in SUBSET (1 .. n)
    PROVE  LET first == IF I # {} THEN Min(I) ELSE 0
           IN  /\ first \in 0 .. n
               /\ first = 0 => I = {}
               /\ first # 0 => first \in I
               /\ \A k \in 1 .. n : k < first => k \notin I
<1>1. CASE I = {}
    BY <1>1
<1>2. CASE I # {}
    <2>1. Min(I) \in I /\ \A y \in I : Min(I) <= y
        <3>1. 1 \in Int /\ n \in Int
            OBVIOUS
        <3> QED
            BY <1>2, <3>1, Extremes
    <2> DEFINE m == Min(I)
    <2>2. m \in I /\ \A y \in I : m <= y
        BY <2>1
    <2> HIDE DEF m
    <2>3. m \in 0 .. n /\ m # 0 /\ m \in 1 .. n
        BY <2>2
    <2>4. ASSUME NEW k \in 1 .. n, k < m PROVE k \notin I
        <3>1. k \in I => m <= k
            BY <2>2
        <3> QED
            BY <2>3, <2>4, <3>1
    <2>5. (IF I # {} THEN m ELSE 0) = m
        BY <1>2
    <2>6. LET first == IF I # {} THEN m ELSE 0
          IN  /\ first \in 0 .. n
              /\ first = 0 => I = {}
              /\ first # 0 => first \in I
              /\ \A k \in 1 .. n : k < first => k \notin I
        BY <2>2, <2>3, <2>4, <2>5
    <2> QED
        BY <2>6 DEF m
<1> QED
    BY <1>1, <1>2

LEMMA Wrapped ==
    ASSUME NEW pts \in Points, pts # <<>>, NEW t \in Int
    PROVE  /\ Wrap(pts, t) \in Int /\ pts[1].time <= Wrap(pts, t)
           /\ pts[1].time <= t /\ t < pts[Len(pts)].time => Wrap(pts, t) = t
<1> DEFINE first == pts[1].time
           last == pts[Len(pts)].time
           d == last - first
<1>1. Len(pts) \in Nat /\ 1 \in 1 .. Len(pts) /\ Len(pts) \in 1 .. Len(pts) /\ 1 <= Len(pts)
    BY PointFields, EmptySeq
<1>2. first \in Nat /\ last \in Nat /\ first <= last
    BY <1>1, PointFields, LaterPoints
<1>3. Head(pts) = pts[1] /\ Last(pts) = pts[Len(pts)]
    BY <1>1, PointFields DEF Last
<1>4. Wrap(pts, t) = IF d = 0 THEN first ELSE first + ((t - first) % d)
    BY <1>3 DEF Wrap
<1> HIDE DEF first, last
<1>5. d \in Nat
    BY <1>2
<1>6. CASE d = 0
    BY <1>2, <1>4, <1>6 DEF first, last
<1>7. CASE d # 0
    <2>1. 0 < d
        BY <1>5, <1>7
    <2> HIDE DEF d
    <2>2. (t - first) % d \in 0 .. (d - 1)
        BY <1>2, <1>5, <2>1
    <2>3. 0 <= t - first /\ t - first < d => (t - first) % d = t - first
        BY <1>2, <1>5, <2>1
    <2>4. Wrap(pts, t) \in Int /\ first <= Wrap(pts, t)
        BY <1>2, <1>4, <1>7, <2>2
    <2>5. ASSUME first <= t, t < last PROVE Wrap(pts, t) = t
        <3>1. 0 <= t - first /\ t - first < d
            BY <1>2, <2>5 DEF d
        <3> QED
            BY <1>2, <1>4, <1>7, <2>3, <3>1
    <2> QED
        BY <2>4, <2>5 DEF first, last
<1> QED
    BY <1>6, <1>7

LEMMA PointComputed ==
    ASSUME NEW pts \in Points, pts # <<>>, NEW t \in Int, NEW low \in Int, NEW high \in Int,
           \A k \in 1 .. Len(pts) : pts[k].value \in low .. high
    PROVE  LET f == ComputePoint(pts, t)
           IN  /\ f.num \in Int /\ f.den \in Int /\ 0 < f.den
               /\ low * f.den <= f.num /\ f.num <= high * f.den
               /\ \A k \in 2 .. Len(pts) :
                    pts[k - 1].time < pts[k].time /\ t = pts[k - 1].time
                       => f.num = pts[k - 1].value * f.den
<1> DEFINE n == Len(pts)
           time == Wrap(pts, t)
           I == {i \in 1 .. n : pts[i].time > time}
           next == IF I # {} THEN Min(I) ELSE 0
           p1 == pts[next - 1]
           p2 == pts[next]
           g == ApplyCurve(time - p1.time, p2.time - p1.time, p1.curve)
           f == ComputePoint(pts, t)
<1>1. /\ n \in Nat /\ 1 \in 1 .. n /\ n \in 1 .. n
      /\ \A k \in 1 .. n : pts[k].time \in Nat /\ pts[k].value \in Int /\ pts[k].curve \in Shapes
    BY PointFields, EmptySeq
<1>2. time \in Int /\ pts[1].time <= time
    BY Wrapped
<1>3. Head(pts) = pts[1]
    BY PointFields
<1>4. f = IF next <= 1 THEN [num |-> pts[1].value, den |-> 1] ELSE Interpolate(p1.value, p2.value, g)
    BY <1>3, Zenon DEF ComputePoint, SelectInSeq
<1> HIDE DEF time
<1>5. /\ next \in 0 .. n /\ (next = 0 => I = {}) /\ (next # 0 => next \in I)
      /\ \A k \in 1 .. n : k < next => k \notin I
    <2>1. I \in SUBSET (1 .. n)
        OBVIOUS
    <2> HIDE DEF I, n
    <2> QED
        BY <1>1, <2>1, FirstOf, Zenon
<1>6. \A k \in 1 .. n : k \in I <=> pts[k].time > time
    OBVIOUS
<1> HIDE DEF n, I, next
<1>7. next # 1
    BY <1>1, <1>2, <1>5, <1>6
<1>8. ASSUME NEW k \in 2 .. n, pts[k - 1].time < pts[k].time, t = pts[k - 1].time
      PROVE  time = t /\ next = k
    <2>1. /\ k \in 1 .. n /\ k - 1 \in 1 .. n /\ t \in Nat /\ pts[k].time \in Nat /\ pts[n].time \in Nat
          /\ pts[1].time \in Nat
        BY <1>1, <1>8
    <2>2. \A i \in 1 .. n, j \in 1 .. n : i <= j => pts[i].time <= pts[j].time
        BY LaterPoints DEF n
    <2>3. pts[1].time <= t /\ t < pts[n].time
        <3>1. 1 <= k - 1 /\ k <= n
            BY <1>1
        <3>2. pts[1].time <= pts[k - 1].time /\ pts[k].time <= pts[n].time
            BY <1>1, <2>1, <2>2, <3>1
        <3> QED
            BY <1>8, <2>1, <3>2
    <2>4. time = t
        BY <2>3, Wrapped DEF n, time
    <2>5. k \in I
        BY <1>6, <1>8, <2>1, <2>4
    <2>6. ASSUME NEW i \in 1 .. n, i < k PROVE i \notin I
        <3>1. i <= k - 1
            BY <1>1, <2>6
        <3>2. pts[i].time <= pts[k - 1].time
            BY <2>1, <2>2, <3>1
        <3> QED
            BY <1>1, <1>6, <1>8, <2>1, <2>4, <3>2
    <2>7. next # 0 /\ ~ (k < next) /\ ~ (next < k)
        BY <1>1, <1>5, <2>1, <2>5, <2>6
    <2> QED
        BY <1>1, <1>5, <2>4, <2>7
<1>9. CASE next = 0
    <2>1. f.num = pts[1].value /\ f.den = 1
        BY <1>4, <1>9
    <2>2. pts[1].value \in low .. high
        BY <1>1 DEF n
    <2>3. \A k \in 2 .. n : ~ (pts[k - 1].time < pts[k].time /\ t = pts[k - 1].time)
        BY <1>1, <1>8, <1>9
    <2> QED
        BY <2>1, <2>2, <2>3 DEF n
<1>10. CASE next # 0
    <2>1. next \in 2 .. n /\ next \in 1 .. n /\ next - 1 \in 1 .. n
        BY <1>1, <1>5, <1>7, <1>10
    <2>2. p1.time \in Nat /\ p2.time \in Nat /\ p1.value \in Int /\ p2.value \in Int /\ p1.curve \in Shapes
        BY <1>1, <2>1
    <2>3. p1.time <= time /\ time < p2.time
        BY <1>1, <1>2, <1>5, <1>6, <1>10, <2>1, <2>2
    <2>4. f = Interpolate(p1.value, p2.value, g)
        BY <1>1, <1>4, <1>5, <2>1
    <2>5. p1.value \in low .. high /\ p2.value \in low .. high
        BY <2>1 DEF n
    <2>6. \A k \in 2 .. n : pts[k - 1].time < pts[k].time /\ t = pts[k - 1].time
             => time = t /\ p1 = pts[k - 1]
        BY <1>8
    <2> HIDE DEF p1, p2
    <2>7. time - p1.time \in Nat /\ p2.time - p1.time \in Nat /\ 0 < p2.time - p1.time
          /\ time - p1.time <= p2.time - p1.time
        BY <1>2, <2>2, <2>3
    <2>8. Unit(g) /\ (time - p1.time = 0 => g.num = 0)
        BY <2>2, <2>7, CurveInUnit
    <2> HIDE DEF g
    <2>9. g.den \in Int /\ 0 < g.den
        BY <2>8 DEF Unit
    <2>10. /\ f.num \in Int /\ f.den = g.den
           /\ low * f.den <= f.num /\ f.num <= high * f.den
           /\ g.num = 0 => f.num = p1.value * f.den
        <3> DEFINE a == p1.value
                   b == p2.value
                   h == Interpolate(a, b, g)
        <3>1. a \in Int /\ b \in Int /\ a \in low .. high /\ b \in low .. high /\ Unit(g)
            BY <2>2, <2>5, <2>8
        <3> HIDE DEF a, b
        <3>2. /\ h.num \in Int /\ h.den = g.den
              /\ low * g.den <= h.num /\ h.num <= high * g.den
              /\ g.num = 0 => h.num = a * g.den
            BY <3>1, Mixed
        <3> HIDE DEF h, f
        <3>3. f = h
            BY <2>4 DEF h, a, b
        <3> QED
            BY <3>2, <3>3 DEF a
    <2>11. ASSUME NEW k \in 2 .. n, pts[k - 1].time < pts[k].time, t = pts[k - 1].time
           PROVE  f.num = pts[k - 1].value * f.den
        <3>1. time = t /\ p1 = pts[k - 1]
            BY <2>6, <2>11
        <3>2. time - p1.time = 0
            BY <2>2, <2>11, <3>1
        <3> QED
            BY <2>8, <2>10, <3>1, <3>2
    <2> HIDE DEF f
    <2> QED
        BY <2>9, <2>10, <2>11 DEF n, f
<1> QED
    BY <1>9, <1>10

-----------------------------------------------------------------------------
(* What a message works on *)

Ident == Nat \ {0}
Obj   == [type : Types, points : Points]
Heap  == UNION {[D -> Obj] : D \in SUBSET Ident}
Shown == [e : Nat, env : Nat, at : Nat, points : Points, val : Points,
          shared : BOOLEAN, moved : BOOLEAN, drag : Nat]
State ==
    {s \in [envs : Seq(Ident), objs : Heap, ed : Shown, dirty : BOOLEAN] :
        /\ \A k \in 1 .. Len(s.envs) : s.envs[k] \in DOMAIN s.objs
        /\ s.ed.env # NoEnv => s.ed.env \in DOMAIN s.objs}

Op == [kind : {"create"}, type : Types] \cup [kind : {"delete"}, e : Nat]
        \cup [kind : {"edit"}, e : Nat, points : Points \cup {NoPart}]

LEMMA NoPoints == <<>> \in Points
<1>1. <<>> \in Seq(Point) /\ Len(<<>>) = 0 /\ 2 .. 0 = {}
    OBVIOUS
<1> QED
    BY <1>1 DEF Points, InOrder

LEMMA StateFields ==
    ASSUME NEW s \in State
    PROVE  /\ s.envs \in Seq(Ident) /\ s.ed \in Shown /\ s.dirty \in BOOLEAN
           /\ s.objs \in [DOMAIN s.objs -> Obj] /\ DOMAIN s.objs \subseteq Ident
           /\ Len(s.envs) \in Nat /\ DOMAIN s.envs = 1 .. Len(s.envs)
           /\ \A k \in 1 .. Len(s.envs) : s.envs[k] \in DOMAIN s.objs /\ s.envs[k] \in Ident
           /\ s.ed.e \in Nat /\ s.ed.env \in Nat /\ s.ed.at \in Nat /\ s.ed.points \in Points
           /\ s.ed.env # NoEnv => s.ed.env \in DOMAIN s.objs
           /\ s = [envs |-> s.envs, objs |-> s.objs, ed |-> s.ed, dirty |-> s.dirty]
<1>1. s \in [envs : Seq(Ident), objs : Heap, ed : Shown, dirty : BOOLEAN]
      /\ (\A k \in 1 .. Len(s.envs) : s.envs[k] \in DOMAIN s.objs)
      /\ (s.ed.env # NoEnv => s.ed.env \in DOMAIN s.objs)
    BY DEF State
<1>2. s.objs \in Heap
    BY <1>1
<1>3. PICK D \in SUBSET Ident : s.objs \in [D -> Obj]
    BY <1>2 DEF Heap
<1>4. s.objs \in [DOMAIN s.objs -> Obj] /\ DOMAIN s.objs \subseteq Ident
    BY <1>3
<1>5. s.envs \in Seq(Ident) /\ s.ed \in Shown /\ s.dirty \in BOOLEAN
      /\ s = [envs |-> s.envs, objs |-> s.objs, ed |-> s.ed, dirty |-> s.dirty]
    BY <1>1
<1>6. s.ed.e \in Nat /\ s.ed.env \in Nat /\ s.ed.at \in Nat /\ s.ed.points \in Points
    BY <1>5 DEF Shown
<1>7. Len(s.envs) \in Nat /\ DOMAIN s.envs = 1 .. Len(s.envs)
      /\ \A k \in 1 .. Len(s.envs) : s.envs[k] \in Ident
    BY <1>5, ElementOfSeq, LenProperties
<1> QED
    BY <1>1, <1>4, <1>5, <1>6, <1>7

LEMMA StateMade ==
    ASSUME NEW D \in SUBSET Ident, NEW o \in [D -> Obj], NEW en \in Seq(Ident),
           NEW p \in Shown, NEW b \in BOOLEAN,
           \A k \in 1 .. Len(en) : en[k] \in D,
           p.env # NoEnv => p.env \in D
    PROVE  [envs |-> en, objs |-> o, ed |-> p, dirty |-> b] \in State
<1>1. o \in Heap
    BY DEF Heap
<1>2. DOMAIN o = D
    OBVIOUS
<1> QED
    BY <1>1, <1>2 DEF State

(* An identity that no envelope has, and not the one shown. *)
LEMMA FreeIdIsFree ==
    ASSUME NEW s \in State
    PROVE  /\ FreeId(s) \in Ident /\ FreeId(s) # s.ed.env
           /\ \A k \in 1 .. Len(s.envs) : FreeId(s) # s.envs[k]
<1> DEFINE n == Len(s.envs)
           U == InUse(s)
           m == Max(U)
           C == (1 .. (m + 1)) \ U
<1>1. /\ n \in Nat /\ \A k \in 1 .. n : s.envs[k] \in Nat \ {0}
      /\ DOMAIN s.envs = 1 .. n /\ s.ed.env \in Nat
    BY StateFields DEF Ident
<1>2. U = {s.envs[k] : k \in 1 .. n} \cup {s.ed.env}
    BY <1>1 DEF InUse, Range
<1>3. m \in U /\ \A y \in U : y <= m
    <2>1. PICK low \in Int, high \in Int : \A k \in 1 .. n : s.envs[k] \in low .. high
        <3>1. \A k \in 1 .. n : s.envs[k] \in Int
            BY <1>1
        <3> HIDE DEF n
        <3> QED
            BY <1>1, <3>1, NumbersBounded
    <2> DEFINE x == s.ed.env
               a == IF x < low THEN x ELSE low
               b == IF x > high THEN x ELSE high
    <2>2. x \in Int
        BY <1>1
    <2> HIDE DEF x
    <2>3. a \in Int /\ b \in Int /\ x \in a .. b /\ \A y \in low .. high : y \in a .. b
        BY <2>1, <2>2
    <2> HIDE DEF a, b, n, U
    <2>4. U \in SUBSET (a .. b) /\ U # {}
        BY <1>2, <2>1, <2>3 DEF x
    <2> QED
        BY <2>3, <2>4, Extremes
<1> HIDE DEF U, m
<1>4. U \subseteq Nat /\ m \in Nat
    BY <1>1, <1>2, <1>3
<1>5. m + 1 \in C
    BY <1>3, <1>4
<1>6. Min(C) \in C
    <2>1. C \in SUBSET (1 .. (m + 1)) /\ C # {} /\ 1 \in Int /\ m + 1 \in Int
        BY <1>4, <1>5
    <2> HIDE DEF C
    <2> QED
        BY <2>1, Extremes
<1>7. FreeId(s) = Min(C)
    BY DEF FreeId, U, m
<1>8. \A i \in C : i \in Nat \ {0} /\ i \notin U
    BY <1>4
<1> HIDE DEF C
<1>9. FreeId(s) \in Nat \ {0} /\ FreeId(s) \notin U
    BY <1>6, <1>7, <1>8
<1> QED
    BY <1>2, <1>9 DEF Ident

-----------------------------------------------------------------------------
(* What an operation does to it *)

Gone(s) == \A k \in 1 .. Len(s.envs) : s.envs[k] # s.ed.env

OnMap(s, m, op) ==
    /\ m \in State /\ m.ed = s.ed /\ m.dirty = s.dirty
    /\ Gone(s) => Gone(m)
    /\ op.kind = "create" => Len(m.envs) = Len(s.envs) + 1
    /\ op.kind = "edit" => m.envs = s.envs
    /\ op.kind = "delete" => Len(s.envs) - 1 <= Len(m.envs)

LEMMA MapEdited ==
    ASSUME NEW s \in State, NEW op \in Op, op.kind = "edit"
    PROVE  OnMap(s, ApplyToMap(s, op), op)
<1> DEFINE m == ApplyToMap(s, op)
           f == s.objs
           D == DOMAIN f
<1>1. op.e \in Nat /\ op.points \in Points \cup {NoPart}
    BY DEF Op
<1>2. CASE SetsPoints(op) /\ op.e \in DOMAIN s.envs
    <2> DEFINE i == s.envs[op.e]
               g == [f EXCEPT ![i].points = op.points]
    <2>1. op.points \in Points /\ i \in D /\ f \in [D -> Obj] /\ D \in SUBSET Ident
        BY <1>1, <1>2, StateFields DEF SetsPoints
    <2>2. m = [s EXCEPT !.objs = g]
        BY <1>2 DEF ApplyToMap
    <2> HIDE DEF i
    <2>3. g \in [D -> Obj]
        <3>1. f[i] \in Obj
            BY <2>1
        <3>2. [f[i] EXCEPT !.points = op.points] \in Obj
            BY <2>1, <3>1 DEF Obj
        <3> HIDE DEF f
        <3> QED
            BY <2>1, <3>2
    <2> HIDE DEF g
    <2>4. m = [envs |-> s.envs, objs |-> g, ed |-> s.ed, dirty |-> s.dirty]
        BY <2>2, StateFields
    <2>5. m \in State
        <3>1. /\ s.envs \in Seq(Ident) /\ s.ed \in Shown /\ s.dirty \in BOOLEAN
              /\ \A k \in 1 .. Len(s.envs) : s.envs[k] \in D
              /\ s.ed.env # NoEnv => s.ed.env \in D
            BY StateFields
        <3> HIDE DEF f, D, m
        <3> QED
            BY <2>1, <2>3, <2>4, <3>1, StateMade
    <2> HIDE DEF m
    <2>6. m.envs = s.envs /\ m.ed = s.ed /\ m.dirty = s.dirty
        BY <2>4
    <2> QED
        BY <2>5, <2>6 DEF OnMap, Gone, m
<1>3. CASE ~ (SetsPoints(op) /\ op.e \in DOMAIN s.envs)
    <2>1. m = s
        BY <1>3 DEF ApplyToMap
    <2> QED
        BY <2>1 DEF OnMap
<1> QED
    BY <1>2, <1>3

LEMMA MapLengthened ==
    ASSUME NEW s \in State, NEW op \in Op, op.kind = "create"
    PROVE  OnMap(s, ApplyToMap(s, op), op)
<1> DEFINE m == ApplyToMap(s, op)
           f == s.objs
           D == DOMAIN f
           i == FreeId(s)
           o == [type |-> op.type, points |-> <<>>]
           E == {i} \cup D
           g == With(f, i, o)
           en == Append(s.envs, i)
<1>1. op.type \in Types
    BY DEF Op
<1>2. o \in Obj
    BY <1>1, NoPoints DEF Obj
<1>3. i \in Ident /\ i # s.ed.env /\ \A k \in 1 .. Len(s.envs) : i # s.envs[k]
    BY FreeIdIsFree
<1>4. m = [s EXCEPT !.envs = en, !.objs = g]
    BY DEF ApplyToMap
<1> HIDE DEF i, o
<1>5. f \in [D -> Obj] /\ D \in SUBSET Ident
    BY StateFields
<1>6. g \in [E -> Obj] /\ E \in SUBSET Ident
    <2>1. g = [x \in E |-> IF x = i THEN o ELSE f[x]]
        BY DEF With
    <2>2. \A x \in E : (IF x = i THEN o ELSE f[x]) \in Obj
        BY <1>2, <1>5
    <2> HIDE DEF g, f
    <2> QED
        BY <1>3, <1>5, <2>1, <2>2
<1>7. /\ s.envs \in Seq(Ident) /\ s.ed \in Shown /\ s.dirty \in BOOLEAN /\ Len(s.envs) \in Nat
      /\ \A k \in 1 .. Len(s.envs) : s.envs[k] \in D
      /\ s.ed.env # NoEnv => s.ed.env \in D
    BY StateFields
<1>8. /\ en \in Seq(Ident) /\ Len(en) = Len(s.envs) + 1
      /\ \A k \in 1 .. Len(s.envs) : en[k] = s.envs[k]
      /\ en[Len(s.envs) + 1] = i
    BY <1>3, <1>7, AppendProperties
<1>9. m = [envs |-> en, objs |-> g, ed |-> s.ed, dirty |-> s.dirty]
    BY <1>4, StateFields
<1> HIDE DEF m, g, en, f, D
<1>10. \A k \in 1 .. Len(en) : en[k] \in E /\ (en[k] = i \/ (k \in 1 .. Len(s.envs) /\ en[k] = s.envs[k]))
    BY <1>7, <1>8
<1>11. m \in State
    <2>1. s.ed.env # NoEnv => s.ed.env \in E
        BY <1>7
    <2> HIDE DEF E
    <2> QED
        BY <1>6, <1>7, <1>8, <1>9, <1>10, <2>1, StateMade
<1>12. m.envs = en /\ m.ed = s.ed /\ m.dirty = s.dirty
    BY <1>9
<1>13. Gone(s) => Gone(m)
    BY <1>3, <1>10, <1>12 DEF Gone
<1> QED
    BY <1>8, <1>11, <1>12, <1>13 DEF OnMap, m

LEMMA MapShortened ==
    ASSUME NEW s \in State, NEW op \in Op, op.kind = "delete"
    PROVE  OnMap(s, ApplyToMap(s, op), op)
<1> DEFINE m == ApplyToMap(s, op)
           en == RemoveAt(s.envs, op.e)
<1>1. CASE op.e \in DOMAIN s.envs
    <2>1. m = [s EXCEPT !.envs = en]
        BY <1>1 DEF ApplyToMap
    <2>2. /\ s.envs \in Seq(Ident) /\ s.ed \in Shown /\ s.dirty \in BOOLEAN /\ Len(s.envs) \in Nat
          /\ DOMAIN s.envs = 1 .. Len(s.envs)
          /\ \A k \in 1 .. Len(s.envs) : s.envs[k] \in DOMAIN s.objs
          /\ s.ed.env # NoEnv => s.ed.env \in DOMAIN s.objs
          /\ s.objs \in [DOMAIN s.objs -> Obj] /\ DOMAIN s.objs \in SUBSET Ident
        BY StateFields
    <2>3. op.e \in 1 .. Len(s.envs)
        BY <1>1, <2>2
    <2>4. /\ en \in Seq(Ident) /\ Len(en) = Len(s.envs) - 1
          /\ \A j \in 1 .. Len(s.envs) - 1 :
                en[j] = IF j < op.e THEN s.envs[j] ELSE s.envs[j + 1]
        BY <2>2, <2>3, RemovedFrom
    <2>5. m = [envs |-> en, objs |-> s.objs, ed |-> s.ed, dirty |-> s.dirty]
        BY <2>1, StateFields
    <2> HIDE DEF m, en
    <2>6. ASSUME NEW k \in 1 .. Len(en)
          PROVE  \E j \in 1 .. Len(s.envs) : en[k] = s.envs[j]
        <3>1. k \in 1 .. Len(s.envs) - 1 /\ k \in 1 .. Len(s.envs) /\ k + 1 \in 1 .. Len(s.envs)
            BY <2>2, <2>4
        <3> QED
            BY <2>4, <3>1
    <2>7. m \in State
        <3>1. \A k \in 1 .. Len(en) : en[k] \in DOMAIN s.objs
            BY <2>2, <2>6
        <3> QED
            BY <2>2, <2>4, <2>5, <3>1, StateMade
    <2>8. m.envs = en /\ m.ed = s.ed /\ m.dirty = s.dirty
        BY <2>5
    <2>9. Gone(s) => Gone(m)
        BY <2>6, <2>8 DEF Gone
    <2>10. Len(s.envs) - 1 <= Len(m.envs)
        BY <2>2, <2>4, <2>8
    <2> QED
        BY <2>7, <2>8, <2>9, <2>10 DEF OnMap, m
<1>2. CASE op.e \notin DOMAIN s.envs
    <2>1. m = s
        BY <1>2 DEF ApplyToMap
    <2>2. Len(s.envs) \in Nat
        BY StateFields
    <2> QED
        BY <2>1, <2>2 DEF OnMap
<1> QED
    BY <1>1, <1>2

(* After an operation the panel shows an envelope that exists, if there is *)
(* one, or is about to.                                                    *)
Settled(s) ==
    /\ s.dirty => s.ed.e \in 0 .. Len(s.envs) /\ (s.ed.e = 0 <=> s.envs = <<>>)
    /\ s.dirty /\ s.ed.env # NoEnv => Gone(s)
    /\ s.ed.env = NoEnv => s.dirty \/ s.ed.e = 0
Seen(s) == s.ed.env = NoEnv /\ ~ s.dirty => s.envs = <<>>

Done(s, t, op) ==
    /\ t \in State /\ t.ed.env = s.ed.env
    /\ op.kind = "create" => t.envs # <<>>
    /\ op.kind = "edit" => t.envs = s.envs
    /\ op.kind = "delete" => Len(s.envs) - 1 <= Len(t.envs)
    /\ Settled(t) /\ Seen(t)

LEMMA PanelKept ==
    ASSUME NEW m \in State, NEW op \in Op
    PROVE  LET p == ApplyToPoints(m, op)
           IN  /\ p \in State /\ p.envs = m.envs /\ p.dirty = m.dirty
               /\ p.ed.e = m.ed.e /\ p.ed.env = m.ed.env
<1> DEFINE p == ApplyToPoints(m, op)
           pan == [m.ed EXCEPT !.points = op.points, !.shared = FALSE, !.moved = FALSE]
<1>1. CASE SetsPoints(op) /\ m.ed.env # NoEnv /\ op.e = m.ed.at
    <2>1. p = [m EXCEPT !.ed = pan]
        BY <1>1 DEF ApplyToPoints
    <2>2. op.points \in Points
        BY <1>1 DEF SetsPoints, Op
    <2>3. m.ed \in Shown
        BY StateFields
    <2>4. pan \in Shown /\ pan.e = m.ed.e /\ pan.env = m.ed.env
        BY <2>2, <2>3 DEF Shown
    <2> HIDE DEF pan
    <2>5. p = [envs |-> m.envs, objs |-> m.objs, ed |-> pan, dirty |-> m.dirty]
        BY <2>1, StateFields
    <2>6. /\ m.envs \in Seq(Ident) /\ m.dirty \in BOOLEAN
          /\ m.objs \in [DOMAIN m.objs -> Obj] /\ DOMAIN m.objs \in SUBSET Ident
          /\ \A k \in 1 .. Len(m.envs) : m.envs[k] \in DOMAIN m.objs
          /\ m.ed.env # NoEnv => m.ed.env \in DOMAIN m.objs
        BY StateFields
    <2>7. p \in State
        BY <2>4, <2>5, <2>6, StateMade
    <2> HIDE DEF p
    <2>8. p.envs = m.envs /\ p.dirty = m.dirty /\ p.ed = pan
        BY <2>5
    <2> QED
        BY <2>4, <2>7, <2>8 DEF p
<1>2. CASE ~ (SetsPoints(op) /\ m.ed.env # NoEnv /\ op.e = m.ed.at)
    <2>1. p = m
        BY <1>2 DEF ApplyToPoints
    <2> QED
        BY <2>1
<1> QED
    BY <1>1, <1>2

LEMMA IsChosen ==
    ASSUME NEW s \in State, NEW i \in Nat
    PROVE  /\ Choose(s, i) \in State /\ Choose(s, i).envs = s.envs
           /\ Choose(s, i).ed.e = i /\ Choose(s, i).ed.env = s.ed.env
           /\ Choose(s, i).dirty \/ (~ s.dirty /\ i = s.ed.e)
<1> DEFINE c == Choose(s, i)
           pan == [s.ed EXCEPT !.e = i]
           b == s.dirty \/ i # s.ed.e
<1>1. s.ed \in Shown /\ s.dirty \in BOOLEAN
    BY StateFields
<1>2. pan \in Shown /\ pan.e = i /\ pan.env = s.ed.env /\ b \in BOOLEAN
    BY <1>1 DEF Shown
<1>3. c = [s EXCEPT !.ed = pan, !.dirty = b]
    BY DEF Choose
<1> HIDE DEF pan, b
<1>4. c = [envs |-> s.envs, objs |-> s.objs, ed |-> pan, dirty |-> b]
    BY <1>3, StateFields
<1>5. /\ s.envs \in Seq(Ident)
      /\ s.objs \in [DOMAIN s.objs -> Obj] /\ DOMAIN s.objs \in SUBSET Ident
      /\ \A k \in 1 .. Len(s.envs) : s.envs[k] \in DOMAIN s.objs
      /\ s.ed.env # NoEnv => s.ed.env \in DOMAIN s.objs
    BY StateFields
<1>6. c \in State
    BY <1>2, <1>4, <1>5, StateMade
<1> HIDE DEF c
<1>7. c.envs = s.envs /\ c.ed = pan /\ c.dirty = b
    BY <1>4
<1> QED
    BY <1>2, <1>6, <1>7, Zenon DEF c, b

LEMMA Synced ==
    ASSUME NEW p \in State
    PROVE  LET t == OnSync(p)
           IN  /\ t \in State /\ t.envs = p.envs /\ t.ed.env = p.ed.env
               /\ (/\ p.ed.env = NoEnv => p.dirty \/ p.ed.e = 0
                   /\ p.dirty /\ p.ed.env # NoEnv => Gone(p)
                   /\ p.dirty /\ p.ed.env = NoEnv /\ p.envs = <<>> => p.ed.e = 0)
                     => Settled(t) /\ Seen(t)
<1> DEFINE t == OnSync(p)
           n == Len(p.envs)
           start == /\ p.ed.env = NoEnv => p.dirty \/ p.ed.e = 0
                    /\ p.dirty /\ p.ed.env # NoEnv => Gone(p)
                    /\ p.dirty /\ p.ed.env = NoEnv /\ p.envs = <<>> => p.ed.e = 0
<1>1. /\ n \in Nat /\ (p.envs = <<>> <=> n = 0) /\ p.ed.e \in Nat /\ p.dirty \in BOOLEAN
      /\ p.ed.env \in Nat
    BY StateFields, EmptySeq
<1>2. p.ed.env \notin Range(p.envs) <=> Gone(p)
    BY StateFields DEF Gone, Range
<1>3. CASE p.ed.env # NoEnv /\ p.envs = <<>>
    <2>1. t = Choose(p, 0)
        BY <1>3 DEF OnSync
    <2> HIDE DEF t
    <2>2. t \in State /\ t.envs = p.envs /\ t.ed.e = 0 /\ t.ed.env = p.ed.env
        BY <2>1, IsChosen
    <2>3. Settled(t) /\ Seen(t)
        BY <1>1, <1>3, <2>2 DEF Settled, Seen, Gone
    <2> QED
        BY <2>2, <2>3 DEF t
<1>4. CASE p.ed.env # NoEnv /\ p.envs # <<>> /\ Gone(p)
    <2>1. t = Choose(p, n)
        BY <1>2, <1>4 DEF OnSync
    <2> HIDE DEF t
    <2>2. t \in State /\ t.envs = p.envs /\ t.ed.e = n /\ t.ed.env = p.ed.env
        BY <1>1, <2>1, IsChosen
    <2>3. Settled(t) /\ Seen(t)
        BY <1>1, <1>4, <2>2 DEF Settled, Seen, Gone
    <2> QED
        BY <2>2, <2>3 DEF t
<1>5. CASE p.ed.env = NoEnv /\ p.envs # <<>>
    <2>1. t = Choose(p, 1)
        BY <1>5 DEF OnSync
    <2> HIDE DEF t
    <2>2. /\ t \in State /\ t.envs = p.envs /\ t.ed.e = 1 /\ t.ed.env = p.ed.env
          /\ t.dirty \/ (~ p.dirty /\ 1 = p.ed.e)
        BY <2>1, IsChosen
    <2>3. start => t.dirty
        <3>1. start => p.dirty \/ 1 # p.ed.e
            BY <1>1, <1>5
        <3> HIDE DEF start
        <3> QED
            BY <2>2, <3>1, Zenon
    <2>4. start => Settled(t) /\ Seen(t)
        BY <1>1, <1>5, <2>2, <2>3 DEF Settled, Seen
    <2> QED
        BY <2>2, <2>4 DEF t
<1>6. CASE (p.ed.env # NoEnv /\ p.envs # <<>> /\ ~ Gone(p)) \/ (p.ed.env = NoEnv /\ p.envs = <<>>)
    <2>1. t = p
        BY <1>2, <1>6 DEF OnSync
    <2> HIDE DEF t
    <2>2. start => Settled(t) /\ Seen(t)
        BY <1>1, <1>6, <2>1 DEF Settled, Seen
    <2> QED
        BY <2>1, <2>2 DEF t
<1> QED
    BY <1>3, <1>4, <1>5, <1>6

LEMMA Mapped ==
    ASSUME NEW s \in State, NEW op \in Op
    PROVE  OnMap(s, ApplyToMap(s, op), op)
<1>1. op.kind \in {"create", "edit", "delete"}
    BY DEF Op
<1> QED
    BY <1>1, MapEdited, MapLengthened, MapShortened

LEMMA HandleTyped ==
    ASSUME NEW s \in State, NEW op \in Op
    PROVE  Handle(s, op) \in State /\ Handle(s, op).ed.env = s.ed.env
<1> DEFINE m == ApplyToMap(s, op)
           p == ApplyToPoints(m, op)
<1>1. m \in State /\ m.ed = s.ed
    BY Mapped DEF OnMap
<1> HIDE DEF m
<1>2. p \in State /\ p.ed.env = m.ed.env
    BY <1>1, PanelKept
<1> HIDE DEF p
<1> QED
    BY <1>1, <1>2, Synced DEF Handle, m, p

LEMMA HandleDone ==
    ASSUME NEW s \in State, NEW op \in Op, Settled(s),
           op.kind = "delete" /\ s.ed.env = NoEnv => ~ s.dirty
    PROVE  Done(s, Handle(s, op), op)
<1> DEFINE m == ApplyToMap(s, op)
           p == ApplyToPoints(m, op)
           t == OnSync(p)
<1>0. op.kind \in {"create", "edit", "delete"}
    BY DEF Op
<1>1. OnMap(s, m, op)
    BY Mapped
<1> HIDE DEF m
<1>2. m \in State /\ m.ed = s.ed /\ m.dirty = s.dirty /\ (Gone(s) => Gone(m))
    BY <1>1 DEF OnMap
<1>3. p \in State /\ p.envs = m.envs /\ p.dirty = s.dirty /\ p.ed.e = s.ed.e /\ p.ed.env = s.ed.env
    BY <1>2, PanelKept
<1> HIDE DEF p
<1>4. Len(s.envs) \in Nat /\ (s.envs = <<>> => Len(s.envs) = 0) /\ (m.envs = <<>> => Len(m.envs) = 0)
    BY StateFields
<1>5. /\ p.ed.env = NoEnv => p.dirty \/ p.ed.e = 0
      /\ p.dirty /\ p.ed.env # NoEnv => Gone(p)
    BY <1>2, <1>3 DEF Settled, Gone
<1>6. ASSUME p.dirty, p.ed.env = NoEnv, p.envs = <<>> PROVE p.ed.e = 0
    <2>1. op.kind = "edit"
        BY <1>0, <1>1, <1>3, <1>4, <1>6 DEF OnMap
    <2>2. s.envs = <<>>
        BY <1>1, <1>3, <1>6, <2>1 DEF OnMap
    <2> QED
        BY <1>3, <1>6, <2>2 DEF Settled
<1>7. t \in State /\ t.envs = m.envs /\ t.ed.env = s.ed.env /\ Settled(t) /\ Seen(t)
    BY <1>3, <1>5, <1>6, Synced
<1> HIDE DEF t
<1>8. /\ op.kind = "create" => t.envs # <<>>
      /\ op.kind = "edit" => t.envs = s.envs
      /\ op.kind = "delete" => Len(s.envs) - 1 <= Len(t.envs)
    BY <1>1, <1>4, <1>7 DEF OnMap
<1>9. Handle(s, op) = t
    BY DEF Handle, t, p, m
<1> QED
    BY <1>7, <1>8, <1>9 DEF Done

(* A message works on the panel as the code left it, operation by          *)
(* operation, before anything is computed again.                           *)
LEMMA HandledSteps ==
    ASSUME NEW s \in State, NEW ops \in Seq(Op)
    PROVE  \E h \in [0 .. Len(ops) -> State] :
              /\ h[0] = s
              /\ \A k \in 1 .. Len(ops) : h[k] = Handle(h[k - 1], ops[k])
              /\ FoldLeft(Handle, s, ops) = h[Len(ops)]
<1> DEFINE n == Len(ops)
           F == [p \in (1 .. n) \X State |-> Handle(p[2], ops[p[1]])]
           g == CHOOSE g : g = [u \in SUBSET (1 .. n) |->
                  IF u = {} THEN s ELSE Handle(g[u \ {Max(u)}], ops[Max(u)])]
<1>1. n \in Nat /\ \A k \in 1 .. n : ops[k] \in Op
    BY ElementOfSeq, LenProperties
<1>2. FoldLeft(Handle, s, ops) = g[1 .. n]
    <2>1. DOMAIN ops = 1 .. n
        BY LenProperties
    <2> HIDE DEF n
    <2> QED
        BY <2>1, Zenon DEF FoldLeft, MapThenFoldSet
<1> HIDE DEF n
<1>3. F \in [(1 .. n) \X State -> State]
    <2>1. ASSUME NEW p \in (1 .. n) \X State PROVE Handle(p[2], ops[p[1]]) \in State
        <3>1. p[1] \in 1 .. n /\ p[2] \in State
            OBVIOUS
        <3>2. ops[p[1]] \in Op
            BY <1>1, <3>1
        <3> QED
            BY <3>1, <3>2, HandleTyped
    <2> QED
        BY <2>1
<1>4. g = [u \in SUBSET (1 .. n) |->
             IF u = {} THEN s ELSE Handle(g[u \ {Max(u)}], ops[Max(u)])]
    <2> HIDE DEF F
    <2>1. PICK f : IsFold(f, State, s, F, n)
        BY <1>1, <1>3, FoldExists
    <2>2. \A u \in SUBSET (1 .. n) :
             f[u] = IF u = {} THEN s ELSE F[<<Max(u), f[u \ {Max(u)}]>>]
        BY <2>1, Zenon DEF IsFold
    <2>3. f \in [SUBSET (1 .. n) -> State]
        BY <2>1, Zenon DEF IsFold
    <2>4. ASSUME NEW u \in SUBSET (1 .. n), u # {}
          PROVE  F[<<Max(u), f[u \ {Max(u)}]>>] = Handle(f[u \ {Max(u)}], ops[Max(u)])
        <3>1. Max(u) \in 1 .. n
            BY <1>1, <2>4, GreatestBelow
        <3>2. f[u \ {Max(u)}] \in State
            BY <2>3
        <3>3. <<Max(u), f[u \ {Max(u)}]>> \in (1 .. n) \X State
            BY <3>1, <3>2
        <3> QED
            BY <3>3 DEF F
    <2>5. f = [u \in SUBSET (1 .. n) |->
                 IF u = {} THEN s ELSE Handle(f[u \ {Max(u)}], ops[Max(u)])]
        <3>1. f = [u \in SUBSET (1 .. n) |-> f[u]]
            BY <2>3
        <3>2. ASSUME NEW u \in SUBSET (1 .. n)
              PROVE  f[u] = IF u = {} THEN s ELSE Handle(f[u \ {Max(u)}], ops[Max(u)])
            BY <2>2, <2>4
        <3> QED
            BY <3>1, <3>2, Zenon
    <2> QED
        BY <2>5, Zenon
<1> HIDE DEF g
<1> DEFINE h == [k \in 0 .. n |-> g[1 .. k]]
<1>5. h[0] = s
    <2>1. {} \in SUBSET (1 .. n) /\ 1 .. 0 = {} /\ 0 \in 0 .. n
        BY <1>1
    <2>2. g[{}] = s
        BY <1>4, <2>1
    <2> QED
        BY <2>1, <2>2
<1>6. ASSUME NEW k \in 1 .. n PROVE h[k] = Handle(h[k - 1], ops[k])
    <2>1. /\ 1 .. k \in SUBSET (1 .. n) /\ 1 .. k # {} /\ (1 .. k) \ {k} = 1 .. (k - 1)
          /\ Max(1 .. k) = k
        BY <1>1, UpTo
    <2>2. g[1 .. k] = Handle(g[1 .. (k - 1)], ops[k])
        BY <1>4, <2>1
    <2>3. k \in 0 .. n /\ k - 1 \in 0 .. n
        BY <1>1
    <2> QED
        BY <2>2, <2>3
<1>7. h[n] = g[1 .. n]
    BY <1>1
<1> DEFINE S == {k \in 0 .. n : h[k] \in State}
<1>8. 0 .. n \subseteq S
    <2>1. 0 \in S
        BY <1>1, <1>5
    <2>2. ASSUME NEW k \in 1 .. n, k - 1 \in S PROVE k \in S
        <3>1. h[k - 1] \in State /\ ops[k] \in Op /\ k \in 0 .. n
            BY <1>1, <2>2
        <3> HIDE DEF h
        <3> QED
            BY <1>6, <3>1, HandleTyped
    <2> HIDE DEF S
    <2> QED
        BY <1>1, <2>1, <2>2, AllPositions
<1>9. h \in [0 .. n -> State]
    <2>1. \A k \in 0 .. n : h[k] \in State
        BY <1>8
    <2> QED
        BY <2>1
<1> HIDE DEF h
<1> QED
    BY <1>2, <1>5, <1>6, <1>7, <1>9 DEF n

CreatesLast(ops) ==
    \E i \in 1 .. Len(ops) : /\ ops[i].kind = "create"
                             /\ \A j \in i .. Len(ops) : ops[j].kind # "delete"

(* After a message the panel knows which envelope it is to show, and a     *)
(* prediction that was made again left its envelope in the map.            *)
LEMMA HandledDone ==
    ASSUME NEW s \in State, NEW ops \in Seq(Op), ~ s.dirty, Settled(s),
           s.ed.env = NoEnv => \A k \in 1 .. Len(ops) : ops[k].kind = "delete" => k = 1
    PROVE  LET t == FoldLeft(Handle, s, ops)
           IN  /\ t \in State /\ t.ed.env = s.ed.env /\ Settled(t)
               /\ ops = <<>> => t = s
               /\ ops # <<>> => Seen(t)
               /\ CreatesLast(ops) => t.envs # <<>>
<1> DEFINE n == Len(ops)
           made(k) == \E i \in 1 .. k : /\ ops[i].kind = "create"
                                        /\ \A j \in i .. k : ops[j].kind # "delete"
<1>1. PICK h \in [0 .. n -> State] :
         /\ h[0] = s
         /\ \A k \in 1 .. n : h[k] = Handle(h[k - 1], ops[k])
         /\ FoldLeft(Handle, s, ops) = h[n]
    BY HandledSteps, Zenon
<1>2. n \in Nat /\ (\A k \in 1 .. n : ops[k] \in Op) /\ (ops = <<>> <=> n = 0)
    BY ElementOfSeq, LenProperties, EmptySeq
<1>3. CreatesLast(ops) => made(n)
    BY DEF CreatesLast
<1>4. s.ed.env = NoEnv => \A k \in 1 .. n : ops[k].kind = "delete" => k = 1
    OBVIOUS
<1> HIDE DEF n
<1> DEFINE Good(k) == /\ h[k].ed.env = s.ed.env /\ Settled(h[k]) /\ (k # 0 => Seen(h[k]))
                      /\ made(k) => h[k].envs # <<>>
           S == {k \in 0 .. n : Good(k)}
<1>5. 0 \in S
    <2>1. 0 \in 0 .. n /\ ~ made(0)
        BY <1>2
    <2> HIDE DEF made
    <2> QED
        BY <1>1, <2>1
<1>6. ASSUME NEW k \in 1 .. n, k - 1 \in S PROVE k \in S
    <2>1. Good(k - 1) /\ k \in 0 .. n /\ k - 1 \in 0 .. n /\ k - 1 \in Nat
        BY <1>2, <1>6
    <2> DEFINE u == h[k - 1]
               t == h[k]
               op == ops[k]
    <2>2. u \in State /\ op \in Op /\ t = Handle(u, op) /\ u.ed.env = s.ed.env /\ Settled(u)
        BY <1>1, <1>2, <2>1
    <2>3. op.kind = "delete" /\ u.ed.env = NoEnv => ~ u.dirty
        BY <1>1, <1>4, <2>2
    <2>4. Done(u, t, op)
        BY <2>2, <2>3, HandleDone
    <2>5. t.ed.env = s.ed.env /\ Settled(t) /\ Seen(t)
        BY <2>2, <2>4 DEF Done
    <2>6. ASSUME made(k) PROVE t.envs # <<>>
        <3>1. op.kind \in {"create", "edit", "delete"}
            BY <2>2 DEF Op
        <3>2. CASE op.kind = "create"
            BY <2>4, <3>2 DEF Done
        <3>3. CASE op.kind # "create"
            <4>1. PICK i \in 1 .. k : /\ ops[i].kind = "create"
                                      /\ \A j \in i .. k : ops[j].kind # "delete"
                BY <2>6
            <4>2. i # k /\ k \in i .. k
                BY <3>3, <4>1
            <4>3. i \in 1 .. k - 1 /\ \A j \in i .. k - 1 : ops[j].kind # "delete"
                BY <1>2, <4>1, <4>2
            <4>4. made(k - 1)
                BY <4>1, <4>3
            <4>5. op.kind = "edit"
                BY <3>1, <3>3, <4>1, <4>2
            <4> HIDE DEF made
            <4>6. u.envs # <<>>
                BY <2>1, <4>4
            <4> QED
                BY <2>4, <4>5, <4>6 DEF Done
        <3> QED
            BY <3>2, <3>3
    <2> HIDE DEF made
    <2> QED
        BY <1>2, <2>1, <2>5, <2>6
<1>7. n \in S
    <2> HIDE DEF S
    <2>1. 0 .. n \subseteq S
        BY <1>2, <1>5, <1>6, AllPositions
    <2> QED
        BY <1>2, <2>1
<1>8. h[n] \in State
    BY <1>1, <1>2
<1> HIDE DEF made
<1> QED
    BY <1>1, <1>2, <1>3, <1>7, <1>8

-----------------------------------------------------------------------------
(* Requests on their way *)

Then == [kind : {"none", "newest"}] \cup [kind : {"before"}, e : Nat \ {0}]
          \cup [kind : {"restore"}, val : Points]
Undone(op, reverse) ==
    op.kind # "delete" /\ reverse \in Op /\ (reverse.kind = "delete" => op.kind = "create")
CallType ==
    {c \in [op : Op, reverse : Op \cup {[kind |-> "none"]}, then : Then, tracked : BOOLEAN] :
        c.tracked => Undone(c.op, c.reverse)}
TrackedCall == {c \in CallType : c.tracked}

(* A creation that is predicted and not answered. *)
Making(cs) == \E k \in 1 .. Len(cs) : cs[k].tracked /\ cs[k].op.kind = "create"
Before(cs, k) == cs[k].then.kind = "before"

LEMMA TrackedSteps ==
    ASSUME NEW cs \in Seq(CallType)
    PROVE  \E h \in [0 .. Len(cs) -> Seq(TrackedCall)] :
              /\ h[0] = <<>>
              /\ \A k \in 1 .. Len(cs) :
                    h[k] = IF cs[k].tracked THEN Append(h[k - 1], cs[k]) ELSE h[k - 1]
              /\ Tracked(cs) = h[Len(cs)]
BY KeptSteps, Zenon DEF Tracked, TrackedCall

LEMMA TrackedTyped ==
    ASSUME NEW cs \in Seq(CallType)
    PROVE  /\ Tracked(cs) \in Seq(TrackedCall)
           /\ \A i \in 1 .. Len(Tracked(cs)) : \E j \in 1 .. Len(cs) :
                cs[j].tracked /\ Tracked(cs)[i] = cs[j]
           /\ \A j \in 1 .. Len(cs) : cs[j].tracked =>
                \E i \in 1 .. Len(Tracked(cs)) :
                   Tracked(cs)[i] = cs[j] /\ (cs[1].tracked /\ j # 1 => i # 1)
<1> DEFINE n == Len(cs)
<1>1. PICK h \in [0 .. n -> Seq(TrackedCall)] :
         /\ h[0] = <<>>
         /\ \A k \in 1 .. n : h[k] = IF cs[k].tracked THEN Append(h[k - 1], cs[k]) ELSE h[k - 1]
         /\ Tracked(cs) = h[n]
    BY TrackedSteps, Zenon
<1>2. n \in Nat /\ \A k \in 1 .. n : cs[k] \in CallType
    BY ElementOfSeq, LenProperties
<1> HIDE DEF n
<1> DEFINE From(k) == \A i \in 1 .. Len(h[k]) : \E j \in 1 .. k : cs[j].tracked /\ h[k][i] = cs[j]
           Kept(k) == \A j \in 1 .. k : cs[j].tracked =>
                        \E i \in 1 .. Len(h[k]) : h[k][i] = cs[j] /\ (cs[1].tracked /\ j # 1 => i # 1)
           S == {k \in 0 .. n : From(k) /\ Kept(k)}
<1>3. 0 \in S
    <2>1. 0 \in 0 .. n /\ Len(<<>>) = 0 /\ 1 .. 0 = {}
        BY <1>2
    <2> QED
        BY <1>1, <2>1
<1>4. ASSUME NEW k \in 1 .. n, k - 1 \in S PROVE k \in S
    <2> DEFINE u == h[k - 1]
               t == h[k]
               m == Len(u)
    <2>1. /\ k \in 0 .. n /\ k - 1 \in 0 .. n /\ k - 1 \in Nat /\ u \in Seq(TrackedCall) /\ m \in Nat
          /\ t = IF cs[k].tracked THEN Append(u, cs[k]) ELSE u
        <3>1. k \in 0 .. n /\ k - 1 \in 0 .. n /\ k - 1 \in Nat
            BY <1>2
        <3>2. u \in Seq(TrackedCall) /\ m \in Nat
            BY <1>1, <3>1, LenProperties
        <3>3. t = IF cs[k].tracked THEN Append(u, cs[k]) ELSE u
            BY <1>1, Zenon
        <3> QED
            BY <3>1, <3>2, <3>3
    <2>2. From(k - 1) /\ Kept(k - 1)
        BY <1>4
    <2>3. CASE ~ cs[k].tracked
        <3>1. t = u
            BY <2>1, <2>3
        <3>2. From(k)
            <4>1. \A j \in 1 .. k - 1 : j \in 1 .. k
                BY <1>2
            <4> QED
                BY <2>2, <3>1, <4>1
        <3>3. Kept(k)
            <4>1. \A j \in 1 .. k : cs[j].tracked => j \in 1 .. k - 1
                BY <1>2, <2>3
            <4> QED
                BY <2>2, <3>1, <4>1
        <3> QED
            BY <2>1, <3>2, <3>3
    <2>4. CASE cs[k].tracked
        <3>1. cs[k] \in TrackedCall
            BY <1>2, <2>4 DEF TrackedCall
        <3>2. /\ Len(t) = m + 1 /\ t[m + 1] = cs[k] /\ \A i \in 1 .. m : t[i] = u[i]
            BY <2>1, <2>4, <3>1, AppendProperties
        <3>3. From(k)
            <4>1. ASSUME NEW i \in 1 .. Len(t) PROVE \E j \in 1 .. k : cs[j].tracked /\ t[i] = cs[j]
                <5>1. CASE i = m + 1
                    <6>1. k \in 1 .. k /\ t[i] = cs[k]
                        BY <1>2, <3>2, <5>1
                    <6> QED
                        BY <2>4, <6>1
                <5>2. CASE i # m + 1
                    <6>1. i \in 1 .. m
                        BY <2>1, <3>2, <5>2
                    <6>2. PICK j \in 1 .. k - 1 : cs[j].tracked /\ u[i] = cs[j]
                        BY <2>2, <6>1
                    <6>3. j \in 1 .. k /\ t[i] = cs[j]
                        BY <1>2, <3>2, <6>1, <6>2
                    <6> QED
                        BY <6>2, <6>3
                <5> QED
                    BY <5>1, <5>2
            <4> QED
                BY <4>1
        <3>4. Kept(k)
            <4>1. ASSUME NEW j \in 1 .. k, cs[j].tracked
                  PROVE  \E i \in 1 .. Len(t) : t[i] = cs[j] /\ (cs[1].tracked /\ j # 1 => i # 1)
                <5>1. CASE j = k
                    <6>1. cs[1].tracked /\ j # 1 => m # 0
                        <7>1. ASSUME cs[1].tracked, j # 1 PROVE \E i \in 1 .. m : u[i] = cs[1]
                            <8>1. 1 \in 1 .. k - 1
                                BY <1>2, <5>1, <7>1
                            <8> QED
                                BY <2>2, <7>1, <8>1
                        <7> QED
                            BY <2>1, <7>1
                    <6>2. m + 1 \in 1 .. Len(t) /\ t[m + 1] = cs[j] /\ (m # 0 => m + 1 # 1)
                        BY <2>1, <3>2, <5>1
                    <6> QED
                        BY <6>1, <6>2
                <5>2. CASE j # k
                    <6>1. j \in 1 .. k - 1
                        BY <1>2, <5>2
                    <6>2. PICK i \in 1 .. m : u[i] = cs[j] /\ (cs[1].tracked /\ j # 1 => i # 1)
                        BY <2>2, <4>1, <6>1
                    <6>3. i \in 1 .. Len(t) /\ t[i] = cs[j]
                        BY <2>1, <3>2, <6>2
                    <6> QED
                        BY <6>2, <6>3
                <5> QED
                    BY <5>1, <5>2
            <4> QED
                BY <4>1
        <3> QED
            BY <2>1, <3>3, <3>4
    <2> QED
        BY <2>3, <2>4
<1>5. n \in S
    <2> HIDE DEF S
    <2>1. 0 .. n \subseteq S
        BY <1>2, <1>3, <1>4, AllPositions
    <2> QED
        BY <1>2, <2>1
<1>6. h[n] \in Seq(TrackedCall)
    BY <1>1, <1>2
<1> QED
    BY <1>1, <1>5, <1>6 DEF n

LEMMA ForwardTyped ==
    ASSUME NEW ts \in Seq(TrackedCall)
    PROVE  /\ Forward(ts) \in Seq(Op) /\ Len(Forward(ts)) = Len(ts)
           /\ \A i \in 1 .. Len(ts) : Forward(ts)[i] = ts[i].op /\ ts[i].op.kind # "delete"
<1>1. \A c \in TrackedCall : c.op \in Op /\ c.op.kind # "delete"
    BY DEF TrackedCall, CallType, Undone
<1>2. /\ Len(ts) \in Nat /\ DOMAIN ts = 1 .. Len(ts)
      /\ \A k \in 1 .. Len(ts) : ts[k].op \in Op /\ ts[k].op.kind # "delete"
    BY <1>1, ElementOfSeq, LenProperties
<1> QED
    BY <1>2 DEF Forward

LEMMA BackwardTyped ==
    ASSUME NEW ts \in Seq(TrackedCall)
    PROVE  /\ Backward(ts) \in Seq(Op) /\ Len(Backward(ts)) = Len(ts)
           /\ \A i \in 1 .. Len(ts) : Backward(ts)[i].kind = "delete" =>
                \E j \in 1 .. Len(ts) : ts[j].op.kind = "create"
<1> DEFINE n == Len(ts)
           r == [k \in 1 .. n |-> ts[k].reverse]
<1>1. /\ n \in Nat /\ DOMAIN ts = 1 .. n
      /\ \A k \in 1 .. n : /\ ts[k].reverse \in Op
                           /\ ts[k].reverse.kind = "delete" => ts[k].op.kind = "create"
    <2>1. \A c \in TrackedCall : c.reverse \in Op /\ (c.reverse.kind = "delete" => c.op.kind = "create")
        BY DEF TrackedCall, CallType, Undone
    <2> QED
        BY <2>1, ElementOfSeq, LenProperties
<1>2. Len(r) = n /\ [k \in DOMAIN ts |-> ts[k].reverse] = r
    BY <1>1
<1>3. Backward(ts) = [j \in 1 .. n |-> r[(n - j) + 1]]
    BY <1>2 DEF Backward, Reverse
<1>4. \A j \in 1 .. n : (n - j) + 1 \in 1 .. n /\ r[(n - j) + 1] = ts[(n - j) + 1].reverse
    BY <1>1
<1> HIDE DEF r, n
<1>5. \A j \in 1 .. n : r[(n - j) + 1] \in Op
    BY <1>1, <1>4
<1>6. Backward(ts) \in Seq(Op) /\ Len(Backward(ts)) = n
    BY <1>1, <1>3, <1>5
<1>7. ASSUME NEW i \in 1 .. n, Backward(ts)[i].kind = "delete"
      PROVE  \E j \in 1 .. n : ts[j].op.kind = "create"
    <2>1. (n - i) + 1 \in 1 .. n /\ Backward(ts)[i] = ts[(n - i) + 1].reverse
        BY <1>3, <1>4
    <2> QED
        BY <1>1, <1>7, <2>1
<1> QED
    BY <1>6, <1>7 DEF n

LEMMA Joined ==
    ASSUME NEW a \in Seq(Op), NEW b \in Seq(Op)
    PROVE  /\ a \o b \in Seq(Op) /\ Len(a \o b) = Len(a) + Len(b)
           /\ \A i \in 1 .. Len(a \o b) :
                 (i \in 1 .. Len(a) /\ (a \o b)[i] = a[i])
                    \/ (\E j \in 1 .. Len(b) : (a \o b)[i] = b[j])
           /\ (\A j \in 1 .. Len(b) : b[j].kind # "delete") /\ (\E j \in 1 .. Len(b) : b[j].kind = "create")
                 => CreatesLast(a \o b)
<1> DEFINE c == a \o b
           n == Len(a)
           m == Len(b)
<1>1. n \in Nat /\ m \in Nat
    OBVIOUS
<1>2. /\ c \in Seq(Op) /\ Len(c) = n + m
      /\ \A i \in 1 .. n + m : c[i] = IF i <= n THEN a[i] ELSE b[i - n]
    BY ConcatProperties
<1> HIDE DEF c, n, m
<1>3. \A i \in 1 .. n + m : i > n => i - n \in 1 .. m
    BY <1>1
<1>4. ASSUME NEW i \in 1 .. Len(c)
      PROVE  (i \in 1 .. n /\ c[i] = a[i]) \/ \E j \in 1 .. m : c[i] = b[j]
    <2>1. CASE i <= n
        <3>1. i \in 1 .. n
            BY <1>1, <1>2, <2>1
        <3> QED
            BY <1>2, <2>1, <3>1
    <2>2. CASE ~ (i <= n)
        <3>1. i - n \in 1 .. m /\ c[i] = b[i - n]
            BY <1>1, <1>2, <1>3, <2>2
        <3> QED
            BY <3>1
    <2> QED
        BY <2>1, <2>2
<1>5. ASSUME \A j \in 1 .. m : b[j].kind # "delete", NEW j \in 1 .. m, b[j].kind = "create"
      PROVE  CreatesLast(c)
    <2>1. n + j \in 1 .. Len(c) /\ c[n + j] = b[j]
        BY <1>1, <1>2
    <2>2. ASSUME NEW k \in n + j .. Len(c) PROVE c[k].kind # "delete"
        <3>1. k \in 1 .. n + m /\ ~ (k <= n) /\ k - n \in 1 .. m
            BY <1>1, <1>2, <2>2
        <3>2. c[k] = b[k - n]
            BY <1>2, <3>1
        <3> QED
            BY <1>5, <3>1, <3>2
    <2> QED
        BY <1>5, <2>1, <2>2 DEF CreatesLast
<1> QED
    BY <1>2, <1>4, <1>5 DEF c, n, m

(* What another user's operation makes of the predictions. *)
LEMMA AroundTyped ==
    ASSUME NEW cs \in Seq(CallType), NEW op \in Op
    PROVE  LET ops == Around(cs, op)
           IN  /\ ops \in Seq(Op) /\ ops # <<>>
               /\ Making(cs) => CreatesLast(ops)
               /\ ~ Making(cs) => \A k \in 1 .. Len(ops) : ops[k].kind = "delete" => op.kind = "delete"
               /\ cs = <<>> => Len(ops) = 1
<1> DEFINE ts == Tracked(cs)
           a == Backward(ts)
           b == Forward(ts)
           ab == a \o <<op>>
           ops == ab \o b
<1>1. /\ ts \in Seq(TrackedCall)
      /\ \A i \in 1 .. Len(ts) : \E j \in 1 .. Len(cs) : cs[j].tracked /\ ts[i] = cs[j]
      /\ \A j \in 1 .. Len(cs) : cs[j].tracked => \E i \in 1 .. Len(ts) : ts[i] = cs[j]
    BY TrackedTyped
<1> HIDE DEF ts
<1>2. /\ a \in Seq(Op) /\ Len(a) = Len(ts)
      /\ \A i \in 1 .. Len(ts) : a[i].kind = "delete" => \E j \in 1 .. Len(ts) : ts[j].op.kind = "create"
    BY <1>1, BackwardTyped
<1>3. /\ b \in Seq(Op) /\ Len(b) = Len(ts)
      /\ \A i \in 1 .. Len(ts) : b[i] = ts[i].op /\ ts[i].op.kind # "delete"
    BY <1>1, ForwardTyped
<1>4. <<op>> \in Seq(Op) /\ Len(<<op>>) = 1 /\ \A j \in 1 .. 1 : <<op>>[j] = op
    OBVIOUS
<1> DEFINE one == <<op>>
<1> HIDE DEF a, b, one
<1>5. /\ ab \in Seq(Op) /\ Len(ab) = Len(a) + 1
      /\ \A i \in 1 .. Len(ab) : (i \in 1 .. Len(a) /\ ab[i] = a[i]) \/ ab[i] = op
    BY <1>2, <1>4, Joined DEF one
<1> HIDE DEF ab
<1>6. /\ ops \in Seq(Op) /\ Len(ops) = Len(ab) + Len(b)
      /\ \A i \in 1 .. Len(ops) : (i \in 1 .. Len(ab) /\ ops[i] = ab[i])
                                     \/ \E j \in 1 .. Len(b) : ops[i] = b[j]
      /\ (\A j \in 1 .. Len(b) : b[j].kind # "delete") /\ (\E j \in 1 .. Len(b) : b[j].kind = "create")
            => CreatesLast(ops)
    BY <1>3, <1>5, Joined
<1>7. Around(cs, op) = ops
    BY DEF Around, ops, ab, a, b, ts
<1> HIDE DEF ops
<1>8. Len(ts) \in Nat /\ Len(ops) = Len(ts) + 1 + Len(ts)
    BY <1>1, <1>2, <1>3, <1>5, <1>6
<1>9. ops # <<>>
    BY <1>8
<1>10. Making(cs) <=> \E i \in 1 .. Len(ts) : ts[i].op.kind = "create"
    <2>1. ASSUME NEW j \in 1 .. Len(cs), cs[j].tracked, cs[j].op.kind = "create"
          PROVE  \E i \in 1 .. Len(ts) : ts[i].op.kind = "create"
        <3>1. PICK i \in 1 .. Len(ts) : ts[i] = cs[j]
            BY <1>1, <2>1
        <3> QED
            BY <2>1, <3>1
    <2>2. ASSUME NEW i \in 1 .. Len(ts), ts[i].op.kind = "create"
          PROVE  \E j \in 1 .. Len(cs) : cs[j].tracked /\ cs[j].op.kind = "create"
        <3>1. PICK j \in 1 .. Len(cs) : cs[j].tracked /\ ts[i] = cs[j]
            BY <1>1
        <3> QED
            BY <2>2, <3>1
    <2> QED
        BY <2>1, <2>2 DEF Making
<1>11. Making(cs) => CreatesLast(ops)
    BY <1>3, <1>6, <1>10
<1>12. ASSUME ~ Making(cs), NEW k \in 1 .. Len(ops), ops[k].kind = "delete" PROVE op.kind = "delete"
    <2>1. \A j \in 1 .. Len(b) : b[j].kind # "delete"
        BY <1>3
    <2>2. k \in 1 .. Len(ab) /\ ops[k] = ab[k]
        BY <1>6, <1>12, <2>1
    <2>3. \A i \in 1 .. Len(a) : a[i].kind # "delete"
        BY <1>2, <1>10, <1>12
    <2> QED
        BY <1>5, <1>12, <2>2, <2>3
<1>13. ASSUME cs = <<>> PROVE Len(ops) = 1
    <2>1. Len(cs) = 0 /\ 1 .. 0 = {}
        BY <1>13
    <2>2. Len(ts) = 0
        BY <1>1, <1>8, <2>1
    <2> QED
        BY <1>8, <2>2
<1> QED
    BY <1>6, <1>7, <1>9, <1>11, <1>12, <1>13

(* What a refusal makes of them. *)
LEMMA AfterRefusalTyped ==
    ASSUME NEW cs \in Seq(CallType), cs # <<>>
    PROVE  LET ops == AfterRefusal(cs)
           IN  /\ ops \in Seq(Op)
               /\ ~ cs[1].tracked => ops = <<>>
               /\ cs[1].tracked /\ Making(Tail(cs)) => CreatesLast(ops)
               /\ ~ Making(cs) => \A k \in 1 .. Len(ops) : ops[k].kind # "delete"
<1> DEFINE ops == AfterRefusal(cs)
<1>1. Len(cs) \in Nat /\ Len(cs) # 0 /\ Head(cs) = cs[1] /\ 1 \in 1 .. Len(cs)
    BY EmptySeq
<1>2. CASE ~ cs[1].tracked
    <2>1. ops = <<>>
        BY <1>1, <1>2 DEF AfterRefusal
    <2> QED
        BY <1>2, <2>1
<1>3. CASE cs[1].tracked
    <2> DEFINE ts == Tracked(cs)
               us == Tail(ts)
               a == Backward(ts)
               b == Forward(us)
    <2>1. /\ ts \in Seq(TrackedCall)
          /\ \A i \in 1 .. Len(ts) : \E j \in 1 .. Len(cs) : cs[j].tracked /\ ts[i] = cs[j]
          /\ \A j \in 1 .. Len(cs) : cs[j].tracked =>
               \E i \in 1 .. Len(ts) : ts[i] = cs[j] /\ (j # 1 => i # 1)
        BY <1>3, TrackedTyped
    <2> HIDE DEF ts
    <2>2. Len(ts) \in Nat /\ ts # <<>> /\ Len(ts) # 0
        BY <1>1, <1>3, <2>1
    <2>3. us \in Seq(TrackedCall) /\ Len(us) = Len(ts) - 1 /\ \A i \in 1 .. Len(ts) - 1 : us[i] = ts[i + 1]
        BY <2>1, <2>2, HeadTailProperties
    <2> HIDE DEF us
    <2>4. /\ a \in Seq(Op) /\ Len(a) = Len(ts)
          /\ \A i \in 1 .. Len(ts) : a[i].kind = "delete" => \E j \in 1 .. Len(ts) : ts[j].op.kind = "create"
        BY <2>1, BackwardTyped
    <2>5. /\ b \in Seq(Op) /\ Len(b) = Len(us)
          /\ \A i \in 1 .. Len(us) : b[i] = us[i].op /\ us[i].op.kind # "delete"
        BY <2>3, ForwardTyped
    <2>6. ops = a \o b
        BY <1>1, <1>3 DEF AfterRefusal, a, b, us, ts
    <2> HIDE DEF a, b, ops
    <2>7. /\ ops \in Seq(Op)
          /\ \A i \in 1 .. Len(ops) : (i \in 1 .. Len(a) /\ ops[i] = a[i])
                                         \/ \E j \in 1 .. Len(b) : ops[i] = b[j]
          /\ (\A j \in 1 .. Len(b) : b[j].kind # "delete") /\ (\E j \in 1 .. Len(b) : b[j].kind = "create")
                => CreatesLast(ops)
        BY <2>4, <2>5, <2>6, Joined
    <2>8. ASSUME Making(Tail(cs)) PROVE CreatesLast(ops)
        <3>1. Len(Tail(cs)) = Len(cs) - 1 /\ \A k \in 1 .. Len(cs) - 1 : Tail(cs)[k] = cs[k + 1]
            BY HeadTailProperties
        <3>2. PICK k \in 1 .. Len(cs) - 1 : cs[k + 1].tracked /\ cs[k + 1].op.kind = "create"
            BY <2>8, <3>1 DEF Making
        <3>3. k + 1 \in 1 .. Len(cs) /\ k + 1 # 1
            BY <1>1
        <3>4. PICK i \in 1 .. Len(ts) : ts[i] = cs[k + 1] /\ i # 1
            BY <2>1, <3>2, <3>3
        <3>5. i - 1 \in 1 .. Len(ts) - 1 /\ (i - 1) + 1 = i
            BY <2>2, <3>4
        <3>6. b[i - 1] = ts[i].op /\ i - 1 \in 1 .. Len(b)
            BY <2>3, <2>5, <3>5
        <3> QED
            BY <2>5, <2>7, <3>2, <3>4, <3>6
    <2>9. ASSUME ~ Making(cs), NEW k \in 1 .. Len(ops) PROVE ops[k].kind # "delete"
        <3>1. \A i \in 1 .. Len(a) : a[i].kind # "delete"
            <4>1. ASSUME NEW i \in 1 .. Len(ts) PROVE ts[i].op.kind # "create"
                <5>1. PICK j \in 1 .. Len(cs) : cs[j].tracked /\ ts[i] = cs[j]
                    BY <2>1
                <5>2. cs[j].op.kind # "create"
                    BY <2>9, <5>1, Zenon DEF Making
                <5> QED
                    BY <5>1, <5>2
            <4> QED
                BY <2>4, <4>1, Zenon
        <3>2. \A j \in 1 .. Len(b) : b[j].kind # "delete"
            BY <2>5
        <3>3. (k \in 1 .. Len(a) /\ ops[k] = a[k]) \/ \E j \in 1 .. Len(b) : ops[k] = b[j]
            BY <2>7, <2>9
        <3> QED
            BY <3>1, <3>2, <3>3
    <2> QED
        BY <1>3, <2>7, <2>8, <2>9 DEF ops
<1> QED
    BY <1>2, <1>3

LEMMA ForgottenTyped ==
    ASSUME NEW cs \in Seq(CallType)
    PROVE  LET fs == FirstForgotten(cs)
           IN  /\ fs \in Seq(CallType) /\ Len(fs) = Len(cs)
               /\ \A k \in 1 .. Len(cs) : /\ fs[k].op = cs[k].op /\ fs[k].then = cs[k].then
                                          /\ fs[k].tracked => cs[k].tracked
<1> DEFINE n == Len(cs)
           I == {k \in 1 .. n : cs[k].tracked}
           m == Min(I)
           fs == FirstForgotten(cs)
<1>1. n \in Nat /\ DOMAIN cs = 1 .. n /\ \A k \in 1 .. n : cs[k] \in CallType
    BY ElementOfSeq, LenProperties
<1>2. fs = IF I = {} THEN cs ELSE IF m = 0 THEN cs ELSE [cs EXCEPT ![m].tracked = FALSE]
    BY Zenon DEF FirstForgotten, SelectInSeq
<1> HIDE DEF I, m, n, fs
<1>3. CASE fs = cs
    BY <1>1, <1>3 DEF fs, n
<1>4. CASE fs = [cs EXCEPT ![m].tracked = FALSE]
    <2> DEFINE c == [cs[m] EXCEPT !.tracked = FALSE]
    <2>1. CASE m \in 1 .. n
        <3>1. c \in CallType /\ c.op = cs[m].op /\ c.then = cs[m].then /\ ~ c.tracked
            <4>1. cs[m] \in CallType
                BY <1>1, <2>1
            <4> QED
                BY <4>1 DEF CallType
        <3>2. fs = [cs EXCEPT ![m] = c]
            BY <1>4
        <3> HIDE DEF c
        <3>3. fs \in Seq(CallType) /\ Len(fs) = n /\ \A k \in 1 .. n : fs[k] = IF k = m THEN c ELSE cs[k]
            BY <1>1, <2>1, <3>1, <3>2, ExceptSeq DEF n
        <3> QED
            BY <3>1, <3>3 DEF fs, n
    <2>2. CASE m \notin 1 .. n
        <3>1. fs = cs
            BY <1>1, <1>4, <2>2
        <3> QED
            BY <1>1, <3>1 DEF fs, n
    <2> QED
        BY <2>1, <2>2
<1> QED
    BY <1>2, <1>3, <1>4

-----------------------------------------------------------------------------
(* The inductive invariant                                                 *)

(* The panel is empty only while there is nothing to show, or until the    *)
(* next message; a creation on its way has left an envelope in the map;    *)
(* and the deletion on its way knows an index that will exist.             *)
IInv ==
    /\ Now \in State
    /\ ed.env = NoEnv => ed.e = 0
    /\ calls \in Seq(CallType)
    /\ Making(calls) => envs # <<>>
    /\ ed.env = NoEnv => calls = <<>> \/ envs = <<>>
    /\ \A k \in 1 .. Len(calls) : Before(calls, k) =>
          Len(calls) = 1 /\ calls[1].op.kind = "delete" /\ calls[1].then.e \in 1 .. Len(envs) + 1

LEMMA Panes ==
    ASSUME Now \in State
    PROVE  /\ envs \in Seq(Ident) /\ ed \in Shown /\ Len(envs) \in Nat /\ DOMAIN envs = 1 .. Len(envs)
           /\ objs \in [DOMAIN objs -> Obj] /\ DOMAIN objs \in SUBSET Ident
           /\ \A k \in 1 .. Len(envs) : envs[k] \in DOMAIN objs /\ envs[k] \in Ident
           /\ ed.e \in Nat /\ ed.env \in Nat /\ ed.points \in Points /\ ed.val \in Points
           /\ ed.env # NoEnv => ed.env \in DOMAIN objs
           /\ Now.envs = envs /\ Now.objs = objs /\ Now.ed = ed /\ ~ Now.dirty
<1>1. Now.envs = envs /\ Now.objs = objs /\ Now.ed = ed /\ ~ Now.dirty
    BY DEF Now
<1>2. ed \in Shown => ed.val \in Points
    BY DEF Shown
<1> QED
    BY <1>1, <1>2, StateFields

(* What the panel computes when a message or an event has been dealt with. *)
Shows(t, r) ==
    /\ r \in State /\ r.envs = t.envs /\ r.dirty = t.dirty
    /\ r.ed.env = NoEnv => r.ed.e = 0
    /\ t.dirty => (r.ed.env = NoEnv => t.ed.e = 0)
    /\ ~ t.dirty => r = t

LEMMA Refreshed ==
    ASSUME NEW t \in State,
           t.dirty => t.ed.e \in 0 .. Len(t.envs),
           t.ed.env = NoEnv /\ ~ t.dirty => t.ed.e = 0
    PROVE  Shows(t, Refresh(t))
<1> DEFINE r == Refresh(t)
           i == t.envs[t.ed.e]
           pts == t.objs[i].points
           off == [t.ed EXCEPT !.env = NoEnv]
           on == [t.ed EXCEPT !.env = i, !.at = t.ed.e, !.points = pts, !.val = pts,
                              !.shared = TRUE, !.moved = FALSE]
<1>1. /\ t.envs \in Seq(Ident) /\ t.ed \in Shown /\ t.dirty \in BOOLEAN
      /\ t.objs \in [DOMAIN t.objs -> Obj] /\ DOMAIN t.objs \in SUBSET Ident
      /\ \A k \in 1 .. Len(t.envs) : t.envs[k] \in DOMAIN t.objs /\ t.envs[k] \in Ident
      /\ t = [envs |-> t.envs, objs |-> t.objs, ed |-> t.ed, dirty |-> t.dirty]
      /\ t.ed.e \in Nat /\ Len(t.envs) \in Nat
    BY StateFields
<1>2. CASE ~ t.dirty
    <2>1. r = t
        BY <1>2 DEF Refresh
    <2> QED
        BY <1>2, <2>1 DEF Shows
<1>3. CASE t.dirty /\ t.ed.e = 0
    <2>1. r = [t EXCEPT !.ed = off]
        BY <1>3 DEF Refresh
    <2>2. off \in Shown /\ off.e = 0 /\ off.env = NoEnv
        BY <1>1, <1>3 DEF Shown, NoEnv
    <2> HIDE DEF off
    <2>3. r = [envs |-> t.envs, objs |-> t.objs, ed |-> off, dirty |-> t.dirty]
        BY <1>1, <2>1
    <2> HIDE DEF r
    <2>4. r \in State
        BY <1>1, <2>2, <2>3, StateMade
    <2>5. r.envs = t.envs /\ r.ed = off /\ r.dirty = t.dirty
        BY <2>3
    <2> QED
        BY <1>3, <2>2, <2>4, <2>5 DEF Shows, r
<1>4. CASE t.dirty /\ t.ed.e # 0
    <2>1. t.ed.e \in 1 .. Len(t.envs)
        BY <1>1, <1>4
    <2>2. i \in DOMAIN t.objs /\ i \in Ident
        BY <1>1, <2>1
    <2> HIDE DEF i
    <2>3. pts \in Points
        <3>1. t.objs[i] \in Obj
            BY <1>1, <2>2
        <3> QED
            BY <3>1 DEF Obj
    <2>4. r = [t EXCEPT !.ed = on]
        BY <1>4 DEF Refresh, i
    <2> HIDE DEF pts
    <2>5. on \in Shown /\ on.env = i /\ i # NoEnv
        <3>1. i \in Nat /\ i # NoEnv
            BY <2>2 DEF Ident, NoEnv
        <3> QED
            BY <1>1, <2>3, <3>1 DEF Shown
    <2> HIDE DEF on
    <2>6. r = [envs |-> t.envs, objs |-> t.objs, ed |-> on, dirty |-> t.dirty]
        BY <1>1, <2>4
    <2> HIDE DEF r
    <2>7. r \in State
        BY <1>1, <2>2, <2>5, <2>6, StateMade
    <2>8. r.envs = t.envs /\ r.ed = on /\ r.dirty = t.dirty
        BY <2>6
    <2> QED
        BY <1>4, <2>5, <2>7, <2>8 DEF Shows, r
<1> QED
    BY <1>1, <1>2, <1>3, <1>4

LEMMA ForgetTyped ==
    ASSUME NEW c \in CallType
    PROVE  /\ Forget(c) \in CallType /\ Forget(c).op = c.op /\ (Forget(c).tracked <=> c.tracked)
           /\ Forget(c).then.kind = "before" => Forget(c).then = c.then
<1>1. [kind |-> "none"] \in Then
    BY DEF Then
<1> QED
    BY <1>1 DEF Forget, CallType

(* The state after a step, from the state the code worked on.              *)
LEMMA Became ==
    ASSUME NEW t \in State, NEW cs \in Seq(CallType), Become(t, cs),
           t.dirty => t.ed.e \in 0 .. Len(t.envs),
           t.ed.env = NoEnv /\ ~ t.dirty => t.ed.e = 0
    PROVE  /\ Now' \in State /\ envs' = t.envs
           /\ ed'.env = NoEnv => ed'.e = 0
           /\ t.dirty => (ed'.env = NoEnv => t.ed.e = 0)
           /\ ~ t.dirty => ed' = t.ed
           /\ calls' \in Seq(CallType) /\ Len(calls') = Len(cs)
           /\ \A k \in 1 .. Len(cs) : /\ calls'[k].op = cs[k].op
                                      /\ calls'[k].tracked <=> cs[k].tracked
                                      /\ Before(calls', k) => calls'[k].then = cs[k].then
<1> DEFINE r == Refresh(t)
           fs == [k \in DOMAIN cs |-> Forget(cs[k])]
<1>1. Shows(t, r)
    BY Refreshed
<1>2. envs' = r.envs /\ objs' = r.objs /\ ed' = r.ed /\ calls' = IF t.dirty THEN fs ELSE cs
    BY DEF Become
<1> HIDE DEF r, fs
<1>3. r \in State
    BY <1>1 DEF Shows
<1>4. Now' \in State
    <2>1. Now' = [envs |-> r.envs, objs |-> r.objs, ed |-> r.ed, dirty |-> FALSE]
        BY <1>2 DEF Now
    <2>2. /\ r.envs \in Seq(Ident) /\ r.ed \in Shown /\ FALSE \in BOOLEAN
          /\ r.objs \in [DOMAIN r.objs -> Obj] /\ DOMAIN r.objs \in SUBSET Ident
          /\ \A k \in 1 .. Len(r.envs) : r.envs[k] \in DOMAIN r.objs
          /\ r.ed.env # NoEnv => r.ed.env \in DOMAIN r.objs
        BY <1>3, StateFields
    <2>3. [envs |-> r.envs, objs |-> r.objs, ed |-> r.ed, dirty |-> FALSE] \in State
        BY <2>2, StateMade
    <2> QED
        BY <2>1, <2>3
<1>5. /\ envs' = t.envs /\ (ed'.env = NoEnv => ed'.e = 0)
      /\ t.dirty => (ed'.env = NoEnv => t.ed.e = 0)
      /\ ~ t.dirty => ed' = t.ed
    BY <1>1, <1>2 DEF Shows
<1>6. Len(cs) \in Nat /\ DOMAIN cs = 1 .. Len(cs) /\ \A k \in 1 .. Len(cs) : cs[k] \in CallType
    BY ElementOfSeq, LenProperties
<1>7. /\ fs \in Seq(CallType) /\ Len(fs) = Len(cs)
      /\ \A k \in 1 .. Len(cs) : fs[k] = Forget(cs[k])
    <2>1. \A k \in 1 .. Len(cs) : Forget(cs[k]) \in CallType
        BY <1>6, ForgetTyped
    <2> QED
        BY <1>6, <2>1 DEF fs
<1>8. /\ calls' \in Seq(CallType) /\ Len(calls') = Len(cs)
      /\ \A k \in 1 .. Len(cs) : /\ calls'[k].op = cs[k].op
                                 /\ calls'[k].tracked <=> cs[k].tracked
                                 /\ Before(calls', k) => calls'[k].then = cs[k].then
    <2>1. \A k \in 1 .. Len(cs) : /\ Forget(cs[k]).op = cs[k].op
                                  /\ Forget(cs[k]).tracked <=> cs[k].tracked
                                  /\ Forget(cs[k]).then.kind = "before" => Forget(cs[k]).then = cs[k].then
        BY <1>6, ForgetTyped
    <2>2. CASE t.dirty
        BY <1>2, <1>7, <2>1, <2>2 DEF Before
    <2>3. CASE ~ t.dirty
        BY <1>2, <2>3 DEF Before
    <2> QED
        BY <2>2, <2>3
<1> QED
    BY <1>4, <1>5, <1>8

LEMMA UndoingTyped ==
    ASSUME Now \in State, NEW op \in Op
    PROVE  /\ Undoing(op) \in Op \cup {[kind |-> "none"]}
           /\ op.kind # "delete" => Undone(op, Undoing(op))
<1>0. op.kind \in {"create", "edit", "delete"}
    BY DEF Op
<1>1. CASE op.kind = "create"
    <2>1. Undoing(op) = Delete(Len(envs) + 1)
        BY <1>1 DEF Undoing
    <2>2. Len(envs) + 1 \in Nat
        BY Panes
    <2> QED
        BY <1>1, <2>1, <2>2 DEF Delete, Op, Undone
<1>2. CASE op.kind = "edit"
    <2> DEFINE pts == IF op.points = NoPart \/ op.e \notin DOMAIN envs
                      THEN NoPart ELSE objs[envs[op.e]].points
    <2>1. Undoing(op) = Edit(op.e, pts)
        BY <1>2 DEF Undoing
    <2>2. pts \in Points \cup {NoPart}
        <3>1. CASE op.points = NoPart \/ op.e \notin DOMAIN envs
            BY <3>1
        <3>2. CASE op.points # NoPart /\ op.e \in DOMAIN envs
            <4>1. objs[envs[op.e]] \in Obj
                BY <3>2, Panes
            <4>2. objs[envs[op.e]].points \in Points
                BY <4>1 DEF Obj
            <4> QED
                BY <3>2, <4>2
        <3> QED
            BY <3>1, <3>2
    <2> HIDE DEF pts
    <2>3. op.e \in Nat
        BY <1>2 DEF Op
    <2>4. Undoing(op) \in Op /\ Undoing(op).kind = "edit"
        BY <2>1, <2>2, <2>3 DEF Edit, Op
    <2> QED
        BY <1>2, <2>4 DEF Undone
<1>3. CASE op.kind = "delete"
    BY <1>3 DEF Undoing
<1> QED
    BY <1>0, <1>1, <1>2, <1>3

(* A request: its prediction is dispatched, and it waits for its answer.   *)
LEMMA Sent ==
    ASSUME IInv, \A k \in 1 .. Len(calls) : ~ Before(calls, k),
           NEW s \in State, s.envs = envs, s.ed.env = ed.env, s.ed.e = ed.e, ~ s.dirty,
           NEW op \in Op, NEW then \in Then,
           op.kind = "delete" => calls = <<>>,
           then.kind = "before" => op.kind = "delete" /\ then.e \in 1 .. Len(envs),
           Query(s, op, then)
    PROVE  IInv'
<1> DEFINE c == [op |-> op, reverse |-> Undoing(op), then |-> then, tracked |-> op.kind # "delete"]
           cs == Append(calls, c)
           t == Handle(s, op)
           n == Len(calls)
<1>0. Now \in State /\ calls \in Seq(CallType) /\ n \in Nat
    BY DEF IInv
<1>1. Become(t, cs)
    BY DEF Query
<1>2. c \in CallType
    BY <1>0, UndoingTyped DEF CallType
<1>3. /\ cs \in Seq(CallType) /\ Len(cs) = n + 1 /\ cs[n + 1] = c
      /\ \A k \in 1 .. n : cs[k] = calls[k]
    BY <1>0, <1>2, AppendProperties
<1>4. c.op = op /\ c.then = then /\ (c.tracked => op.kind # "delete")
    OBVIOUS
<1> HIDE DEF c, cs, t
<1>5. Settled(s)
    BY DEF Settled, IInv
<1>6. Done(s, t, op)
    BY <1>5, HandleDone DEF t
<1>7. /\ t \in State /\ Settled(t) /\ Seen(t) /\ t.ed.env = ed.env
      /\ op.kind = "create" => t.envs # <<>>
      /\ op.kind = "edit" => t.envs = envs
      /\ op.kind = "delete" => Len(envs) - 1 <= Len(t.envs)
    BY <1>6 DEF Done
<1>8. /\ t.dirty => t.ed.e \in 0 .. Len(t.envs) /\ (t.ed.e = 0 <=> t.envs = <<>>)
      /\ t.ed.env = NoEnv /\ ~ t.dirty => t.ed.e = 0 /\ t.envs = <<>>
    BY <1>7 DEF Settled, Seen
<1>9. /\ Now' \in State /\ envs' = t.envs /\ (ed'.env = NoEnv => ed'.e = 0)
      /\ t.dirty => (ed'.env = NoEnv => t.ed.e = 0)
      /\ ~ t.dirty => ed' = t.ed
      /\ calls' \in Seq(CallType) /\ Len(calls') = Len(cs)
      /\ \A k \in 1 .. Len(cs) : /\ calls'[k].op = cs[k].op
                                 /\ calls'[k].tracked <=> cs[k].tracked
                                 /\ Before(calls', k) => calls'[k].then = cs[k].then
    BY <1>1, <1>3, <1>7, <1>8, Became
<1>10. ed'.env = NoEnv => envs' = <<>>
    BY <1>8, <1>9
<1>13. /\ Len(calls') = n + 1
       /\ \A k \in 1 .. n + 1 : /\ calls'[k].op = cs[k].op
                                /\ calls'[k].tracked <=> cs[k].tracked
                                /\ Before(calls', k) => calls'[k].then = cs[k].then
    BY <1>3, <1>9, Zenon
<1>11. ASSUME Making(calls') PROVE envs' # <<>>
    <2>1. PICK k \in 1 .. n + 1 : cs[k].tracked /\ cs[k].op.kind = "create"
        <3>1. PICK k \in 1 .. Len(calls') : calls'[k].tracked /\ calls'[k].op.kind = "create"
            BY <1>11, Zenon DEF Making
        <3>2. k \in 1 .. n + 1
            BY <1>13
        <3>3. cs[k].tracked /\ cs[k].op.kind = "create"
            BY <1>13, <3>1, <3>2, Zenon
        <3> QED
            BY <3>2, <3>3
    <2>2. CASE k = n + 1
        BY <1>3, <1>4, <1>7, <1>9, <2>1, <2>2
    <2>3. CASE k # n + 1
        <3>1. k \in 1 .. n /\ n # 0
            BY <1>0, <2>3
        <3>2. calls[k].tracked /\ calls[k].op.kind = "create" /\ calls # <<>>
            BY <1>0, <1>3, <2>1, <3>1
        <3>3. Making(calls) /\ envs # <<>>
            BY <3>1, <3>2 DEF Making, IInv
        <3>4. op.kind \in {"create", "edit"}
            BY <3>2 DEF Op
        <3> QED
            BY <1>7, <1>9, <3>3, <3>4
    <2> QED
        BY <2>2, <2>3
<1>12. ASSUME NEW k \in 1 .. Len(calls'), Before(calls', k)
       PROVE  Len(calls') = 1 /\ calls'[1].op.kind = "delete" /\ calls'[1].then.e \in 1 .. Len(envs') + 1
    <2>1. k \in 1 .. n + 1 /\ calls'[k].then = cs[k].then /\ calls'[k].op = cs[k].op
        <3>1. k \in 1 .. n + 1
            BY <1>13
        <3> QED
            BY <1>12, <1>13, <3>1, Zenon
    <2>2. k = n + 1
        <3>1. k \in 1 .. n => calls[k] = cs[k] /\ ~ Before(calls, k)
            BY <1>3
        <3> QED
            BY <1>0, <1>12, <2>1, <3>1 DEF Before
    <2>3. calls'[k].then = then /\ calls'[k].op = op /\ then.kind = "before"
        BY <1>3, <1>4, <1>12, <2>1, <2>2 DEF Before
    <2>4. op.kind = "delete" /\ then.e \in 1 .. Len(envs) /\ calls = <<>>
        BY <2>3
    <2>5. n = 0 /\ k = 1 /\ Len(calls') = 1
        BY <1>3, <1>9, <2>2, <2>4
    <2>6. Len(envs) \in Nat /\ Len(envs') \in Nat /\ Len(envs) <= Len(envs') + 1
        <3>1. Len(t.envs) \in Nat
            BY <1>7, StateFields
        <3> QED
            BY <1>0, <1>7, <1>9, <2>4, <3>1, Panes
    <2>7. then.e \in 1 .. Len(envs') + 1
        BY <2>4, <2>6
    <2> QED
        BY <2>3, <2>4, <2>5, <2>7
<1> QED
    BY <1>9, <1>10, <1>11, <1>12 DEF IInv

(* Only the panel's points or the drag change. *)
LEMMA PanelMoved ==
    ASSUME IInv, ed' \in Shown, ed'.env = ed.env, ed'.e = ed.e, UNCHANGED <<envs, objs, calls>>
    PROVE  IInv'
<1>1. /\ Now \in State /\ envs' = envs /\ objs' = objs /\ calls' = calls
    BY DEF IInv
<1>2. Now' = [envs |-> envs, objs |-> objs, ed |-> ed', dirty |-> FALSE]
    BY <1>1 DEF Now
<1>3. /\ envs \in Seq(Ident) /\ FALSE \in BOOLEAN
      /\ objs \in [DOMAIN objs -> Obj] /\ DOMAIN objs \in SUBSET Ident
      /\ \A k \in 1 .. Len(envs) : envs[k] \in DOMAIN objs
      /\ ed'.env # NoEnv => ed'.env \in DOMAIN objs
    BY <1>1, Panes
<1>4. [envs |-> envs, objs |-> objs, ed |-> ed', dirty |-> FALSE] \in State
    BY <1>3, StateMade
<1>5. Now' \in State
    BY <1>2, <1>4
<1> QED
    BY <1>1, <1>5 DEF IInv, Making, Before

-----------------------------------------------------------------------------
(* Points that are dragged, typed, added and taken away                    *)

LEMMA TwoNumbers ==
    ASSUME NEW a \in Int, NEW b \in Int
    PROVE  /\ Max({a, b}) \in {a, b} /\ a <= Max({a, b}) /\ b <= Max({a, b})
           /\ Min({a, b}) \in {a, b} /\ Min({a, b}) <= a /\ Min({a, b}) <= b
<1> DEFINE low == IF a < b THEN a ELSE b
           high == IF a < b THEN b ELSE a
           s == {a, b}
<1>1. low \in Int /\ high \in Int /\ s \in SUBSET (low .. high) /\ s # {} /\ a \in s /\ b \in s
    OBVIOUS
<1> HIDE DEF low, high, s
<1>2. /\ Min(s) \in s /\ \A y \in s : Min(s) <= y
      /\ Max(s) \in s /\ \A y \in s : y <= Max(s)
    BY <1>1, Extremes
<1> QED
    BY <1>1, <1>2 DEF s

LEMMA SetValueTyped ==
    ASSUME NEW q \in Point, NEW type, NEW v \in Int
    PROVE  SetValue(q, type, v) \in Point /\ SetValue(q, type, v).time = q.time
<1>1. Clamp(v, 0, Full) \in Int
    <2>1. Full \in Int
        BY PointsAssumption
    <2> DEFINE m == Max({0, v})
    <2>2. m \in Int
        <3>1. 0 \in Int
            OBVIOUS
        <3>2. m \in {0, v}
            BY <3>1, TwoNumbers
        <3> HIDE DEF m
        <3> QED
            BY <3>2
    <2> HIDE DEF m
    <2>3. Min({m, Full}) \in {m, Full}
        BY <2>1, <2>2, TwoNumbers
    <2>4. Clamp(v, 0, Full) = Min({m, Full})
        BY DEF Clamp, m
    <2> QED
        BY <2>1, <2>2, <2>3, <2>4
<1> DEFINE w == IF type = "color" THEN Clamp(v, 0, Full) ELSE v
<1>2. SetValue(q, type, v) = [q EXCEPT !.value = w] /\ w \in Int
    BY <1>1 DEF SetValue
<1> HIDE DEF w
<1> QED
    BY <1>2 DEF Point

LEMMA PointsChanged ==
    ASSUME NEW pts \in Points, NEW j \in 1 .. Len(pts), NEW q \in Point,
           j # 1 => pts[j - 1].time <= q.time,
           j # Len(pts) => q.time <= pts[j + 1].time
    PROVE  [pts EXCEPT ![j] = q] \in Points
<1> DEFINE new == [pts EXCEPT ![j] = q]
           n == Len(pts)
<1>1. /\ pts \in Seq(Point) /\ n \in Nat
      /\ \A k \in 2 .. n : pts[k - 1].time <= pts[k].time
    BY PointFields DEF InOrder
<1>2. new \in Seq(Point) /\ Len(new) = n /\ \A k \in 1 .. n : new[k] = IF k = j THEN q ELSE pts[k]
    BY <1>1, ExceptSeq
<1> HIDE DEF new
<1>3. ASSUME NEW k \in 2 .. n PROVE new[k - 1].time <= new[k].time
    <2>1. k \in 1 .. n /\ k - 1 \in 1 .. n
        BY <1>1
    <2>2. CASE k = j
        <3>1. new[k] = q /\ new[k - 1] = pts[j - 1] /\ j # 1
            BY <1>1, <1>2, <2>1, <2>2
        <3> QED
            BY <3>1
    <2>3. CASE k - 1 = j
        <3>1. new[k - 1] = q /\ new[k] = pts[j + 1] /\ j # n
            BY <1>1, <1>2, <2>1, <2>3
        <3> QED
            BY <3>1
    <2>4. CASE k # j /\ k - 1 # j
        BY <1>1, <1>2, <2>1, <2>4
    <2> QED
        BY <2>2, <2>3, <2>4
<1> QED
    BY <1>2, <1>3 DEF Points, InOrder, new

LEMMA PointsRemoved ==
    ASSUME NEW pts \in Points, NEW j \in 1 .. Len(pts)
    PROVE  RemoveAt(pts, j) \in Points
<1> DEFINE new == RemoveAt(pts, j)
           n == Len(pts)
<1>1. pts \in Seq(Point) /\ n \in Nat /\ \A i \in 1 .. n, k \in 1 .. n : i <= k => pts[i].time <= pts[k].time
    BY PointFields, LaterPoints
<1>2. /\ new \in Seq(Point) /\ Len(new) = n - 1
      /\ \A k \in 1 .. n - 1 : new[k] = IF k < j THEN pts[k] ELSE pts[k + 1]
    BY <1>1, RemovedFrom
<1> HIDE DEF new
<1>3. ASSUME NEW k \in 2 .. n - 1 PROVE new[k - 1].time <= new[k].time
    <2>1. /\ k \in 1 .. n /\ k - 1 \in 1 .. n /\ k + 1 \in 1 .. n /\ k \in 1 .. n - 1 /\ k - 1 \in 1 .. n - 1
          /\ k - 1 <= k /\ k - 1 <= k + 1 /\ k <= k + 1 /\ (k - 1) + 1 = k
        BY <1>1
    <2>2. new[k - 1] \in {pts[k - 1], pts[k]} /\ new[k] \in {pts[k], pts[k + 1]}
          /\ (new[k - 1] = pts[k] => new[k] = pts[k + 1] \/ new[k - 1].time = pts[k].time)
        BY <1>2, <2>1
    <2>3. CASE k - 1 < j
        <3>1. new[k - 1] = pts[k - 1]
            BY <1>2, <2>1, <2>3
        <3> QED
            BY <1>1, <2>1, <2>2, <3>1
    <2>4. CASE ~ (k - 1 < j)
        <3>1. new[k - 1] = pts[k] /\ new[k] = pts[k + 1]
            BY <1>1, <1>2, <2>1, <2>4
        <3> QED
            BY <1>1, <2>1, <3>1
    <2> QED
        BY <2>3, <2>4
<1> QED
    BY <1>2, <1>3 DEF Points, InOrder, new

LEMMA PointsInserted ==
    ASSUME NEW pts \in Points, NEW q \in Point, NEW at \in 1 .. Len(pts) + 1,
           \A k \in 1 .. Len(pts) : IF k < at THEN pts[k].time <= q.time ELSE q.time <= pts[k].time
    PROVE  InsertAt(pts, at, q) \in Points
<1> DEFINE new == InsertAt(pts, at, q)
           n == Len(pts)
<1>1. /\ pts \in Seq(Point) /\ n \in Nat
      /\ \A k \in 2 .. n : pts[k - 1].time <= pts[k].time
    BY PointFields DEF InOrder
<1>2. /\ new \in Seq(Point) /\ Len(new) = n + 1
      /\ \A k \in 1 .. n + 1 :
            new[k] = IF k < at THEN pts[k] ELSE IF k = at THEN q ELSE pts[k - 1]
    BY <1>1, InsertedInto
<1> HIDE DEF new
<1>3. ASSUME NEW k \in 2 .. n + 1 PROVE new[k - 1].time <= new[k].time
    <2>1. k \in 1 .. n + 1 /\ k - 1 \in 1 .. n + 1 /\ k - 1 \in 1 .. n
        BY <1>1
    <2>2. CASE k < at
        <3>1. new[k - 1] = pts[k - 1] /\ new[k] = pts[k] /\ k \in 2 .. n
            BY <1>1, <1>2, <2>1, <2>2
        <3> QED
            BY <1>1, <3>1
    <2>3. CASE k = at
        <3>1. new[k - 1] = pts[k - 1] /\ new[k] = q /\ k - 1 < at
            BY <1>1, <1>2, <2>1, <2>3
        <3> QED
            BY <2>1, <3>1
    <2>4. CASE k - 1 = at
        <3>1. new[k - 1] = q /\ new[k] = pts[k - 1] /\ ~ (k - 1 < at)
            BY <1>1, <1>2, <2>1, <2>4
        <3> QED
            BY <2>1, <3>1
    <2>5. CASE k - 1 > at
        <3>1. new[k - 1] = pts[(k - 1) - 1] /\ new[k] = pts[k - 1] /\ k - 1 \in 2 .. n
            BY <1>1, <1>2, <2>1, <2>5
        <3> QED
            BY <1>1, <3>1
    <2> QED
        BY <1>1, <2>2, <2>3, <2>4, <2>5
<1> QED
    BY <1>2, <1>3 DEF Points, InOrder, new

(* A point that is moved in time stays between its neighbours. *)
LEMMA BetweenNeighbours ==
    ASSUME ed.points \in Points, NEW j \in 1 .. Len(ed.points), NEW t \in Int
    PROVE  /\ Between(j, t) \in Nat
           /\ j # 1 => ed.points[j - 1].time <= Between(j, t)
           /\ j # Len(ed.points) => Between(j, t) <= ed.points[j + 1].time
<1> DEFINE n == Len(ed.points)
           low == IF j = 1 THEN 0 ELSE ed.points[j - 1].time
           m == Max({0, t})
           next == ed.points[j + 1].time
           high == Min({m} \cup (IF j = n THEN {} ELSE {next}))
<1>1. /\ n \in Nat /\ \A k \in 1 .. n : ed.points[k].time \in Nat
      /\ \A i \in 1 .. n, k \in 1 .. n : i <= k => ed.points[i].time <= ed.points[k].time
    BY PointFields, LaterPoints
<1>2. low \in Nat
    BY <1>1
<1>3. m \in Int
    <2>1. 0 \in Int
        OBVIOUS
    <2>2. m \in {0, t}
        BY <2>1, TwoNumbers
    <2> HIDE DEF m
    <2> QED
        BY <2>2
<1>4. j # n => next \in Nat /\ low <= next
    <2>1. ASSUME j # n PROVE next \in Nat /\ low <= next
        <3>1. j + 1 \in 1 .. n /\ (j # 1 => j - 1 \in 1 .. n /\ j - 1 <= j + 1)
            BY <1>1, <2>1
        <3> QED
            BY <1>1, <3>1
    <2> QED
        BY <2>1
<1>5. Between(j, t) = Max({low, high})
    BY DEF Between
<1> HIDE DEF low, m, next
<1>6. high \in Int /\ (j # n => high <= next)
    <2>1. CASE j = n
        <3>1. {m} \cup (IF j = n THEN {} ELSE {next}) = {m, m}
            BY <2>1
        <3>2. Min({m, m}) \in {m, m}
            BY <1>3, TwoNumbers
        <3> QED
            BY <1>3, <2>1, <3>1, <3>2
    <2>2. CASE j # n
        <3>1. {m} \cup (IF j = n THEN {} ELSE {next}) = {m, next}
            BY <2>2
        <3>2. next \in Int
            BY <1>4, <2>2
        <3>3. Min({m, next}) \in {m, next} /\ Min({m, next}) <= next
            BY <1>3, <3>2, TwoNumbers
        <3> QED
            BY <1>3, <3>1, <3>2, <3>3
    <2> QED
        BY <2>1, <2>2
<1> HIDE DEF high
<1>7. Max({low, high}) \in {low, high} /\ low <= Max({low, high})
    BY <1>2, <1>6, TwoNumbers
<1> DEFINE b == Between(j, t)
<1>8. b \in {low, high} /\ low <= b
    BY <1>5, <1>7
<1> HIDE DEF b
<1>9. b \in Nat /\ (j # n => b <= next)
    BY <1>2, <1>4, <1>6, <1>8
<1> QED
    BY <1>8, <1>9 DEF b, low, next

LEMMA ValueComputed ==
    ASSUME NEW pts \in Points, NEW t \in Int
    PROVE  Floor(ComputePoint(pts, t)) \in Int
<1> DEFINE f == ComputePoint(pts, t)
<1>1. f.num \in Int /\ f.den \in Int /\ 0 < f.den
    <2>1. CASE pts = <<>>
        <3>1. f = [num |-> 0, den |-> 1]
            BY <2>1 DEF ComputePoint
        <3> HIDE DEF f
        <3> QED
            BY <3>1
    <2>2. CASE pts # <<>>
        <3> DEFINE n == Len(pts)
                   v == [k \in 1 .. n |-> pts[k].value]
        <3>1. n \in Nat /\ \A k \in 1 .. n : pts[k].value \in Int
            BY PointFields
        <3>2. PICK low \in Int, high \in Int : \A k \in 1 .. n : v[k] \in low .. high
            <4>1. \A k \in 1 .. n : v[k] \in Int
                BY <3>1
            <4> HIDE DEF v, n
            <4> QED
                BY <3>1, <4>1, NumbersBounded
        <3>3. \A k \in 1 .. n : pts[k].value \in low .. high
            BY <3>2
        <3> HIDE DEF v
        <3> QED
            BY <2>2, <3>3, PointComputed
    <2> QED
        BY <2>1, <2>2
<1> HIDE DEF f
<1>2. f.num \div f.den \in Int
    BY <1>1
<1> QED
    BY <1>2 DEF Floor, f

-----------------------------------------------------------------------------
(* What the user does                                                      *)

LEMMA NoBefore ==
    ASSUME IInv, ~ AnyDelete, Quiet
    PROVE  \A k \in 1 .. Len(calls) : ~ Before(calls, k)
<1>1. ASSUME NEW k \in 1 .. Len(calls), Before(calls, k) PROVE FALSE
    <2>1. Len(calls) = 1 /\ calls[1].op.kind = "delete"
        BY <1>1 DEF IInv
    <2>2. 1 \in DOMAIN calls
        BY <2>1, LenProperties DEF IInv
    <2> QED
        BY <2>1, <2>2 DEF Quiet, Deleting
<1> QED
    BY <1>1

LEMMA SyncStep ==
    ASSUME IInv, ~ AnyDelete, Quiet, NEW s \in State, s.envs = envs, s.ed.env = ed.env,
           s.ed.e = ed.e, ~ s.dirty, NEW pts \in Points, SyncPoints(s, pts)
    PROVE  IInv'
<1> DEFINE pan == [s.ed EXCEPT !.val = pts]
           u == [s EXCEPT !.ed.val = pts]
           op == Edit(ed.e, pts)
           before == IF ed.shared THEN pts ELSE ed.val
           then == [kind |-> "restore", val |-> IF AnyRefusal THEN before ELSE <<>>]
<1>1. Query(u, op, then)
    BY DEF SyncPoints
<1>2. /\ s.envs \in Seq(Ident) /\ s.ed \in Shown /\ s.dirty \in BOOLEAN
      /\ s.objs \in [DOMAIN s.objs -> Obj] /\ DOMAIN s.objs \in SUBSET Ident
      /\ \A k \in 1 .. Len(s.envs) : s.envs[k] \in DOMAIN s.objs
      /\ s.ed.env # NoEnv => s.ed.env \in DOMAIN s.objs
      /\ s = [envs |-> s.envs, objs |-> s.objs, ed |-> s.ed, dirty |-> s.dirty]
    BY StateFields
<1>3. pan \in Shown /\ pan.env = s.ed.env /\ pan.e = s.ed.e
    BY <1>2 DEF Shown
<1>4. u = [s EXCEPT !.ed = pan]
    OBVIOUS
<1> HIDE DEF pan
<1>5. u = [envs |-> s.envs, objs |-> s.objs, ed |-> pan, dirty |-> s.dirty]
    BY <1>2, <1>4
<1> HIDE DEF u
<1>6. u \in State
    BY <1>2, <1>3, <1>5, StateMade
<1>7. u.envs = envs /\ u.ed.env = ed.env /\ u.ed.e = ed.e /\ ~ u.dirty
    BY <1>3, <1>5
<1>8. ed.e \in Nat /\ ed.val \in Points
    BY Panes DEF IInv
<1>9. op \in Op /\ op.kind = "edit"
    BY <1>8 DEF Edit, Op
<1>10. then \in Then /\ then.kind = "restore"
    <2>1. (IF AnyRefusal THEN before ELSE <<>>) \in Points
        BY <1>8, NoPoints
    <2> QED
        BY <2>1 DEF Then
<1> HIDE DEF op, then
<1>11. \A k \in 1 .. Len(calls) : ~ Before(calls, k)
    BY NoBefore
<1> QED
    BY <1>1, <1>6, <1>7, <1>9, <1>10, <1>11, Sent

LEMMA PanelPoints ==
    ASSUME IInv
    PROVE  /\ Now \in State /\ Now.envs = envs /\ Now.ed = ed /\ ~ Now.dirty
           /\ ed.points \in Points /\ DOMAIN ed.points = 1 .. Len(ed.points) /\ Len(ed.points) \in Nat
           /\ \A j \in 1 .. Len(ed.points) :
                /\ ed.points[j] \in Point
                /\ j # 1 => ed.points[j - 1].time <= ed.points[j].time
                /\ j # Len(ed.points) => ed.points[j].time <= ed.points[j + 1].time
<1>1. Now \in State /\ Now.envs = envs /\ Now.ed = ed /\ ~ Now.dirty /\ ed.points \in Points
    BY Panes DEF IInv
<1> DEFINE pts == ed.points
           n == Len(pts)
<1>2. /\ n \in Nat /\ DOMAIN pts = 1 .. n /\ \A j \in 1 .. n : pts[j] \in Point
      /\ \A i \in 1 .. n, j \in 1 .. n : i <= j => pts[i].time <= pts[j].time
    BY <1>1, PointFields, LaterPoints
<1>3. ASSUME NEW j \in 1 .. n
      PROVE  /\ j # 1 => pts[j - 1].time <= pts[j].time
             /\ j # n => pts[j].time <= pts[j + 1].time
    <2>1. (j # 1 => j - 1 \in 1 .. n /\ j - 1 <= j) /\ (j # n => j + 1 \in 1 .. n /\ j <= j + 1)
        BY <1>2
    <2> QED
        BY <1>2, <2>1
<1> QED
    BY <1>1, <1>2, <1>3

LEMMA MouseDownStep ==
    ASSUME IInv, NEW j \in Nat, OnMouseDown(j)
    PROVE  IInv'
<1>1. ed' = [ed EXCEPT !.drag = j] /\ UNCHANGED <<envs, objs, calls>>
    BY DEF OnMouseDown
<1>2. ed \in Shown
    BY Panes DEF IInv
<1>3. ed' \in Shown /\ ed'.env = ed.env /\ ed'.e = ed.e
    BY <1>1, <1>2 DEF Shown
<1> QED
    BY <1>1, <1>3, PanelMoved

LEMMA OtherButtonStep ==
    ASSUME IInv, OnOtherButton
    PROVE  IInv'
<1>1. ed' = [ed EXCEPT !.drag = 0] /\ UNCHANGED <<envs, objs, calls>>
    BY DEF OnOtherButton
<1>2. ed \in Shown
    BY Panes DEF IInv
<1>3. ed' \in Shown /\ ed'.env = ed.env /\ ed'.e = ed.e
    BY <1>1, <1>2 DEF Shown
<1> QED
    BY <1>1, <1>3, PanelMoved

LEMMA MouseMoveStep ==
    ASSUME IInv, NEW t \in Int, NEW v \in Int, OnMouseMove(t, v)
    PROVE  IInv'
<1> DEFINE j == ed.drag
           b == Between(j, t)
           q == [ed.points[j] EXCEPT !.time = b]
           w == SetValue(q, ShownType, v)
           new == [ed.points EXCEPT ![j] = w]
<1>1. j \in DOMAIN ed.points /\ ed' = Locally(new) /\ UNCHANGED <<envs, objs, calls>>
    BY DEF OnMouseMove
<1>2. /\ ed.points \in Points /\ DOMAIN ed.points = 1 .. Len(ed.points)
      /\ ed \in Shown
    BY PanelPoints, Panes DEF IInv
<1>3. j \in 1 .. Len(ed.points) /\ ed.points[j] \in Point
    BY <1>1, <1>2, PanelPoints
<1>4. /\ b \in Nat
      /\ j # 1 => ed.points[j - 1].time <= b
      /\ j # Len(ed.points) => b <= ed.points[j + 1].time
    BY <1>2, <1>3, BetweenNeighbours
<1> HIDE DEF b, j
<1>5. q \in Point /\ q.time = b
    BY <1>3, <1>4 DEF Point
<1> HIDE DEF q
<1>6. w \in Point /\ w.time = b
    BY <1>5, SetValueTyped
<1> HIDE DEF w
<1>7. new \in Points
    BY <1>2, <1>3, <1>4, <1>6, PointsChanged
<1> HIDE DEF new
<1> DEFINE kept == IF ed.shared THEN new ELSE ed.val
<1>8. ed' = [ed EXCEPT !.points = new, !.val = kept, !.moved = TRUE]
    BY <1>1 DEF Locally
<1>9. kept \in Points
    BY <1>2, <1>7 DEF Shown
<1> HIDE DEF kept
<1>10. ed' \in Shown /\ ed'.env = ed.env /\ ed'.e = ed.e
    BY <1>2, <1>7, <1>8, <1>9 DEF Shown
<1> QED
    BY <1>1, <1>10, PanelMoved

LEMMA MouseUpStep ==
    ASSUME IInv, ~ AnyDelete, OnMouseUp
    PROVE  IInv'
<1>1. CASE ed.env = NoEnv
    <2>1. ed' = [ed EXCEPT !.drag = 0] /\ UNCHANGED <<envs, objs, calls>>
        BY <1>1 DEF OnMouseUp
    <2>2. ed \in Shown
        BY Panes DEF IInv
    <2>3. ed' \in Shown /\ ed'.env = ed.env /\ ed'.e = ed.e
        BY <2>1, <2>2 DEF Shown
    <2> QED
        BY <2>1, <2>3, PanelMoved
<1>2. CASE ed.env # NoEnv
    <2> DEFINE s == [Now EXCEPT !.ed.drag = 0]
               pan == [ed EXCEPT !.drag = 0]
    <2>1. Quiet /\ SyncPoints(s, ed.points)
        BY <1>2 DEF OnMouseUp
    <2>2. /\ ed.points \in Points /\ ed \in Shown /\ Now \in State
          /\ envs \in Seq(Ident) /\ objs \in [DOMAIN objs -> Obj] /\ DOMAIN objs \in SUBSET Ident
          /\ \A k \in 1 .. Len(envs) : envs[k] \in DOMAIN objs
          /\ ed.env # NoEnv => ed.env \in DOMAIN objs
        BY Panes DEF IInv
    <2>3. pan \in Shown /\ pan.env = ed.env /\ pan.e = ed.e
        BY <2>2 DEF Shown
    <2>4. s = [envs |-> envs, objs |-> objs, ed |-> pan, dirty |-> FALSE]
        <3>1. Now = [envs |-> envs, objs |-> objs, ed |-> ed, dirty |-> FALSE] /\ Now.ed = ed
            BY DEF Now
        <3>2. s = [Now EXCEPT !.ed = [Now.ed EXCEPT !.drag = 0]]
            OBVIOUS
        <3>3. s = [Now EXCEPT !.ed = pan]
            BY <3>1, <3>2
        <3> HIDE DEF s, pan
        <3> QED
            BY <3>1, <3>3
    <2> HIDE DEF s, pan
    <2>5. s \in State
        BY <2>2, <2>3, <2>4, StateMade
    <2>6. s.envs = envs /\ s.ed.env = ed.env /\ s.ed.e = ed.e /\ ~ s.dirty
        BY <2>3, <2>4
    <2> QED
        BY <2>1, <2>2, <2>5, <2>6, SyncStep
<1> QED
    BY <1>1, <1>2

(* Each edit of the points in the panel ends in points in order. *)
LEMMA SyncNow ==
    ASSUME IInv, ~ AnyDelete, Quiet, NEW pts \in Points, SyncPoints(Now, pts)
    PROVE  IInv'
BY PanelPoints, SyncStep

LEMMA EditValueStep ==
    ASSUME IInv, ~ AnyDelete, NEW j \in Nat, NEW v \in Int, OnEditValue(j, v)
    PROVE  IInv'
<1> DEFINE w == SetValue(ed.points[j], ShownType, v)
           new == [ed.points EXCEPT ![j] = w]
<1>1. Quiet /\ j \in DOMAIN ed.points /\ SyncPoints(Now, new)
    BY DEF OnEditValue, Step
<1>2. j \in 1 .. Len(ed.points) /\ ed.points \in Points /\ ed.points[j] \in Point
    BY <1>1, PanelPoints
<1>3. w \in Point /\ w.time = ed.points[j].time
    BY <1>2, SetValueTyped
<1> HIDE DEF w
<1>4. new \in Points
    BY <1>2, <1>3, PanelPoints, PointsChanged
<1> QED
    BY <1>1, <1>4, SyncNow

LEMMA EditTimeStep ==
    ASSUME IInv, ~ AnyDelete, NEW j \in Nat, NEW t \in Int, OnEditTime(j, t)
    PROVE  IInv'
<1> DEFINE b == Between(j, t)
           w == [ed.points[j] EXCEPT !.time = b]
           new == [ed.points EXCEPT ![j] = w]
<1>1. Quiet /\ j \in DOMAIN ed.points /\ SyncPoints(Now, new)
    BY DEF OnEditTime, Step
<1>2. j \in 1 .. Len(ed.points) /\ ed.points \in Points /\ ed.points[j] \in Point
    BY <1>1, PanelPoints
<1>3. /\ b \in Nat
      /\ j # 1 => ed.points[j - 1].time <= b
      /\ j # Len(ed.points) => b <= ed.points[j + 1].time
    BY <1>2, BetweenNeighbours
<1> HIDE DEF b
<1>4. w \in Point /\ w.time = b
    BY <1>2, <1>3 DEF Point
<1> HIDE DEF w
<1>5. new \in Points
    BY <1>2, <1>3, <1>4, PointsChanged
<1> QED
    BY <1>1, <1>5, SyncNow

LEMMA EditCurveStep ==
    ASSUME IInv, ~ AnyDelete, NEW j \in Nat, NEW c \in Shapes, OnEditCurve(j, c)
    PROVE  IInv'
<1> DEFINE w == [ed.points[j] EXCEPT !.curve = c]
           new == [ed.points EXCEPT ![j] = w]
<1>1. Quiet /\ j \in DOMAIN ed.points /\ SyncPoints(Now, new)
    BY DEF OnEditCurve, Step
<1>2. j \in 1 .. Len(ed.points) /\ ed.points \in Points /\ ed.points[j] \in Point
    BY <1>1, PanelPoints
<1>3. w \in Point /\ w.time = ed.points[j].time
    BY <1>2 DEF Point
<1> HIDE DEF w
<1>4. new \in Points
    BY <1>2, <1>3, PanelPoints, PointsChanged
<1> QED
    BY <1>1, <1>4, SyncNow

LEMMA DeletePointStep ==
    ASSUME IInv, ~ AnyDelete, NEW j \in Nat, OnDeletePoint(j)
    PROVE  IInv'
<1>1. Quiet /\ j \in DOMAIN ed.points /\ SyncPoints(Now, RemoveAt(ed.points, j))
    BY DEF OnDeletePoint, Step
<1>2. j \in 1 .. Len(ed.points) /\ ed.points \in Points
    BY <1>1, PanelPoints
<1>3. RemoveAt(ed.points, j) \in Points
    BY <1>2, PointsRemoved
<1> QED
    BY <1>1, <1>3, SyncNow

LEMMA AddPointStep ==
    ASSUME IInv, ~ AnyDelete, NEW t \in Int, AddPoint(t)
    PROVE  IInv'
<1> DEFINE pts == ed.points
           n == Len(pts)
           I == {i \in 1 .. n : pts[i].time >= t}
           after == SelectInSeq(pts, LAMBDA p : p.time >= t)
           at == IF after = 0 THEN n + 1 ELSE after
           value == Floor(ComputePoint(objs[ed.env].points, t))
           q == SetValue([time |-> t, value |-> 0, curve |-> "linear"], ShownType, value)
           new == InsertAt(pts, at, q)
<1>1. Quiet /\ ed.env # NoEnv /\ t >= 0 /\ SyncPoints(Now, new)
    BY DEF AddPoint, Step
<1>2. pts \in Points /\ n \in Nat /\ DOMAIN pts = 1 .. n
    BY PanelPoints
<1>3. \A k \in 1 .. n : pts[k].time \in Nat
    BY <1>2, PointFields
<1>4. after = IF I # {} THEN Min(I) ELSE 0
    BY Zenon DEF SelectInSeq
<1> HIDE DEF after
<1>5. /\ after \in 0 .. n /\ (after = 0 => I = {}) /\ (after # 0 => after \in I)
      /\ \A k \in 1 .. n : k < after => k \notin I
    <2>1. I \in SUBSET (1 .. n)
        OBVIOUS
    <2> HIDE DEF I, n, pts
    <2> QED
        BY <1>2, <1>4, <2>1, FirstOf, Zenon
<1>6. \A k \in 1 .. n : k \in I <=> pts[k].time >= t
    OBVIOUS
<1> HIDE DEF I, n
<1>7. value \in Int
    <2>1. objs[ed.env] \in Obj
        BY <1>1, Panes DEF IInv
    <2>2. objs[ed.env].points \in Points
        BY <2>1 DEF Obj
    <2> QED
        BY <2>2, ValueComputed
<1> HIDE DEF value
<1>8. q \in Point /\ q.time = t
    <2> DEFINE p == [time |-> t, value |-> 0, curve |-> "linear"]
    <2>1. p \in Point /\ p.time = t
        BY <1>1 DEF Point, Shapes
    <2> HIDE DEF p
    <2>2. SetValue(p, ShownType, value) \in Point /\ SetValue(p, ShownType, value).time = t
        BY <1>7, <2>1, SetValueTyped
    <2> QED
        BY <2>2 DEF p
<1> HIDE DEF q
<1>9. at \in 1 .. n + 1
    BY <1>2, <1>5
<1>10. ASSUME NEW k \in 1 .. n
       PROVE  IF k < at THEN pts[k].time <= t ELSE t <= pts[k].time
    <2>1. CASE k < at
        <3>1. k \notin I
            BY <1>2, <1>5, <2>1
        <3> QED
            BY <1>3, <1>6, <2>1, <3>1
    <2>2. CASE ~ (k < at)
        <3>1. after \in I /\ after \in 1 .. n /\ after <= k
            BY <1>2, <1>5, <2>2
        <3>2. pts[after].time >= t /\ pts[after].time <= pts[k].time
            BY <1>2, <1>6, <3>1, LaterPoints DEF n
        <3> QED
            BY <1>3, <2>2, <3>1, <3>2
    <2> QED
        BY <2>1, <2>2
<1> HIDE DEF at, pts
<1>11. new \in Points
    BY <1>2, <1>8, <1>9, <1>10, PointsInserted DEF n
<1> HIDE DEF new
<1> QED
    BY <1>1, <1>11, SyncNow

(* After an event or a message, when the state that was worked on is such  *)
(* that the panel can be computed from it.                                 *)
LEMMA Settles ==
    ASSUME NEW t \in State, NEW cs \in Seq(CallType), Become(t, cs),
           t.dirty => t.ed.e \in 0 .. Len(t.envs),
           t.ed.env = NoEnv /\ ~ t.dirty => t.ed.e = 0,
           Making(cs) => t.envs # <<>>,
           (IF t.dirty THEN t.ed.e = 0 ELSE t.ed.env = NoEnv) => cs = <<>> \/ t.envs = <<>>,
           \A k \in 1 .. Len(cs) : Before(cs, k) =>
              Len(cs) = 1 /\ cs[1].op.kind = "delete" /\ cs[1].then.e \in 1 .. Len(t.envs) + 1
    PROVE  IInv'
<1> DEFINE n == Len(cs)
<1>1. /\ Now' \in State /\ envs' = t.envs /\ (ed'.env = NoEnv => ed'.e = 0)
      /\ t.dirty => (ed'.env = NoEnv => t.ed.e = 0)
      /\ ~ t.dirty => ed' = t.ed
      /\ calls' \in Seq(CallType) /\ Len(calls') = n
      /\ \A k \in 1 .. n : /\ calls'[k].op = cs[k].op
                           /\ calls'[k].tracked <=> cs[k].tracked
                           /\ Before(calls', k) => calls'[k].then = cs[k].then
    BY Became
<1>2. n \in Nat /\ (cs = <<>> <=> n = 0) /\ (calls' = <<>> <=> Len(calls') = 0)
    BY <1>1, EmptySeq
<1>3. ASSUME Making(calls') PROVE Making(cs)
    <2>1. PICK k \in 1 .. Len(calls') : calls'[k].tracked /\ calls'[k].op.kind = "create"
        BY <1>3, Zenon DEF Making
    <2>2. k \in 1 .. n
        BY <1>1
    <2>3. cs[k].tracked /\ cs[k].op.kind = "create"
        BY <1>1, <2>1, <2>2
    <2> QED
        BY <2>2, <2>3 DEF Making
<1>4. ed'.env = NoEnv => calls' = <<>> \/ envs' = <<>>
    BY <1>1, <1>2
<1>5. ASSUME NEW k \in 1 .. Len(calls'), Before(calls', k)
      PROVE  Len(calls') = 1 /\ calls'[1].op.kind = "delete" /\ calls'[1].then.e \in 1 .. Len(envs') + 1
    <2>1. k \in 1 .. n
        BY <1>1
    <2>2. calls'[k].then = cs[k].then /\ calls'[k].op = cs[k].op
        BY <1>1, <1>5, <2>1
    <2>3. Before(cs, k)
        BY <1>5, <2>2 DEF Before
    <2>4. n = 1 /\ cs[1].op.kind = "delete" /\ cs[1].then.e \in 1 .. Len(t.envs) + 1
        BY <2>1, <2>3
    <2>5. k = 1
        BY <2>1, <2>4
    <2> QED
        BY <1>1, <2>2, <2>4, <2>5
<1>6. Making(calls') => envs' # <<>>
    BY <1>1, <1>3
<1> QED
    BY <1>1, <1>4, <1>5, <1>6 DEF IInv

LEMMA ChooseStep ==
    ASSUME IInv, ~ AnyDelete, NEW i \in Nat, ChooseEnvelope(i)
    PROVE  IInv'
<1> DEFINE t == Choose(Now, i)
<1>1. Quiet /\ ed.env # NoEnv /\ i \in DOMAIN envs /\ i # ed.e /\ Become(t, calls)
    BY DEF ChooseEnvelope, Step
<1>2. /\ Now \in State /\ Now.envs = envs /\ Now.ed = ed /\ Len(envs) \in Nat /\ DOMAIN envs = 1 .. Len(envs)
    BY Panes DEF IInv
<1>3. /\ t \in State /\ t.envs = envs /\ t.ed.e = i /\ t.ed.env = ed.env
      /\ t.dirty \/ (~ Now.dirty /\ i = Now.ed.e)
    BY <1>2, IsChosen
<1> HIDE DEF t
<1>4. t.dirty
    BY <1>1, <1>2, <1>3, Zenon
<1>5. i \in 0 .. Len(envs) /\ i # 0
    BY <1>1, <1>2
<1>6. \A k \in 1 .. Len(calls) : ~ Before(calls, k)
    BY <1>1, NoBefore
<1>7. calls \in Seq(CallType) /\ (Making(calls) => envs # <<>>)
    BY DEF IInv
<1> QED
    BY <1>1, <1>3, <1>4, <1>5, <1>6, <1>7, Settles

LEMMA RenameStep ==
    ASSUME IInv, ~ AnyDelete, OnRename
    PROVE  IInv'
<1> DEFINE then == [kind |-> "none"]
<1>1. PICK i \in DOMAIN envs : Quiet /\ Query(Now, Edit(i, NoPart), then)
    BY DEF OnRename, Step
<1>2. i \in Nat
    BY <1>1, Panes DEF IInv
<1>3. Edit(i, NoPart) \in Op /\ Edit(i, NoPart).kind = "edit"
    BY <1>2 DEF Edit, Op
<1>4. then \in Then /\ then.kind = "none"
    BY DEF Then
<1> HIDE DEF then
<1>5. \A k \in 1 .. Len(calls) : ~ Before(calls, k)
    BY <1>1, NoBefore
<1> QED
    BY <1>1, <1>3, <1>4, <1>5, PanelPoints, Sent

LEMMA NewEnvStep ==
    ASSUME IInv, ~ AnyDelete, NEW type \in Types, OnNewEnv(type)
    PROVE  IInv'
<1> DEFINE then == [kind |-> "newest"]
<1>1. Quiet /\ Query(Now, Create(type), then)
    BY DEF OnNewEnv, Step
<1>2. Create(type) \in Op /\ Create(type).kind = "create"
    BY DEF Create, Op
<1>3. then \in Then /\ then.kind = "newest"
    BY DEF Then
<1> HIDE DEF then
<1>4. \A k \in 1 .. Len(calls) : ~ Before(calls, k)
    BY <1>1, NoBefore
<1> QED
    BY <1>1, <1>2, <1>3, <1>4, PanelPoints, Sent

LEMMA DeleteStep ==
    ASSUME IInv, ~ AnyDelete, OnDelete
    PROVE  IInv'
<1>1. PICK i \in DOMAIN envs : Quiet /\ calls = <<>> /\ Query(Now, Delete(i), [kind |-> "before", e |-> i])
    BY DEF OnDelete, Step
<1> DEFINE then == [kind |-> "before", e |-> i]
<1>2. i \in Nat \ {0} /\ i \in 1 .. Len(envs)
    BY <1>1, Panes DEF IInv
<1>3. Delete(i) \in Op /\ Delete(i).kind = "delete"
    BY <1>2 DEF Delete, Op
<1>4. then \in Then /\ then.kind = "before" /\ then.e = i
    BY <1>2 DEF Then
<1>5. Query(Now, Delete(i), then)
    BY <1>1
<1> HIDE DEF then
<1>6. \A k \in 1 .. Len(calls) : ~ Before(calls, k)
    BY <1>1, NoBefore
<1> QED
    BY <1>1, <1>2, <1>3, <1>4, <1>5, <1>6, PanelPoints, Sent

-----------------------------------------------------------------------------
(* Messages of the server                                                  *)

LEMMA Waiting ==
    ASSUME IInv, calls # <<>>
    PROVE  /\ calls \in Seq(CallType) /\ Len(calls) \in Nat /\ Len(calls) # 0
           /\ Head(calls) = calls[1] /\ calls[1] \in CallType
           /\ Tail(calls) \in Seq(CallType) /\ Len(Tail(calls)) = Len(calls) - 1
           /\ Making(Tail(calls)) => Making(calls)
           /\ \A k \in 1 .. Len(Tail(calls)) : ~ Before(Tail(calls), k)
           /\ Before(calls, 1) => Tail(calls) = <<>> /\ calls[1].then.e \in 1 .. Len(envs) + 1
<1> DEFINE n == Len(calls)
           cs == Tail(calls)
<1>1. /\ calls \in Seq(CallType) /\ n \in Nat /\ n # 0 /\ Head(calls) = calls[1]
      /\ \A k \in 1 .. n : calls[k] \in CallType
    BY EmptySeq, ElementOfSeq DEF IInv
<1>2. cs \in Seq(CallType) /\ Len(cs) = n - 1 /\ \A k \in 1 .. n - 1 : cs[k] = calls[k + 1]
    BY <1>1, HeadTailProperties
<1>3. \A k \in 1 .. n : Before(calls, k) => n = 1 /\ calls[1].then.e \in 1 .. Len(envs) + 1
    BY DEF IInv
<1> HIDE DEF n, cs
<1>4. 1 \in 1 .. n
    BY <1>1
<1>5. ASSUME Making(cs) PROVE Making(calls)
    <2>1. PICK k \in 1 .. n - 1 : cs[k].tracked /\ cs[k].op.kind = "create"
        BY <1>2, <1>5 DEF Making
    <2>2. k + 1 \in 1 .. n /\ cs[k] = calls[k + 1]
        BY <1>1, <1>2
    <2> QED
        BY <2>1, <2>2 DEF Making, n
<1>6. ASSUME NEW k \in 1 .. Len(cs) PROVE ~ Before(cs, k)
    <2>1. k + 1 \in 1 .. n /\ cs[k] = calls[k + 1] /\ n # 1
        BY <1>1, <1>2
    <2> QED
        BY <1>3, <2>1 DEF Before
<1>7. Before(calls, 1) => cs = <<>> /\ calls[1].then.e \in 1 .. Len(envs) + 1
    <2>1. Len(cs) = 0 => cs = <<>>
        BY <1>2, EmptySeq
    <2> QED
        BY <1>1, <1>2, <1>3, <1>4, <2>1
<1> QED
    BY <1>1, <1>2, <1>4, <1>5, <1>6, <1>7 DEF n, cs

LEMMA AcceptedStep ==
    ASSUME IInv, Accepted
    PROVE  IInv'
<1> DEFINE then == Head(calls).then
           t == Continue(Now, then)
           cs == Tail(calls)
<1>1. calls # <<>> /\ Become(t, cs)
    BY DEF Accepted
<1>2. /\ cs \in Seq(CallType) /\ (Making(cs) => Making(calls)) /\ then = calls[1].then
      /\ \A k \in 1 .. Len(cs) : ~ Before(cs, k)
      /\ then.kind = "before" => cs = <<>> /\ then.e \in 1 .. Len(envs) + 1
    BY <1>1, Waiting DEF Before
<1>3. /\ Now \in State /\ Now.envs = envs /\ Now.ed = ed /\ ~ Now.dirty /\ Len(envs) \in Nat /\ ed.e \in Nat
      /\ envs \in Seq(Ident)
    BY Panes DEF IInv
<1>4. /\ Making(calls) => envs # <<>>
      /\ ed.env = NoEnv => ed.e = 0 /\ envs = <<>>
    BY <1>1 DEF IInv
<1> HIDE DEF then, cs
<1> DEFINE Chosen(i, c) == /\ c \in State /\ c.envs = envs /\ c.ed.e = i /\ c.ed.env = ed.env
                           /\ c.dirty \/ i = ed.e
<1>6. ASSUME NEW i \in Nat PROVE Chosen(i, Choose(Now, i))
    <2> DEFINE c == Choose(Now, i)
    <2>1. c \in State
        BY <1>3, IsChosen
    <2>2. c.ed.e = i
        BY <1>3, IsChosen
    <2>3. c.envs = Now.envs
        BY <1>3, IsChosen
    <2>4. c.ed.env = Now.ed.env
        BY <1>3, IsChosen
    <2>5. c.dirty \/ (~ Now.dirty /\ i = Now.ed.e)
        BY <1>3, IsChosen
    <2> HIDE DEF c
    <2>6. Chosen(i, c)
        BY <1>3, <2>1, <2>2, <2>3, <2>4, <2>5
    <2> QED
        BY <2>6 DEF c
<1> HIDE DEF Chosen
<1>5. /\ t \in State /\ t.envs = envs
      /\ t.dirty => t.ed.e \in 0 .. Len(envs)
      /\ t.ed.env = NoEnv /\ ~ t.dirty => t.ed.e = 0
      /\ (IF t.dirty THEN t.ed.e = 0 ELSE t.ed.env = NoEnv) => cs = <<>> \/ envs = <<>>
    <2>1. CASE then.kind = "newest"
        <3> DEFINE c == Choose(Now, Len(envs))
        <3>1. t = c
            BY <1>3, <2>1 DEF Continue
        <3> HIDE DEF t
        <3>2. /\ c \in State /\ c.envs = envs /\ c.ed.e = Len(envs) /\ c.ed.env = ed.env
              /\ c.dirty \/ Len(envs) = ed.e
            BY <1>3, <1>6, Zenon DEF Chosen
        <3> HIDE DEF c
        <3>3. ~ c.dirty => Len(envs) = ed.e
            BY <1>3, <3>2, Zenon
        <3>4. Len(envs) = 0 => envs = <<>>
            BY <1>3, EmptySeq
        <3> QED
            BY <1>3, <1>4, <3>1, <3>2, <3>3, <3>4
    <2>2. CASE then.kind = "before"
        <3> DEFINE i == then.e - 1
                   c == Choose(Now, i)
        <3>1. t = c
            BY <2>2 DEF Continue
        <3> HIDE DEF t
        <3>2. i \in Nat /\ i \in 0 .. Len(envs)
            BY <1>2, <1>3, <2>2
        <3> HIDE DEF i
        <3>3. /\ c \in State /\ c.envs = envs /\ c.ed.e = i /\ c.ed.env = ed.env
              /\ c.dirty \/ i = ed.e
            BY <1>6, <3>2, Zenon DEF Chosen
        <3> HIDE DEF c
        <3>4. ~ c.dirty => i = ed.e
            BY <1>3, <3>3, Zenon
        <3> QED
            BY <1>2, <1>4, <2>2, <3>1, <3>2, <3>3, <3>4
    <2>3. CASE then.kind \notin {"newest", "before"}
        <3>1. t = Now
            BY <2>3 DEF Continue
        <3> HIDE DEF t
        <3> QED
            BY <1>3, <1>4, <3>1
    <2> QED
        BY <2>1, <2>2, <2>3
<1> HIDE DEF t
<1> QED
    BY <1>1, <1>2, <1>4, <1>5, Settles

LEMMA Restored ==
    ASSUME NEW u \in State, NEW then \in Then
    PROVE  LET r == Restore(u, then)
           IN  /\ r \in State /\ r.envs = u.envs /\ r.dirty = u.dirty
               /\ r.ed.env = u.ed.env /\ r.ed.e = u.ed.e
<1> DEFINE r == Restore(u, then)
           pan == [u.ed EXCEPT !.points = then.val, !.val = then.val, !.shared = TRUE]
<1>1. CASE then.kind = "restore"
    <2>1. then.val \in Points
        BY <1>1 DEF Then
    <2>2. r = [u EXCEPT !.ed = pan]
        BY <1>1 DEF Restore
    <2>3. /\ u.envs \in Seq(Ident) /\ u.ed \in Shown /\ u.dirty \in BOOLEAN
          /\ u.objs \in [DOMAIN u.objs -> Obj] /\ DOMAIN u.objs \in SUBSET Ident
          /\ \A k \in 1 .. Len(u.envs) : u.envs[k] \in DOMAIN u.objs
          /\ u.ed.env # NoEnv => u.ed.env \in DOMAIN u.objs
          /\ u = [envs |-> u.envs, objs |-> u.objs, ed |-> u.ed, dirty |-> u.dirty]
        BY StateFields
    <2>4. pan \in Shown /\ pan.env = u.ed.env /\ pan.e = u.ed.e
        BY <2>1, <2>3 DEF Shown
    <2> HIDE DEF pan
    <2>5. r = [envs |-> u.envs, objs |-> u.objs, ed |-> pan, dirty |-> u.dirty]
        BY <2>2, <2>3
    <2> HIDE DEF r
    <2>6. r \in State
        BY <2>3, <2>4, <2>5, StateMade
    <2>7. r.envs = u.envs /\ r.ed = pan /\ r.dirty = u.dirty
        BY <2>5
    <2> QED
        BY <2>4, <2>6, <2>7 DEF r
<1>2. CASE then.kind # "restore"
    BY <1>2 DEF Restore
<1> QED
    BY <1>1, <1>2

LEMMA RefusedStep ==
    ASSUME IInv, Refused
    PROVE  IInv'
<1> DEFINE ops == AfterRefusal(calls)
           u == Handled(ops)
           then == Head(calls).then
           t == Restore(u, then)
           cs == Tail(calls)
<1>1. calls # <<>> /\ Become(t, cs)
    BY DEF Refused
<1>2. /\ cs \in Seq(CallType) /\ (Making(cs) => Making(calls))
      /\ \A k \in 1 .. Len(cs) : ~ Before(cs, k)
      /\ calls \in Seq(CallType) /\ then \in Then
    <2>1. \A c \in CallType : c.then \in Then
        BY DEF CallType
    <2> QED
        BY <1>1, <2>1, Waiting
<1>3. Now \in State /\ Now.envs = envs /\ Now.ed = ed /\ ~ Now.dirty
    BY Panes DEF IInv
<1>4. /\ Making(calls) => envs # <<>>
      /\ ed.env = NoEnv => ed.e = 0 /\ envs = <<>>
    BY <1>1 DEF IInv
<1>5. /\ ops \in Seq(Op)
      /\ ~ calls[1].tracked => ops = <<>>
      /\ calls[1].tracked /\ Making(cs) => CreatesLast(ops)
      /\ ~ Making(calls) => \A k \in 1 .. Len(ops) : ops[k].kind # "delete"
    BY <1>1, <1>2, AfterRefusalTyped
<1> HIDE DEF ops, cs, then
<1>6. Settled(Now)
    BY <1>3, <1>4 DEF Settled
<1>7. /\ u \in State /\ u.ed.env = ed.env /\ Settled(u)
      /\ ops = <<>> => u = Now
      /\ ops # <<>> => Seen(u)
      /\ CreatesLast(ops) => u.envs # <<>>
    <2>1. Now.ed.env = NoEnv => \A k \in 1 .. Len(ops) : ops[k].kind = "delete" => k = 1
        BY <1>3, <1>4, <1>5
    <2>2. u = FoldLeft(Handle, Now, ops)
        BY Zenon DEF Handled
    <2> HIDE DEF u
    <2> QED
        BY <1>3, <1>5, <1>6, <2>1, <2>2, HandledDone
<1> HIDE DEF u
<1>8. /\ t \in State /\ t.envs = u.envs /\ t.dirty = u.dirty
      /\ t.ed.env = u.ed.env /\ t.ed.e = u.ed.e
    BY <1>2, <1>7, Restored
<1> HIDE DEF t
<1>9. /\ t.dirty => t.ed.e \in 0 .. Len(t.envs)
      /\ t.ed.env = NoEnv /\ ~ t.dirty => t.ed.e = 0
    BY <1>7, <1>8 DEF Settled
<1>10. (IF t.dirty THEN t.ed.e = 0 ELSE t.ed.env = NoEnv) => t.envs = <<>>
    <2>1. CASE ops = <<>>
        BY <1>3, <1>4, <1>7, <1>8, <2>1
    <2>2. CASE ops # <<>>
        BY <1>7, <1>8, <2>2 DEF Settled, Seen
    <2> QED
        BY <2>1, <2>2
<1>11. Making(cs) => t.envs # <<>>
    BY <1>2, <1>3, <1>4, <1>5, <1>7, <1>8
<1> QED
    BY <1>1, <1>2, <1>8, <1>9, <1>10, <1>11, Settles

LEMMA OthersStep ==
    ASSUME IInv, ~ AnyDelete, NEW op \in Op, op.kind = "delete" => envs # <<>>, Others(op)
    PROVE  IInv'
<1> DEFINE ops == Around(calls, op)
           t == Handled(ops)
           cs == FirstForgotten(calls)
<1>1. Quiet /\ Become(t, cs)
    BY DEF Others, Step
<1>2. calls \in Seq(CallType)
    BY DEF IInv
<1>3. Now \in State /\ Now.envs = envs /\ Now.ed = ed /\ ~ Now.dirty
    BY Panes DEF IInv
<1>4. /\ Making(calls) => envs # <<>>
      /\ ed.env = NoEnv => ed.e = 0 /\ (calls = <<>> \/ envs = <<>>)
    BY DEF IInv
<1>5. /\ ops \in Seq(Op) /\ ops # <<>>
      /\ Making(calls) => CreatesLast(ops)
      /\ ~ Making(calls) => \A k \in 1 .. Len(ops) : ops[k].kind = "delete" => op.kind = "delete"
      /\ calls = <<>> => Len(ops) = 1
    BY <1>2, AroundTyped
<1>6. /\ cs \in Seq(CallType) /\ Len(cs) = Len(calls)
      /\ \A k \in 1 .. Len(calls) : /\ cs[k].op = calls[k].op /\ cs[k].then = calls[k].then
                                    /\ cs[k].tracked => calls[k].tracked
    BY <1>2, ForgottenTyped
<1> HIDE DEF ops, cs
<1>7. Settled(Now)
    BY <1>3, <1>4 DEF Settled
<1>8. t \in State /\ Settled(t) /\ Seen(t) /\ (CreatesLast(ops) => t.envs # <<>>)
    <2>1. ASSUME ed.env = NoEnv, NEW k \in 1 .. Len(ops), ops[k].kind = "delete" PROVE k = 1
        BY <1>4, <1>5, <2>1
    <2>2. t = FoldLeft(Handle, Now, ops)
        BY Zenon DEF Handled
    <2> HIDE DEF t
    <2> QED
        BY <1>3, <1>5, <1>7, <2>1, <2>2, HandledDone
<1> HIDE DEF t
<1>9. Making(cs) => Making(calls)
    BY <1>6 DEF Making
<1>10. \A k \in 1 .. Len(cs) : ~ Before(cs, k)
    <2>1. \A k \in 1 .. Len(calls) : ~ Before(calls, k)
        BY <1>1, NoBefore
    <2> QED
        BY <1>6, <2>1 DEF Before
<1>11. /\ t.dirty => t.ed.e \in 0 .. Len(t.envs)
       /\ t.ed.env = NoEnv /\ ~ t.dirty => t.ed.e = 0
       /\ (IF t.dirty THEN t.ed.e = 0 ELSE t.ed.env = NoEnv) => t.envs = <<>>
    BY <1>8 DEF Settled, Seen
<1>12. Making(cs) => t.envs # <<>>
    BY <1>5, <1>8, <1>9
<1> QED
    BY <1>1, <1>6, <1>8, <1>10, <1>11, <1>12, Settles

LEMMA FromOthersStep ==
    ASSUME IInv, ~ AnyDelete, FromOthers
    PROVE  IInv'
<1>1. DOMAIN envs = 1 .. Len(envs) /\ Len(envs) \in Nat
    BY Panes DEF IInv
<1>2. ASSUME NEW t \in Types, OthersCreate(t) PROVE IInv'
    <2>1. Create(t) \in Op /\ Create(t).kind # "delete"
        BY DEF Create, Op
    <2>2. Others(Create(t))
        BY <1>2 DEF OthersCreate
    <2> QED
        BY <2>1, <2>2, OthersStep
<1>3. ASSUME NEW i \in 1 .. MaxEnvelopes, OthersDelete(i) PROVE IInv'
    <2>1. i \in DOMAIN envs /\ Others(Delete(i))
        BY <1>3 DEF OthersDelete
    <2>2. Delete(i) \in Op /\ envs # <<>>
        BY <1>1, <2>1 DEF Delete, Op
    <2> QED
        BY <2>1, <2>2, OthersStep
<1>4. ASSUME NEW i \in 1 .. MaxEnvelopes, NEW pts \in OthersPoints, OthersEdit(i, pts) PROVE IInv'
    <2>1. i \in DOMAIN envs /\ Others(Edit(i, pts))
        BY <1>4 DEF OthersEdit
    <2>2. pts \in Points
        BY PointsAssumption DEF Points
    <2>3. Edit(i, pts) \in Op /\ Edit(i, pts).kind # "delete"
        BY <1>1, <2>1, <2>2 DEF Edit, Op
    <2> QED
        BY <2>1, <2>3, OthersStep
<1> QED
    BY <1>2, <1>3, <1>4 DEF FromOthers

LEMMA InitialInv == Init => IInv
<1> SUFFICES ASSUME Init PROVE IInv
    OBVIOUS
<1> DEFINE D == {envs[k] : k \in 1 .. Len(envs)}
<1>1. envs \in {<<>>, <<1>>, <<1, 2>>} /\ calls = <<>>
    BY DEF Init
<1>2. PICK t \in Types, pts \in OthersPoints :
        /\ objs = [i \in Range(envs) |-> IF i = 1 THEN [type |-> t, points |-> pts]
                                        ELSE [type |-> "color", points |-> <<>>]]
        /\ ed = IF envs = <<>> THEN Panel(0, NoEnv, <<>>)
                ELSE Panel(Len(envs), Last(envs), objs[Last(envs)].points)
    BY DEF Init
<1>3. /\ envs \in Seq(Ident) /\ Len(envs) \in Nat /\ DOMAIN envs = 1 .. Len(envs)
      /\ \A k \in 1 .. Len(envs) : envs[k] \in Ident
      /\ envs # <<>> => Len(envs) \in 1 .. Len(envs)
    <2>1. 1 \in Ident /\ 2 \in Ident
        BY DEF Ident
    <2>2. <<1>> \in Seq(Ident) /\ <<1, 2>> \in Seq(Ident) /\ <<>> \in Seq(Ident)
        BY <2>1
    <2>3. envs \in Seq(Ident)
        BY <1>1, <2>2
    <2> QED
        BY <2>3, ElementOfSeq, LenProperties, EmptySeq
<1>4. Range(envs) = D
    BY <1>3, Zenon DEF Range
<1>5. pts \in Points /\ <<>> \in Points
    BY PointsAssumption, NoPoints DEF Points
<1>6. [type |-> t, points |-> pts] \in Obj /\ [type |-> "color", points |-> <<>>] \in Obj
    BY <1>5 DEF Obj, Types
<1>7. objs \in [D -> Obj] /\ D \in SUBSET Ident /\ \A k \in 1 .. Len(envs) : envs[k] \in D
    <2>1. D \in SUBSET Ident /\ \A k \in 1 .. Len(envs) : envs[k] \in D
        BY <1>3
    <2> HIDE DEF D
    <2> QED
        BY <1>2, <1>4, <1>6, <2>1
<1>8. \A e \in Nat, i \in Nat, p \in Points : Panel(e, i, p) \in Shown
    BY DEF Panel, Shown
<1>9. ed \in Shown /\ (ed.env = NoEnv => ed.e = 0) /\ (ed.env # NoEnv => ed.env \in D)
    <2>1. CASE envs = <<>>
        <3>1. ed = Panel(0, NoEnv, <<>>) /\ 0 \in Nat
            BY <1>2, <2>1
        <3>2. ed.env = NoEnv /\ ed.e = 0
            BY <3>1 DEF Panel
        <3>3. ed \in Shown
            BY <1>5, <1>8, <3>1 DEF NoEnv
        <3> QED
            BY <3>2, <3>3
    <2>2. CASE envs # <<>>
        <3> DEFINE last == envs[Len(envs)]
        <3>1. last \in D /\ last \in Ident /\ Len(envs) \in Nat
            BY <1>3, <2>2
        <3> HIDE DEF D
        <3>2. objs[last].points \in Points
            BY <1>7, <3>1 DEF Obj
        <3>3. ed = Panel(Len(envs), last, objs[last].points)
            BY <1>2, <2>2, Zenon DEF Last
        <3> HIDE DEF last
        <3>4. ed.env = last /\ last # NoEnv /\ last \in Nat
            BY <3>1, <3>3 DEF Panel, Ident, NoEnv
        <3> QED
            BY <1>8, <3>1, <3>2, <3>3, <3>4
    <2> QED
        BY <2>1, <2>2
<1> HIDE DEF D
<1>10. Now \in State
    BY <1>3, <1>7, <1>9, StateMade DEF Now
<1>11. calls \in Seq(CallType) /\ Len(calls) = 0 /\ 1 .. 0 = {}
    BY <1>1
<1> QED
    BY <1>1, <1>9, <1>10, <1>11 DEF IInv, Making

LEMMA InvKept ==
    ASSUME ~ AnyDelete
    PROVE  IInv /\ [Next]_vars => IInv'
<1> SUFFICES ASSUME IInv, [Next]_vars PROVE IInv'
    OBVIOUS
<1>1. /\ 1 .. MaxPoints \subseteq Nat /\ 1 .. MaxEnvelopes \subseteq Nat
      /\ Times \subseteq Int /\ Values \subseteq Int /\ Curves \subseteq Shapes
    BY PointsAssumption, BoundAssumption
<1>2. CASE Editing
    <2>1. PICK j \in 1 .. MaxPoints :
            \/ OnMouseDown(j)
            \/ \E v \in Values : OnEditValue(j, v)
            \/ \E t \in Times : OnEditTime(j, t)
            \/ \E c \in Curves : OnEditCurve(j, c)
            \/ OnDeletePoint(j)
        BY <1>2 DEF Editing
    <2>2. j \in Nat
        BY <1>1
    <2> QED
        BY <1>1, <2>1, <2>2, MouseDownStep, EditValueStep, EditTimeStep, EditCurveStep, DeletePointStep
<1>3. CASE Dragging
    BY <1>1, <1>3, MouseMoveStep, MouseUpStep, OtherButtonStep DEF Dragging
<1>4. CASE FromOthers
    BY <1>4, FromOthersStep
<1>5. ASSUME NEW t \in Times, AddPoint(t) PROVE IInv'
    BY <1>1, <1>5, AddPointStep
<1>6. ASSUME NEW t \in Types, OnNewEnv(t) PROVE IInv'
    BY <1>6, NewEnvStep
<1>7. ASSUME NEW i \in 1 .. MaxEnvelopes, ChooseEnvelope(i) PROVE IInv'
    BY <1>1, <1>7, ChooseStep
<1>8. CASE OnRename
    BY <1>8, RenameStep
<1>9. CASE OnDelete
    BY <1>9, DeleteStep
<1>10. CASE Accepted
    BY <1>10, AcceptedStep
<1>11. CASE Refused
    BY <1>11, RefusedStep
<1>12. CASE UNCHANGED vars
    BY <1>12 DEF vars, IInv, Now, Making, Before
<1> QED
    BY <1>2, <1>3, <1>4, <1>5, <1>6, <1>7, <1>8, <1>9, <1>10, <1>11, <1>12 DEF Next

LEMMA AlwaysInv ==
    ASSUME ~ AnyDelete
    PROVE  Spec => []IInv
<1>1. Init => IInv
    BY InitialInv
<1>2. IInv /\ [Next]_vars => IInv'
    BY InvKept
<1> QED
    BY <1>1, <1>2, PTL DEF Spec

-----------------------------------------------------------------------------
(* The properties *)

(* The points of an envelope of the map hold what the panel's operations   *)
(* and the code of a curve rely on.                                        *)
LEMMA StoredPoints ==
    ASSUME IInv, NEW i \in Range(envs)
    PROVE  objs[i].points \in Points
<1>1. /\ DOMAIN envs = 1 .. Len(envs) /\ objs \in [DOMAIN objs -> Obj]
      /\ \A k \in 1 .. Len(envs) : envs[k] \in DOMAIN objs
    BY Panes DEF IInv
<1>2. PICK k \in DOMAIN envs : i = envs[k]
    BY Zenon DEF Range
<1>3. objs[i] \in Obj
    BY <1>1, <1>2
<1> QED
    BY <1>3 DEF Obj

(* The points of every envelope, and of the one that is dragged, are in    *)
(* the order of their times: a drag, a typed time and a new point are kept *)
(* between the neighbours they have when they happen, whatever operations  *)
(* of others replace the points meanwhile and whatever a refusal restores. *)
THEOREM PointsStayInOrder ==
    ASSUME ~ AnyDelete
    PROVE  Spec => []TimesInOrder
<1>1. IInv => TimesInOrder
    <2> SUFFICES ASSUME IInv PROVE TimesInOrder
        OBVIOUS
    <2>1. \A i \in Range(envs) : objs[i].points \in Points
        BY StoredPoints
    <2>2. ed.points \in Points
        BY Panes DEF IInv
    <2> QED
        BY <2>1, <2>2 DEF TimesInOrder, Points
<1>2. Spec => []IInv
    BY AlwaysInv
<1> QED
    BY <1>1, <1>2, PTL

(* Every envelope the map ever holds has a value at every time, between    *)
(* the smallest and the largest value of its points, whatever the curves   *)
(* between them, and passes through its points.                            *)
THEOREM CurvesMeetTheirPoints ==
    ASSUME ~ AnyDelete
    PROVE  Spec => []CurveMeetsPoints
<1>1. IInv => CurveMeetsPoints
    <2> SUFFICES ASSUME IInv, NEW i \in Range(envs), objs[i].points # <<>>
                 PROVE  LET pts  == objs[i].points
                            vals == {pts[k].value : k \in DOMAIN pts}
                        IN  /\ \A t \in 0..(2 * Max(Times) + 1) :
                                  LET f == ComputePoint(pts, t)
                                  IN  Min(vals) * f.den <= f.num /\ f.num <= Max(vals) * f.den
                            /\ \A k \in 2..Len(pts) : pts[k - 1].time < pts[k].time =>
                                  LET f == ComputePoint(pts, pts[k - 1].time)
                                  IN  f.num = pts[k - 1].value * f.den
        BY DEF CurveMeetsPoints
    <2> DEFINE pts == objs[i].points
               n == Len(pts)
               vals == {pts[k].value : k \in DOMAIN pts}
               low == Min(vals)
               high == Max(vals)
    <2>1. pts \in Points /\ pts # <<>>
        BY StoredPoints
    <2> HIDE DEF pts
    <2>2. /\ pts \in Seq(Point) /\ n \in Nat /\ DOMAIN pts = 1 .. n
          /\ \A k \in 1 .. n : pts[k].time \in Nat /\ pts[k].value \in Int
        BY <2>1, PointFields
    <2>3. n >= 1
        BY <2>1, <2>2, EmptySeq
    <2>4. low \in Int /\ high \in Int /\ \A k \in 1 .. n : pts[k].value \in low .. high
        <3>1. PICK a \in Int, b \in Int : \A k \in 1 .. n : pts[k].value \in a .. b
            <4> DEFINE v == [k \in 1 .. n |-> pts[k].value]
            <4>1. \A k \in 1 .. n : v[k] = pts[k].value
                OBVIOUS
            <4> HIDE DEF v, n
            <4>2. \E a \in Int, b \in Int : \A k \in 1 .. n : v[k] \in a .. b
                BY <2>2, <4>1, NumbersBounded
            <4> QED
                BY <4>1, <4>2
        <3>2. vals \in SUBSET (a .. b) /\ vals # {} /\ \A k \in 1 .. n : pts[k].value \in vals
            <4>1. DOMAIN pts = 1 .. n /\ 1 \in 1 .. n
                BY <2>2, <2>3
            <4> HIDE DEF n
            <4> QED
                BY <3>1, <4>1, Zenon
        <3> HIDE DEF vals
        <3>3. /\ low \in vals /\ \A y \in vals : low <= y
              /\ high \in vals /\ \A y \in vals : y <= high
            BY <3>2, Extremes
        <3> HIDE DEF low, high
        <3> QED
            BY <2>2, <3>2, <3>3
    <2> HIDE DEF low, high
    <2>5. ASSUME NEW t \in Int
          PROVE  LET f == ComputePoint(pts, t)
                 IN  /\ low * f.den <= f.num /\ f.num <= high * f.den
                     /\ \A k \in 2 .. n : pts[k - 1].time < pts[k].time /\ t = pts[k - 1].time
                           => f.num = pts[k - 1].value * f.den
        BY <2>1, <2>4, PointComputed
    <2>6. \A t \in 0..(2 * Max(Times) + 1) : t \in Int
        OBVIOUS
    <2>7. \A k \in 2 .. n : pts[k - 1].time \in Int
        <3>1. \A k \in 2 .. n : k - 1 \in 1 .. n
            BY <2>2
        <3> QED
            BY <2>2, <3>1
    <2>8. \A t \in 0..(2 * Max(Times) + 1) :
             LET f == ComputePoint(pts, t)
             IN  low * f.den <= f.num /\ f.num <= high * f.den
        BY <2>5, <2>6, Zenon
    <2>9. \A k \in 2 .. n : pts[k - 1].time < pts[k].time =>
             LET f == ComputePoint(pts, pts[k - 1].time)
             IN  f.num = pts[k - 1].value * f.den
        BY <2>5, <2>7, Zenon
    <2> QED
        BY <2>8, <2>9, Zenon DEF low, high, pts
<1>2. Spec => []IInv
    BY AlwaysInv
<1> QED
    BY <1>1, <1>2, PTL
=============================================================================
