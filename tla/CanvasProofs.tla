---------------------------- MODULE CanvasProofs ----------------------------
(***************************************************************************)
(* Proofs about Canvas, for layers, chunks and images of any number.       *)
(***************************************************************************)
EXTENDS Canvas, SeqFacts, FiniteSetTheorems

-----------------------------------------------------------------------------
(* Rows of equal length, one behind the other *)

LEMMA RowBelow ==
    ASSUME NEW a \in Nat, NEW b \in Nat, NEW w \in Nat, a < b
    PROVE  a * w \in Nat /\ b * w \in Nat /\ a * w + w <= b * w
<1>1. PICK c \in Nat : b = a + 1 + c
    <2> WITNESS b - a - 1 \in Nat
    <2> QED
        OBVIOUS
<1>2. a * w \in Nat /\ c * w \in Nat /\ b * w = a * w + w + c * w
    BY <1>1
<1> QED
    BY <1>2

(* Two cells of the grid have different positions. *)
LEMMA CellsDiffer ==
    ASSUME NEW w \in Nat, NEW x \in 0 .. w - 1, NEW y \in Nat, NEW u \in 0 .. w - 1, NEW v \in Nat,
           y * w + x = v * w + u
    PROVE  x = u /\ y = v
<1>1. y * w \in Nat /\ v * w \in Nat
    OBVIOUS
<1>2. ASSUME y < v PROVE FALSE
    <2>1. y * w + w <= v * w
        BY <1>2, RowBelow
    <2> QED
        BY <2>1, <1>1
<1>3. ASSUME v < y PROVE FALSE
    <2>1. v * w + w <= y * w
        BY <1>3, RowBelow
    <2> QED
        BY <2>1, <1>1
<1>4. y = v
    BY <1>2, <1>3
<1> QED
    BY <1>4, <1>1

LEMMA Divided ==
    ASSUME NEW n \in Int, NEW d \in Nat \ {0}
    PROVE  n \div d \in Int /\ n % d \in 0 .. d - 1 /\ n = (n \div d) * d + (n % d)
OBVIOUS

(* Row and column, from the position. *)
LEMMA CellOf ==
    ASSUME NEW w \in Nat \ {0}, NEW x \in 0 .. w - 1, NEW y \in Nat
    PROVE  (y * w + x) \div w = y /\ (y * w + x) % w = x
<1> DEFINE n == y * w + x
           q == n \div w
           r == n % w
<1>1. n \in Nat /\ y * w \in Nat
    OBVIOUS
<1>2. q \in Int /\ r \in 0 .. w - 1 /\ n = q * w + r
    BY <1>1, Divided
<1>3. q \in Nat
    BY <1>1
<1>4. r = x /\ q = y
    <2> HIDE DEF q, r
    <2> QED
        BY <1>1, <1>2, <1>3, CellsDiffer
<1> QED
    BY <1>4

(* The position of a cell lies in the sequence. *)
LEMMA CellInside ==
    ASSUME NEW w \in Nat, NEW h \in Nat, NEW x \in 0 .. w - 1, NEW y \in 0 .. h - 1
    PROVE  y * w \in Nat /\ w * h \in Nat /\ w * h = h * w /\ y * w + w <= h * w
           /\ y * w + x + 1 \in 1 .. (w * h)
<1>1. y * w \in Nat /\ h * w \in Nat /\ y * w + w <= h * w
    BY RowBelow
<1>2. w * h = h * w
    OBVIOUS
<1> QED
    BY <1>1, <1>2

LEMMA PositionOfCell ==
    ASSUME NEW w \in Nat \ {0}, NEW h \in Nat, NEW k \in 1 .. (w * h)
    PROVE  /\ (k - 1) % w \in 0 .. w - 1 /\ (k - 1) \div w \in 0 .. h - 1
           /\ k = ((k - 1) \div w) * w + ((k - 1) % w) + 1
<1> DEFINE n == k - 1
           q == n \div w
           r == n % w
<1>0. w * h = h * w /\ h * w \in Nat /\ n \in Nat /\ n < h * w
    OBVIOUS
<1>1. q \in Int /\ r \in 0 .. w - 1 /\ n = q * w + r
    BY <1>0, Divided
<1>2. q \in Nat
    BY <1>0
<1>3. ASSUME h <= q PROVE FALSE
    <2> HIDE DEF q, r
    <2>1. CASE h = q
        BY <1>0, <1>1, <2>1
    <2>2. CASE h < q
        <3>1. h * w + w <= q * w /\ q * w \in Nat
            BY <1>2, <2>2, RowBelow
        <3> QED
            BY <1>0, <1>1, <3>1
    <2> QED
        BY <1>2, <1>3, <2>1, <2>2
<1> QED
    BY <1>0, <1>1, <1>2, <1>3

-----------------------------------------------------------------------------
(* Tiles *)

LEMMA DefaultIsTile ==
    ASSUME lines \in 0 .. 2
    PROVE  DefaultTile \in Tile /\ DefaultTile.id = 0
<1>1. CASE lines = 0
    <2>1. DefaultTile = [id |-> 0, numbers |-> <<>>]
        BY <1>1 DEF DefaultTile
    <2> QED
        BY <1>1, <2>1, TileAssumption DEF Tile
<1>2. CASE lines \in {1, 2}
    <2> DEFINE t == [id |-> 0, numbers |-> <<0, 0>>]
    <2>1. t \in NumberedTiles
        BY TileAssumption
    <2>2. [t EXCEPT !.numbers = SubSeq(@, 1, lines)] = [id |-> 0, numbers |-> SubSeq(<<0, 0>>, 1, lines)]
        <3>1. \A a, b : [[id |-> 0, numbers |-> a] EXCEPT !.numbers = b] = [id |-> 0, numbers |-> b]
            OBVIOUS
        <3>2. t.numbers = <<0, 0>>
            OBVIOUS
        <3> QED
            BY <3>1, <3>2, Zenon
    <2>3. SubSeq(<<0, 0>>, 1, lines) = [k \in 1 .. lines |-> 0]
        BY <1>2
    <2>4. DefaultTile = [t EXCEPT !.numbers = SubSeq(@, 1, lines)]
        BY <2>2, <2>3 DEF DefaultTile
    <2>5. Tile = {[u EXCEPT !.numbers = SubSeq(@, 1, lines)] : u \in NumberedTiles}
        BY <1>2 DEF Tile
    <2>6. DefaultTile \in Tile
        BY <2>1, <2>4, <2>5, Zenon
    <2> QED
        BY <2>6 DEF DefaultTile
<1> QED
    BY <1>1, <1>2

LEMMA Joined ==
    ASSUME NEW S, NEW a \in Seq(S), NEW b \in Seq(S), NEW n, NEW m, Len(a) = n, Len(b) = m
    PROVE  /\ a \o b \in Seq(S) /\ Len(a \o b) = n + m
           /\ \A i \in 1 .. n + m : (a \o b)[i] = IF i <= n THEN a[i] ELSE b[i - n]
BY ConcatProperties

ThreeDigits == 0 .. 999
Pairs == ThreeDigits \X ThreeDigits

LEMMA FirstNumbers ==
    ASSUME NEW m \in {1, 2}, NEW p \in Pairs
    PROVE  \A k \in 1 .. m : SubSeq(p, 1, m)[k] \in ThreeDigits
<1> SUFFICES ASSUME NEW k \in 1 .. m PROVE SubSeq(p, 1, m)[k] \in ThreeDigits
    OBVIOUS
<1> DEFINE a == p[1]
           b == p[2]
<1>1. p = <<a, b>> /\ a \in ThreeDigits /\ b \in ThreeDigits
    BY DEF Pairs
<1> HIDE DEF a, b
<1>2. CASE m = 1
    <2>1. SubSeq(<<a, b>>, 1, 1)[1] = a /\ k = 1
        BY <1>2
    <2> QED
        BY <1>1, <1>2, <2>1
<1>3. CASE m = 2
    <2> DEFINE s == SubSeq(<<a, b>>, 1, 2)
    <2>1. s[1] = a /\ s[2] = b
        OBVIOUS
    <2>2. k = 1 \/ k = 2
        BY <1>3
    <2>3. SubSeq(p, 1, m) = s
        BY <1>1, <1>3
    <2> HIDE DEF s
    <2>4. s[k] \in ThreeDigits
        BY <1>1, <2>1, <2>2
    <2> QED
        BY <2>3, <2>4
<1> QED
    BY <1>2, <1>3

(* A tile's numbers have three digits. *)
LEMMA TileFields ==
    ASSUME lines \in 0 .. 2, NEW t \in Tile
    PROVE  t.id \in Nat /\ \A k \in 1 .. lines : t.numbers[k] \in ThreeDigits
<1>1. CASE lines = 0
    BY <1>1, TileAssumption DEF Tile
<1>2. CASE lines \in {1, 2}
    <2>1. PICK n \in NumberedTiles : t = [n EXCEPT !.numbers = SubSeq(@, 1, lines)]
        BY <1>2 DEF Tile
    <2>2. n \in [id : Nat, numbers : (0 .. 999) \X (0 .. 999)]
        BY <2>1, TileAssumption
    <2> DEFINE s == SubSeq(n.numbers, 1, lines)
    <2>3. t.id = n.id /\ t.numbers = s
        BY <2>1, <2>2
    <2>4. n.id \in Nat /\ n.numbers \in Pairs
        BY <2>2 DEF Pairs, ThreeDigits
    <2>5. \A k \in 1 .. lines : s[k] \in ThreeDigits
        BY <1>2, <2>4, FirstNumbers
    <2> HIDE DEF s
    <2> QED
        BY <2>3, <2>4, <2>5
<1>3. lines = 0 \/ lines \in {1, 2}
    OBVIOUS
<1> QED
    BY <1>1, <1>2, <1>3, Zenon

LEMMA NumberOf ==
    ASSUME lines \in 0 .. 2, NEW tile \in Tile, NEW k \in 1 .. lines
    PROVE  tile.numbers[k] \in ThreeDigits
<1>1. \A j \in 1 .. lines : tile.numbers[j] \in ThreeDigits
    BY TileFields
<1> QED
    BY <1>1

LEMMA FreshTiles ==
    ASSUME lines \in 0 .. 2, NEW n \in Nat
    PROVE  /\ Fresh(n) \in Seq(Tile) /\ Len(Fresh(n)) = n
           /\ \A k \in 1 .. n : Fresh(n)[k] = DefaultTile
BY DefaultIsTile DEF Fresh

LEMMA InsertedAfter ==
    ASSUME lines \in 0 .. 2, NEW ts \in Seq(Tile), NEW k \in 0 .. Len(ts), NEW n \in Nat
    PROVE  /\ InsertAfter(ts, k, n) \in Seq(Tile)
           /\ Len(InsertAfter(ts, k, n)) = Len(ts) + n
           /\ \A i \in 1 .. Len(ts) + n : InsertAfter(ts, k, n)[i] =
                 IF i <= k THEN ts[i] ELSE IF i <= k + n THEN DefaultTile ELSE ts[i - n]
<1> DEFINE a == SubSeq(ts, 1, k)
           b == Fresh(n)
           c == SubSeq(ts, k + 1, Len(ts))
           d == a \o b
<1>0. Len(ts) \in Nat
    OBVIOUS
<1>1. a \in Seq(Tile) /\ Len(a) = k /\ \A i \in 1 .. k : a[i] = ts[i]
    BY <1>0, SubSeqProperties
<1>2. b \in Seq(Tile) /\ Len(b) = n /\ \A i \in 1 .. n : b[i] = DefaultTile
    BY FreshTiles
<1>3. c \in Seq(Tile) /\ Len(c) = Len(ts) - k /\ \A i \in 1 .. Len(ts) - k : c[i] = ts[k + i]
    BY <1>0, SubSeqProperties
<1>4. InsertAfter(ts, k, n) = d \o c
    BY DEF InsertAfter
<1> HIDE DEF a, b, c
<1>5. d \in Seq(Tile) /\ Len(d) = k + n
      /\ \A i \in 1 .. k + n : d[i] = IF i <= k THEN a[i] ELSE b[i - k]
    BY <1>1, <1>2, Joined
<1> HIDE DEF d
<1>6. d \o c \in Seq(Tile) /\ Len(d \o c) = Len(ts) + n
      /\ \A i \in 1 .. Len(ts) + n : (d \o c)[i] = IF i <= k + n THEN d[i] ELSE c[i - (k + n)]
    <2> DEFINE before == k + n
               behind == Len(ts) - k
    <2>1. before + behind = Len(ts) + n
        BY <1>0
    <2>2. d \in Seq(Tile) /\ c \in Seq(Tile) /\ Len(d) = before /\ Len(c) = behind
        BY <1>3, <1>5
    <2> HIDE DEF before, behind
    <2>3. /\ d \o c \in Seq(Tile) /\ Len(d \o c) = before + behind
          /\ \A i \in 1 .. before + behind : (d \o c)[i] =
                IF i <= before THEN d[i] ELSE c[i - before]
        BY <2>2, Joined, SMTT(20)
    <2> QED
        BY <2>1, <2>3 DEF before
<1>7. ASSUME NEW i \in 1 .. Len(ts) + n
      PROVE  (d \o c)[i] = IF i <= k THEN ts[i] ELSE IF i <= k + n THEN DefaultTile ELSE ts[i - n]
    <2>1. CASE i <= k
        BY <1>0, <1>1, <1>5, <1>6, <2>1
    <2>2. CASE k < i /\ i <= k + n
        <3>1. i - k \in 1 .. n /\ i \in 1 .. k + n
            BY <1>0, <2>2
        <3> QED
            BY <1>0, <1>2, <1>5, <1>6, <2>2, <3>1
    <2>3. CASE k + n < i
        <3>1. i - (k + n) \in 1 .. Len(ts) - k /\ k + (i - (k + n)) = i - n
            BY <1>0, <2>3
        <3>2. (d \o c)[i] = c[i - (k + n)]
            BY <1>0, <1>6, <2>3
        <3>3. c[i - (k + n)] = ts[i - n]
            BY <1>3, <3>1
        <3> QED
            BY <1>0, <2>3, <3>2, <3>3
    <2>4. i <= k \/ (k < i /\ i <= k + n) \/ k + n < i
        BY <1>0
    <2> QED
        BY <2>1, <2>2, <2>3, <2>4, Zenon
<1> QED
    BY <1>4, <1>6, <1>7

-----------------------------------------------------------------------------
(***************************************************************************)
(* Rows that grow: a fold over the rows, from the last.  The fold is a     *)
(* recursive function on sets of positions, which takes the greatest       *)
(* first: it has to be shown that there is one before its values can be    *)
(* followed from the set of the first k positions to that of the first     *)
(* k + 1.                                                                  *)
(***************************************************************************)

Grows(f, n, ts, w, more, q) ==
    f = [s \in SUBSET (1 .. n) |->
           IF s = {} THEN ts ELSE InsertAfter(f[s \ {Max(s)}], q[Max(s)] * w, more)]

LEMMA GrowsExists ==
    ASSUME NEW n \in Nat, NEW ts, NEW w, NEW more, NEW q
    PROVE  \E f : Grows(f, n, ts, w, more, q)
<1> DEFINE bad == {k \in 0 .. n : ~ \E f : Grows(f, k, ts, w, more, q)}
<1>1. SUFFICES ASSUME bad # {} PROVE FALSE
    OBVIOUS
<1>2. PICK k \in bad : \A j \in bad : k <= j
    <2>1. bad \in SUBSET Nat
        OBVIOUS
    <2> HIDE DEF bad
    <2> QED
        BY <1>1, <2>1, FirstPosition
<1>3. CASE k = 0
    <2> DEFINE f == [s \in {{}} |-> ts]
    <2>1. SUBSET (1 .. 0) = {{}}
        OBVIOUS
    <2>2. f = [s \in {{}} |-> IF s = {} THEN ts
                 ELSE InsertAfter(f[s \ {Max(s)}], q[Max(s)] * w, more)]
        OBVIOUS
    <2>3. Grows(f, 0, ts, w, more, q)
        BY <2>1, <2>2, Zenon DEF Grows
    <2> QED
        BY <1>3, <2>3
<1>4. CASE k # 0
    <2> DEFINE m == k - 1
    <2>1. m \in 0 .. n /\ m \notin bad /\ k \in Nat \ {0} /\ m \in Nat /\ k = m + 1
        BY <1>2, <1>4
    <2>2. PICK f : Grows(f, m, ts, w, more, q)
        BY <2>1
    <2> DEFINE g == [s \in SUBSET (1 .. k) |->
                       IF k \in s THEN InsertAfter(f[s \ {k}], q[k] * w, more) ELSE f[s]]
    <2>3. ASSUME NEW s \in SUBSET (1 .. k)
          PROVE  g[s] = IF s = {} THEN ts ELSE InsertAfter(g[s \ {Max(s)}], q[Max(s)] * w, more)
        <3>1. CASE k \in s
            <4>1. Max(s) = k
                BY <2>1, <3>1, Greatest
            <4>2. s \ {k} \in SUBSET (1 .. k) /\ k \notin s \ {k}
                OBVIOUS
            <4>3. g[s \ {k}] = f[s \ {k}]
                BY <4>2
            <4>4. g[s] = InsertAfter(f[s \ {k}], q[k] * w, more)
                BY <3>1
            <4> HIDE DEF g
            <4> QED
                BY <3>1, <4>1, <4>3, <4>4
        <3>2. CASE k \notin s
            <4>1. s \in SUBSET (1 .. m) /\ g[s] = f[s]
                BY <2>1, <3>2
            <4>2. f[s] = IF s = {} THEN ts ELSE InsertAfter(f[s \ {Max(s)}], q[Max(s)] * w, more)
                BY <2>2, <4>1, Zenon DEF Grows
            <4>3. s \ {Max(s)} \in SUBSET (1 .. k) /\ k \notin s \ {Max(s)}
                BY <3>2
            <4>4. g[s \ {Max(s)}] = f[s \ {Max(s)}]
                BY <4>3
            <4> HIDE DEF g
            <4> QED
                BY <4>1, <4>2, <4>4
        <3> QED
            BY <3>1, <3>2
    <2>4. DOMAIN g = SUBSET (1 .. k)
        OBVIOUS
    <2>5. g = [s \in SUBSET (1 .. k) |-> g[s]]
        OBVIOUS
    <2> HIDE DEF g
    <2>6. Grows(g, k, ts, w, more, q)
        BY <2>3, <2>5, Zenon DEF Grows
    <2> QED
        BY <2>6
<1> QED
    BY <1>3, <1>4

(* What is left of the layer as it was, when the rows from r on have grown. *)
Grown(acc, r, ts, w, h, m) ==
    /\ acc \in Seq(Tile) /\ Len(acc) = r * w + (h - r) * m
    /\ \A y \in 0 .. r - 1, x \in 0 .. w - 1 : acc[y * w + x + 1] = ts[y * w + x + 1]
    /\ \A y \in r .. h - 1, x \in 0 .. m - 1 :
          acc[r * w + (y - r) * m + x + 1] = IF x < w THEN ts[y * w + x + 1] ELSE DefaultTile

LEMMA RowGrows ==
    ASSUME lines \in 0 .. 2, NEW w \in Nat, NEW h \in Nat, NEW more \in Nat, NEW r \in 1 .. h,
           NEW ts, NEW acc, Grown(acc, r, ts, w, h, w + more)
    PROVE  Grown(InsertAfter(acc, r * w, more), r - 1, ts, w, h, w + more)
<1> DEFINE m == w + more
           next == InsertAfter(acc, r * w, more)
           p == (r - 1) * w
           rest == (h - r) * m
<1>1. /\ r * w \in Nat /\ p \in Nat /\ rest \in Nat /\ r * w = p + w
      /\ (h - (r - 1)) * m = rest + m /\ m \in Nat /\ r - 1 \in Nat /\ r \in Nat
    <2>1. r - 1 \in Nat /\ h - r \in Nat /\ m \in Nat
        OBVIOUS
    <2>2. p \in Nat /\ rest \in Nat
        BY <2>1
    <2>3. r * w = p + w
        OBVIOUS
    <2>4. (h - (r - 1)) * m = rest + m
        <3> HIDE DEF m
        <3> QED
            BY <2>1
    <2> QED
        BY <2>1, <2>2, <2>3, <2>4
<1>2. acc \in Seq(Tile) /\ Len(acc) = r * w + rest
    BY DEF Grown
<1> HIDE DEF rest
<1>3. /\ next \in Seq(Tile)
      /\ Len(next) = Len(acc) + more
      /\ \A i \in 1 .. Len(acc) + more : next[i] =
            IF i <= r * w THEN acc[i] ELSE IF i <= r * w + more THEN DefaultTile ELSE acc[i - more]
    <2>1. r * w \in 0 .. Len(acc)
        BY <1>1, <1>2
    <2> QED
        BY <1>2, <2>1, InsertedAfter
<1> HIDE DEF next, p
<1>4. Len(next) = p + (h - (r - 1)) * m
    <2>1. Len(next) = p + w + rest + more /\ m = w + more
        BY <1>1, <1>2, <1>3
    <2> HIDE DEF m
    <2> QED
        BY <1>1, <2>1
<1>5. ASSUME NEW y \in 0 .. (r - 1) - 1, NEW x \in 0 .. w - 1
      PROVE  next[y * w + x + 1] = ts[y * w + x + 1]
    <2>1. y * w \in Nat /\ y * w + w <= r * w
        BY <1>1, RowBelow
    <2>2. y * w + x + 1 \in 1 .. Len(acc) + more /\ y * w + x + 1 <= r * w
        BY <1>1, <1>2, <2>1
    <2>3. next[y * w + x + 1] = acc[y * w + x + 1]
        BY <1>3, <2>2
    <2>4. y \in 0 .. r - 1
        OBVIOUS
    <2> QED
        BY <2>3, <2>4 DEF Grown
<1>6. ASSUME NEW y \in r - 1 .. h - 1, NEW x \in 0 .. m - 1
      PROVE  next[p + (y - (r - 1)) * m + x + 1] = IF x < w THEN ts[y * w + x + 1] ELSE DefaultTile
    <2>1. CASE y = r - 1
        <3>1. (y - (r - 1)) * m = 0 /\ y * w = p
            BY <1>1, <2>1 DEF p
        <3>2. p + x + 1 \in 1 .. Len(acc) + more
            BY <1>1, <1>2
        <3>3. CASE x < w
            <4>1. p + x + 1 <= r * w
                BY <1>1, <3>3
            <4>2. next[p + x + 1] = acc[p + x + 1]
                BY <1>3, <3>2, <4>1
            <4>3. y \in 0 .. r - 1 /\ x \in 0 .. w - 1
                BY <1>1, <2>1, <3>3
            <4>4. acc[y * w + x + 1] = ts[y * w + x + 1]
                BY <4>3 DEF Grown
            <4> QED
                BY <1>1, <3>1, <3>3, <4>2, <4>4
        <3>4. CASE ~ (x < w)
            <4>1. ~ (p + x + 1 <= r * w) /\ p + x + 1 <= r * w + more
                BY <1>1, <3>4
            <4>2. next[p + x + 1] = DefaultTile
                BY <1>3, <3>2, <4>1
            <4> QED
                BY <1>1, <3>1, <3>4, <4>2
        <3> QED
            BY <3>3, <3>4
    <2>2. CASE y # r - 1
        <3> DEFINE d == (y - r) * m
        <3>1. y \in r .. h - 1 /\ y - r \in Nat /\ h - r \in Nat /\ y - r < h - r
            BY <1>1, <2>2
        <3>2. d \in Nat /\ d + m <= rest
            BY <1>1, <3>1, RowBelow DEF rest
        <3>3. (y - (r - 1)) * m = d + m
            <4> HIDE DEF m
            <4> QED
                BY <1>1, <3>1
        <3> HIDE DEF d
        <3> DEFINE i == p + (d + m) + x + 1
        <3>4. /\ i \in 1 .. Len(acc) + more /\ ~ (i <= r * w) /\ ~ (i <= r * w + more)
              /\ i - more = r * w + d + x + 1
            BY <1>1, <1>2, <3>2
        <3> HIDE DEF i
        <3>5. next[i] = acc[i - more]
            BY <1>3, <3>4
        <3>6. acc[r * w + d + x + 1] = IF x < w THEN ts[y * w + x + 1] ELSE DefaultTile
            BY <3>1 DEF Grown, d
        <3> QED
            BY <3>3, <3>4, <3>5, <3>6, Zenon DEF i
    <2> QED
        BY <2>1, <2>2
<1> QED
    BY <1>3, <1>4, <1>5, <1>6 DEF Grown, next, p

LEMMA WidenedIsGrown ==
    ASSUME lines \in 0 .. 2, NEW w \in Nat, NEW h \in Nat, NEW more \in Nat,
           NEW ts \in Seq(Tile), Len(ts) = w * h
    PROVE  Grown(Widened(ts, w, h, more), 0, ts, w, h, w + more)
<1> DEFINE q == [y \in 1 .. h |-> h + 1 - y]
           f == CHOOSE g : Grows(g, h, ts, w, more, q)
           bad == {k \in 0 .. h : ~ Grown(f[1 .. k], h - k, ts, w, h, w + more)}
<1>1. Widened(ts, w, h, more) = f[1 .. h]
    <2>1. DOMAIN q = 1 .. h
        OBVIOUS
    <2> QED
        BY <2>1, Zenon DEF Widened, FoldLeft, MapThenFoldSet, Grows, Max
<1>2. Grows(f, h, ts, w, more, q)
    <2>1. \E g : Grows(g, h, ts, w, more, q)
        BY GrowsExists
    <2> QED
        BY <2>1, Zenon
<1> HIDE DEF f
<1>3. f[{}] = ts
    <2>1. {} \in SUBSET (1 .. h)
        OBVIOUS
    <2> QED
        BY <1>2, <2>1, Zenon DEF Grows
<1>4. ASSUME NEW k \in 1 .. h
      PROVE  f[1 .. k] = InsertAfter(f[1 .. (k - 1)], (h - (k - 1)) * w, more)
    <2>1. Max(1 .. k) = k
        BY Greatest
    <2>2. 1 .. k \in SUBSET (1 .. h) /\ 1 .. k # {} /\ (1 .. k) \ {k} = 1 .. (k - 1)
          /\ q[k] = h - (k - 1)
        OBVIOUS
    <2> HIDE DEF q
    <2>3. f[1 .. k] = InsertAfter(f[(1 .. k) \ {Max(1 .. k)}], q[Max(1 .. k)] * w, more)
        BY <1>2, <2>2, Zenon DEF Grows
    <2> QED
        BY <2>1, <2>2, <2>3
<1>5. SUFFICES bad = {}
    <2>1. h \in 0 .. h /\ h - h = 0
        OBVIOUS
    <2> QED
        BY <1>1, <2>1
<1>6. SUFFICES ASSUME bad # {} PROVE FALSE
    OBVIOUS
<1>7. PICK k \in bad : \A j \in bad : k <= j
    <2>1. bad \in SUBSET Nat
        OBVIOUS
    <2> HIDE DEF bad
    <2> QED
        BY <1>6, <2>1, FirstPosition
<1>8. CASE k = 0
    <2>1. f[1 .. k] = ts
        BY <1>3, <1>8
    <2>2. Grown(ts, h, ts, w, h, w + more)
        <3>1. h * w + (h - h) * (w + more) = w * h
            OBVIOUS
        <3>2. h .. h - 1 = {}
            OBVIOUS
        <3> QED
            BY <3>1, <3>2 DEF Grown
    <2> QED
        BY <1>7, <1>8, <2>1, <2>2
<1>9. CASE k # 0
    <2>1. k - 1 \in 0 .. h /\ k - 1 \notin bad /\ h - (k - 1) \in 1 .. h /\ k \in 1 .. h
          /\ h - (k - 1) - 1 = h - k
        BY <1>7, <1>9
    <2>2. Grown(f[1 .. (k - 1)], h - (k - 1), ts, w, h, w + more)
        BY <2>1
    <2> DEFINE r == h - (k - 1)
    <2>3. Grown(InsertAfter(f[1 .. (k - 1)], r * w, more), r - 1, ts, w, h, w + more)
        <3> HIDE DEF r
        <3> QED
            BY <2>1, <2>2, RowGrows DEF r
    <2>4. f[1 .. k] = InsertAfter(f[1 .. (k - 1)], r * w, more)
        BY <1>4, <2>1
    <2> QED
        BY <1>7, <2>1, <2>3, <2>4
<1> QED
    BY <1>8, <1>9

-----------------------------------------------------------------------------
(* Layers that are resized *)

LEMMA TilesAreSeq ==
    ASSUME NEW n \in Nat, NEW ts \in [1 .. n -> Tile]
    PROVE  ts \in Seq(Tile) /\ Len(ts) = n
<1>1. ts \in Seq(Tile)
    BY SeqDef
<1>2. Len(ts) \in Nat /\ DOMAIN ts = 1 .. Len(ts)
    BY <1>1, LenProperties
<1>3. 1 .. Len(ts) = 1 .. n
    BY <1>2
<1> QED
    BY <1>1, <1>2, <1>3

LEMMA SeqIsTiles ==
    ASSUME NEW ts \in Seq(Tile)
    PROVE  ts \in [1 .. Len(ts) -> Tile]
OBVIOUS

(* Tiles ts of width w and height h, of which those of a layer of old width
   and height are kept. *)
Resized(ts, w, h, old, ow, oh) ==
    /\ ts \in [1 .. (w * h) -> Tile]
    /\ \A x \in 0 .. (w - 1), y \in 0 .. (h - 1) :
          GetTile(ts, w, x, y) = IF x < ow /\ y < oh THEN GetTile(old, ow, x, y) ELSE DefaultTile

LEMMA WidthSet ==
    ASSUME lines \in 0 .. 2, NEW w \in Nat \ {0}, NEW h \in Nat \ {0}, NEW to \in Nat \ {0},
           NEW ts \in [1 .. (w * h) -> Tile]
    PROVE  Resized(SetWidth(ts, w, h, to), to, h, ts, w, h)
<1>1. CASE to < w
    <2> DEFINE new == [k \in 1 .. (to * h) |-> GetTile(ts, w, (k - 1) % to, (k - 1) \div to)]
    <2>1. SetWidth(ts, w, h, to) = new
        BY <1>1 DEF SetWidth
    <2>2. ASSUME NEW k \in 1 .. (to * h)
          PROVE  GetTile(ts, w, (k - 1) % to, (k - 1) \div to) \in Tile
        <3> DEFINE x == (k - 1) % to
                   y == (k - 1) \div to
        <3>1. x \in 0 .. to - 1 /\ y \in 0 .. h - 1
            BY PositionOfCell
        <3> HIDE DEF x, y
        <3>2. x \in 0 .. w - 1
            BY <1>1, <3>1
        <3>3. y * w + x + 1 \in 1 .. (w * h)
            BY <3>1, <3>2, CellInside
        <3> QED
            BY <3>3 DEF GetTile, x, y
    <2>3. new \in [1 .. (to * h) -> Tile]
        BY <2>2
    <2>4. ASSUME NEW x \in 0 .. (to - 1), NEW y \in 0 .. (h - 1)
          PROVE  GetTile(new, to, x, y) = GetTile(ts, w, x, y)
        <3> DEFINE n == y * to + x
        <3>1. n + 1 \in 1 .. (to * h) /\ y * to \in Nat
            BY CellInside
        <3>2. (n + 1) - 1 = n
            BY <3>1
        <3>3. n \div to = y /\ n % to = x
            BY CellOf
        <3> HIDE DEF n
        <3>4. new[n + 1] = GetTile(ts, w, n % to, n \div to)
            BY <3>1, <3>2
        <3> QED
            BY <3>3, <3>4 DEF GetTile, n
    <2> HIDE DEF new
    <2> QED
        BY <1>1, <2>1, <2>3, <2>4 DEF Resized
<1>2. CASE ~ (to < w)
    <2> DEFINE more == to - w
               new == Widened(ts, w, h, more)
    <2>1. more \in Nat /\ w + more = to
        BY <1>2
    <2>2. w * h \in Nat /\ ts \in Seq(Tile) /\ Len(ts) = w * h
        BY TilesAreSeq
    <2>3. SetWidth(ts, w, h, to) = new
        BY <1>2 DEF SetWidth
    <2>4. Grown(new, 0, ts, w, h, to)
        <3> HIDE DEF more
        <3> QED
            BY <2>1, <2>2, WidenedIsGrown
    <2> HIDE DEF new
    <2>5. new \in [1 .. (to * h) -> Tile]
        <3>1. 0 * w + (h - 0) * to = to * h
            OBVIOUS
        <3> QED
            BY <2>4, <3>1, SeqIsTiles DEF Grown
    <2>6. ASSUME NEW x \in 0 .. (to - 1), NEW y \in 0 .. (h - 1)
          PROVE  GetTile(new, to, x, y) = IF x < w THEN GetTile(ts, w, x, y) ELSE DefaultTile
        <3>1. 0 * w + (y - 0) * to + x + 1 = y * to + x + 1
            OBVIOUS
        <3>2. new[0 * w + (y - 0) * to + x + 1] = IF x < w THEN ts[y * w + x + 1] ELSE DefaultTile
            BY <2>4 DEF Grown
        <3> QED
            BY <3>1, <3>2 DEF GetTile
    <2>7. \A x \in 0 .. (to - 1), y \in 0 .. (h - 1) : y < h
        OBVIOUS
    <2> QED
        BY <2>3, <2>5, <2>6, <2>7 DEF Resized
<1> QED
    BY <1>1, <1>2

LEMMA HeightSet ==
    ASSUME lines \in 0 .. 2, NEW w \in Nat \ {0}, NEW h \in Nat \ {0}, NEW to \in Nat \ {0},
           NEW ts \in [1 .. (w * h) -> Tile]
    PROVE  Resized(SetHeight(ts, w, h, to), w, to, ts, w, h)
<1> DEFINE new == SetHeight(ts, w, h, to)
           n == w * to
<1>0. /\ w * h \in Nat /\ n \in Nat /\ to * w = n /\ h * w = w * h
      /\ ts \in Seq(Tile) /\ Len(ts) = w * h
    BY TilesAreSeq
<1>1. CASE to < h
    <2>1. new = SubSeq(ts, 1, n) /\ to * w + w <= h * w
        BY <1>0, <1>1, RowBelow DEF SetHeight
    <2> HIDE DEF n
    <2>2. SubSeq(ts, 1, n) \in Seq(Tile) /\ Len(SubSeq(ts, 1, n)) = n
          /\ \A k \in 1 .. n : SubSeq(ts, 1, n)[k] = ts[k]
        BY <1>0, <2>1, SubSeqProperties
    <2> HIDE DEF new
    <2>3. new \in [1 .. n -> Tile]
        BY <2>1, <2>2, SeqIsTiles
    <2>4. ASSUME NEW x \in 0 .. (w - 1), NEW y \in 0 .. (to - 1)
          PROVE  GetTile(new, w, x, y) = GetTile(ts, w, x, y) /\ x < w /\ y < h
        <3> DEFINE k == y * w + x + 1
        <3>1. k \in 1 .. n
            BY CellInside DEF n
        <3> HIDE DEF k
        <3>2. new[k] = ts[k]
            BY <2>1, <2>2, <3>1
        <3>3. x < w /\ y < h
            BY <1>1
        <3> QED
            BY <3>2, <3>3 DEF GetTile, k
    <2> QED
        BY <2>3, <2>4 DEF Resized, new, n
<1>2. CASE ~ (to < h)
    <2> DEFINE m == (to - h) * w
    <2>1. m \in Nat /\ n = w * h + m
        <3>1. PICK d \in Nat : to = h + d
            <4>1. to - h \in Nat /\ to = h + (to - h)
                BY <1>2
            <4> QED
                BY <4>1
        <3>2. to - h = d
            BY <3>1
        <3>3. w * to = w * h + d * w /\ d * w \in Nat
            BY <3>1
        <3> QED
            BY <3>2, <3>3
    <2>2. new = ts \o Fresh(m)
        BY <1>2 DEF SetHeight
    <2> HIDE DEF n, m
    <2>3. Fresh(m) \in Seq(Tile) /\ Len(Fresh(m)) = m /\ \A k \in 1 .. m : Fresh(m)[k] = DefaultTile
        BY <2>1, FreshTiles
    <2> DEFINE more == Fresh(m)
    <2>4. ts \o more \in Seq(Tile) /\ Len(ts \o more) = n
          /\ \A k \in 1 .. n : (ts \o more)[k] = IF k <= w * h THEN ts[k] ELSE more[k - w * h]
        <3>1. more \in Seq(Tile) /\ Len(more) = m
            BY <2>3
        <3> HIDE DEF more
        <3>2. /\ ts \o more \in Seq(Tile) /\ Len(ts \o more) = w * h + m
              /\ \A k \in 1 .. w * h + m : (ts \o more)[k] =
                    IF k <= w * h THEN ts[k] ELSE more[k - w * h]
            BY <1>0, <3>1, Joined
        <3> QED
            BY <2>1, <3>2
    <2> HIDE DEF new, more
    <2>5. new \in [1 .. n -> Tile]
        BY <2>2, <2>4, SeqIsTiles DEF more
    <2>6. ASSUME NEW x \in 0 .. (w - 1), NEW y \in 0 .. (to - 1)
          PROVE  GetTile(new, w, x, y) = IF y < h THEN GetTile(ts, w, x, y) ELSE DefaultTile
        <3> DEFINE k == y * w + x + 1
        <3>1. k \in 1 .. n /\ y * w \in Nat
            BY CellInside DEF n
        <3>2. CASE y < h
            <4>1. k \in 1 .. w * h
                BY <3>2, CellInside
            <4>2. k <= w * h
                BY <1>0, <4>1
            <4> QED
                BY <2>2, <2>4, <3>1, <3>2, <4>2 DEF GetTile, more
        <3>3. CASE ~ (y < h)
            <4>1. h * w <= y * w
                <5>1. CASE y = h
                    BY <1>0, <5>1
                <5>2. CASE h < y
                    BY <1>0, <3>1, <5>2, RowBelow
                <5> QED
                    BY <3>3, <5>1, <5>2
            <4>2. ~ (k <= w * h) /\ k - w * h \in 1 .. m
                BY <1>0, <2>1, <3>1, <4>1
            <4> HIDE DEF k
            <4>3. new[k] = more[k - w * h] /\ more[k - w * h] = DefaultTile
                BY <2>2, <2>3, <2>4, <3>1, <4>2 DEF more
            <4> QED
                BY <3>3, <4>3 DEF GetTile, k
        <3> QED
            BY <3>2, <3>3
    <2>7. \A x \in 0 .. (w - 1), y \in 0 .. (to - 1) : x < w
        OBVIOUS
    <2> QED
        BY <2>5, <2>6, <2>7 DEF Resized, new, n
<1> QED
    BY <1>1, <1>2

-----------------------------------------------------------------------------
(* Chunks *)

LEMMA QuotientBelow ==
    ASSUME NEW n \in Int, NEW k \in Int, NEW d \in Nat \ {0}, n < k * d
    PROVE  n \div d < k
<1> DEFINE q == n \div d
           r == n % d
<1>1. q \in Int /\ r \in 0 .. d - 1 /\ n = q * d + r
    BY Divided
<1> HIDE DEF q, r
<1>2. ASSUME k <= q PROVE FALSE
    <2>1. PICK c \in Nat : q = k + c
        <3>1. q - k \in Nat /\ q = k + (q - k)
            BY <1>1, <1>2
        <3> QED
            BY <3>1
    <2>2. q * d = k * d + c * d /\ c * d \in Nat /\ k * d \in Int
        BY <2>1
    <2> QED
        BY <1>1, <2>2
<1> QED
    BY <1>1, <1>2 DEF q

LEMMA QuotientAbove ==
    ASSUME NEW n \in Int, NEW k \in Int, NEW d \in Nat \ {0}, k * d <= n
    PROVE  k <= n \div d
<1> DEFINE q == n \div d
           r == n % d
<1>1. q \in Int /\ r \in 0 .. d - 1 /\ n = q * d + r
    BY Divided
<1> HIDE DEF q, r
<1>2. ASSUME q < k PROVE FALSE
    <2>1. PICK c \in Nat : k = q + 1 + c
        <3>1. k - q - 1 \in Nat /\ k = q + 1 + (k - q - 1)
            BY <1>1, <1>2
        <3> QED
            BY <3>1
    <2>2. k * d = q * d + d + c * d /\ c * d \in Nat /\ q * d \in Int
        BY <1>1, <2>1
    <2> QED
        BY <1>1, <2>2
<1> QED
    BY <1>1, <1>2 DEF q

LEMMA QuotientsRise ==
    ASSUME NEW a \in Int, NEW b \in Int, NEW d \in Nat \ {0}, a <= b
    PROVE  a \div d <= b \div d
<1> DEFINE q == a \div d
           r == a % d
<1>1. q \in Int /\ r \in 0 .. d - 1 /\ a = q * d + r
    BY Divided
<1> HIDE DEF q, r
<1>2. q * d <= b
    BY <1>1
<1>3. q <= b \div d
    BY <1>1, <1>2, QuotientAbove
<1> QED
    BY <1>3 DEF q

(* What stands before b lies in one of the chunks before the next whole one. *)
LEMMA ChunkBefore ==
    ASSUME NEW x \in Nat, NEW b \in Int, NEW d \in Nat \ {0}, x < b
    PROVE  x \div d \in Nat /\ CeilDiv(b, d) \in Int /\ x \div d < CeilDiv(b, d)
<1> DEFINE q == x \div d
           r == x % d
           c == (-b) \div d
<1>1. q \in Int /\ r \in 0 .. d - 1 /\ x = q * d + r
    BY Divided
<1>2. q \in Nat
    OBVIOUS
<1>3. c \in Int
    BY Divided
<1> HIDE DEF q, r
<1>4. (-q) * d = -(q * d) /\ q * d \in Int
    BY <1>1
<1>5. -b < (-q) * d /\ -b \in Int /\ -q \in Int
    BY <1>1, <1>4
<1>6. c < -q
    BY <1>5, QuotientBelow
<1> HIDE DEF c
<1>7. q < -c /\ -c \in Int
    BY <1>2, <1>3, <1>6
<1> QED
    BY <1>2, <1>7 DEF CeilDiv, q, c

LEMMA ChunkCount ==
    ASSUME NEW n \in Nat \ {0}
    PROVE  /\ CeilDiv(n, ChunkSize) \in Nat \ {0}
           /\ \A x \in 0 .. (n - 1) : x \div ChunkSize \in 0 .. (CeilDiv(n, ChunkSize) - 1)
<1>0. 0 \in Nat /\ n \in Int /\ 0 < n /\ ChunkSize \in Nat \ {0}
    BY SizeAssumption
<1>1. 0 \div ChunkSize \in Nat /\ CeilDiv(n, ChunkSize) \in Int
      /\ 0 \div ChunkSize < CeilDiv(n, ChunkSize)
    BY <1>0, ChunkBefore, Zenon
<1>2. ASSUME NEW x \in 0 .. (n - 1)
      PROVE  x \div ChunkSize \in 0 .. (CeilDiv(n, ChunkSize) - 1)
    <2>1. x \in Nat /\ x < n
        OBVIOUS
    <2>2. x \div ChunkSize \in Nat /\ x \div ChunkSize < CeilDiv(n, ChunkSize)
        BY <1>0, <2>1, ChunkBefore, Zenon
    <2> QED
        BY <1>1, <2>2
<1> QED
    BY <1>1, <1>2

LEMMA Greater ==
    ASSUME NEW a \in Int
    PROVE  Max({0, a}) = IF a < 0 THEN 0 ELSE a
<1> DEFINE m == IF a < 0 THEN 0 ELSE a
<1>1. m \in {0, a} /\ \A y \in {0, a} : m >= y
    OBVIOUS
<1>2. ASSUME NEW x \in {0, a}, \A y \in {0, a} : x >= y PROVE x = m
    BY <1>2
<1> HIDE DEF m
<1> QED
    BY <1>1, <1>2 DEF Max, m

LEMMA Lesser ==
    ASSUME NEW a \in Int, NEW b \in Int
    PROVE  Min({a, b}) = IF a < b THEN a ELSE b
<1> DEFINE m == IF a < b THEN a ELSE b
<1>1. m \in {a, b} /\ \A y \in {a, b} : m =< y
    OBVIOUS
<1>2. ASSUME NEW x \in {a, b}, \A y \in {a, b} : x =< y PROVE x = m
    BY <1>2
<1> HIDE DEF m
<1> QED
    BY <1>1, <1>2 DEF Min, m

(* In one direction, what is in view is in a chunk that is drawn. *)
LEMMA InViewIsDrawn ==
    ASSUME NEW from \in Int, NEW to \in Int, NEW n \in Nat \ {0}, NEW x \in 0 .. (n - 1),
           from < x + 1, x < to
    PROVE  x \div ChunkSize \in ChunksInView(from, to, CeilDiv(n, ChunkSize))
<1> DEFINE q == x \div ChunkSize
           a == from \div ChunkSize
           b == CeilDiv(to, ChunkSize)
           c == CeilDiv(n, ChunkSize)
<1>0. ChunkSize \in Nat \ {0} /\ x \in Nat
    BY SizeAssumption
<1>1. q \in Nat /\ b \in Int /\ q < b
    BY <1>0, ChunkBefore
<1>2. c \in Int /\ q < c
    <2>1. x < n /\ n \in Int
        OBVIOUS
    <2> QED
        BY <1>0, <2>1, ChunkBefore, Zenon
<1>3. a \in Int /\ a <= q
    <2>1. from <= x
        OBVIOUS
    <2>2. a \in Int
        BY <1>0, Divided
    <2> QED
        BY <1>0, <2>1, <2>2, QuotientsRise
<1> HIDE DEF q, a, b, c
<1>4. Max({0, a}) \in Int /\ Max({0, a}) <= q
    BY <1>1, <1>3, Greater
<1>5. Min({c, b}) \in Int /\ q < Min({c, b})
    BY <1>1, <1>2, Lesser
<1>6. q \in Max({0, a}) .. (Min({c, b}) - 1)
    BY <1>1, <1>4, <1>5
<1> QED
    BY <1>6 DEF ChunksInView, q, a, b, c

LEMMA CountFromZero ==
    ASSUME NEW n \in Nat \ {0}
    PROVE  Cardinality(0 .. (n - 1)) = n
<1>1. Cardinality(0 .. (n - 1)) = IF 0 > n - 1 THEN 0 ELSE (n - 1) - 0 + 1
    BY FS_Interval
<1> QED
    BY <1>1

-----------------------------------------------------------------------------
(* What the card should hold *)

CurrentGrid(filled) ==
    [cy \in 0 .. (CeilDiv(height, ChunkSize) - 1) |->
        [cx \in 0 .. (CeilDiv(width, ChunkSize) - 1) |->
            IF filled THEN Current(cx, cy) ELSE Pending]]

CurrentText(c, k) ==
    [at |-> c, line |-> k, digits |-> Digits(GetTile(tiles, width, c[1], c[2]).numbers[k])]

Numbered ==
    {p \in ((0 .. (width - 1)) \X (0 .. (height - 1))) \X (1 .. lines) :
        GetTile(tiles, width, p[1][1], p[1][2]).id # 0}
CurrentTexts == {CurrentText(p[1], p[2]) : p \in Numbered}

(* All chunks are drawn or none is, and it takes the texture to draw them. *)
AllOrNone ==
    /\ initialized => texture \in loaded
    /\ initialized \in BOOLEAN
    /\ buffers = CurrentGrid(initialized)

Typed == TypeOK /\ text = CurrentTexts

LEMMA SizesPositive ==
    ASSUME NEW n \in Sizes PROVE n \in Nat \ {0}
BY SizeAssumption DEF Sizes

LEMMA GridNow ==
    ASSUME NEW filled PROVE Grid(filled) = CurrentGrid(filled)'
BY DEF Grid, CurrentGrid, ChunkBuffer, Current

LEMMA TextsNow ==
    ASSUME lines' = lines PROVE Texts = CurrentTexts'
<1>1. Numbered' = {q \in ((0 .. (width' - 1)) \X (0 .. (height' - 1))) \X (1 .. lines) :
                      GetTile(tiles', width', q[1][1], q[1][2]).id # 0}
    BY DEF Numbered, GetTile
<1> QED
    BY <1>1 DEF Texts, TextAt, CurrentTexts, CurrentText, GetTile, Digits, SplitNumber

LEMMA LayerKept ==
    ASSUME UNCHANGED layer
    PROVE  /\ CurrentTexts' = CurrentTexts /\ Tile' = Tile
           /\ texture' = texture => \A filled : CurrentGrid(filled)' = CurrentGrid(filled)
<1>1. lines' = lines /\ width' = width /\ height' = height /\ tiles' = tiles
    BY DEF layer
<1>2. CurrentTexts' = CurrentTexts /\ Tile' = Tile
    BY <1>1 DEF CurrentTexts, CurrentText, Numbered, Tile, GetTile
<1>3. ASSUME texture' = texture, NEW filled PROVE CurrentGrid(filled)' = CurrentGrid(filled)
    BY <1>1, <1>3 DEF CurrentGrid, Current, GetTile, CellsOf
<1> QED
    BY <1>2, <1>3

(* New buffers have the shape of the layer. *)
GridOK ==
    /\ DOMAIN buffers = 0 .. (CeilDiv(height, ChunkSize) - 1)
    /\ \A cy \in DOMAIN buffers : DOMAIN buffers[cy] = 0 .. (CeilDiv(width, ChunkSize) - 1)

LEMMA GridShape ==
    ASSUME NEW filled, buffers = CurrentGrid(filled) PROVE GridOK
BY DEF GridOK, CurrentGrid

LEMMA GridShapeNext ==
    ASSUME NEW filled, buffers' = Grid(filled) PROVE GridOK'
<1>1. buffers' = CurrentGrid(filled)'
    BY GridNow
<1> QED
    BY <1>1 DEF GridOK, CurrentGrid

LEMMA Recomputed ==
    ASSUME Recompute
    PROVE  /\ initialized' => texture' \in loaded
           /\ initialized' \in BOOLEAN
           /\ buffers' = CurrentGrid(initialized)'
           /\ GridOK'
<1>1. CASE texture' \in loaded
    <2>1. buffers' = Grid(TRUE) /\ initialized' = TRUE
        BY <1>1 DEF Recompute
    <2>2. Grid(TRUE) = CurrentGrid(TRUE)'
        BY GridNow
    <2>3. CurrentGrid(initialized)' = CurrentGrid(TRUE)'
        BY <2>1 DEF CurrentGrid
    <2> QED
        BY <1>1, <2>1, <2>2, <2>3, GridShapeNext
<1>2. CASE texture' \notin loaded
    <2>1. buffers' = Grid(FALSE) /\ initialized' = FALSE
        BY <1>2 DEF Recompute
    <2>2. Grid(FALSE) = CurrentGrid(FALSE)'
        BY GridNow
    <2>3. CurrentGrid(initialized)' = CurrentGrid(FALSE)'
        BY <2>1 DEF CurrentGrid
    <2> QED
        BY <1>2, <2>1, <2>2, <2>3, GridShapeNext
<1> QED
    BY <1>1, <1>2

-----------------------------------------------------------------------------
(* Types, and the numbers over the tiles *)

LEMMA TypedInit == Init => Typed /\ AllOrNone
<1> SUFFICES ASSUME Init PROVE Typed /\ AllOrNone
    OBVIOUS
<1>1. lines \in 0 .. 2 /\ width \in Sizes /\ height \in Sizes /\ tiles = Fresh(width * height)
      /\ initialized = FALSE /\ text = {} /\ visible = TRUE /\ arrived = {} /\ loaded = {}
      /\ fontLoaded = FALSE
    BY DEF Init
<1>2. width \in Nat \ {0} /\ height \in Nat \ {0} /\ width * height \in Nat
    BY <1>1, SizesPositive
<1> DEFINE n == width * height
<1>3. tiles \in [1 .. n -> Tile] /\ \A k \in 1 .. n : tiles[k] = DefaultTile
    <2> HIDE DEF n
    <2>1. n \in Nat /\ tiles = Fresh(n)
        BY <1>1, <1>2 DEF n
    <2>2. tiles \in Seq(Tile) /\ Len(tiles) = n /\ \A k \in 1 .. n : tiles[k] = DefaultTile
        BY <1>1, <2>1, FreshTiles
    <2> QED
        BY <2>2, SeqIsTiles
<1>4. texture \in Images
    <2>1. CASE lines = 0
        BY <2>1 DEF Init, OwnImages
    <2>2. CASE lines # 0
        <3>1. texture = CHOOSE i \in Images : TRUE
            BY <2>2 DEF Init, OwnImages
        <3> QED
            BY <3>1, ChoiceAssumption
    <2> QED
        BY <2>1, <2>2
<1>5. buffers = CurrentGrid(FALSE)
    BY DEF Init, CurrentGrid
<1>6. CurrentTexts = {}
    <2>1. ASSUME NEW p \in Numbered PROVE FALSE
        <3>1. p[1][1] \in 0 .. (width - 1) /\ p[1][2] \in 0 .. (height - 1)
              /\ GetTile(tiles, width, p[1][1], p[1][2]).id # 0
            BY DEF Numbered
        <3>2. p[1][2] * width + p[1][1] + 1 \in 1 .. n
            BY <1>2, <3>1, CellInside
        <3> HIDE DEF n
        <3>3. GetTile(tiles, width, p[1][1], p[1][2]) = DefaultTile
            BY <1>3, <3>2 DEF GetTile
        <3> QED
            BY <1>1, <3>1, <3>3, DefaultIsTile
    <2> QED
        BY <2>1 DEF CurrentTexts
<1>7. GridOK
    BY <1>5, GridShape
<1>8. TypeOK
    BY <1>1, <1>3, <1>4, <1>7 DEF TypeOK, GridOK
<1>9. AllOrNone
    BY <1>1, <1>5 DEF AllOrNone
<1> QED
    BY <1>1, <1>6, <1>8, <1>9 DEF Typed

(* What an edit leaves of the tiles. *)
LEMMA TileEdited ==
    ASSUME TypeOK, NEW x \in Nat, NEW y \in Nat, NEW tile \in Tile, EditTile(x, y, tile)
    PROVE  /\ x \in 0 .. (width - 1) /\ y \in 0 .. (height - 1)
           /\ tiles' \in [1 .. (width * height) -> Tile]
           /\ \A u \in 0 .. (width - 1), v \in 0 .. (height - 1) :
                 <<u, v>> # <<x, y>> =>
                    GetTile(tiles', width, u, v) = GetTile(tiles, width, u, v)
<1>0. width \in Nat \ {0} /\ height \in Nat \ {0} /\ tiles \in [1 .. (width * height) -> Tile]
    BY SizesPositive DEF TypeOK
<1>1. x < width /\ y < height /\ tiles' = [tiles EXCEPT ![y * width + x + 1] = tile]
    BY DEF EditTile
<1>2. x \in 0 .. (width - 1) /\ y \in 0 .. (height - 1)
    BY <1>0, <1>1
<1>3. y * width + x + 1 \in 1 .. (width * height) /\ y * width \in Nat
    BY <1>0, <1>2, CellInside
<1>4. ASSUME NEW u \in 0 .. (width - 1), NEW v \in 0 .. (height - 1), <<u, v>> # <<x, y>>
      PROVE  GetTile(tiles', width, u, v) = GetTile(tiles, width, u, v)
    <2>1. v * width + u + 1 \in 1 .. (width * height) /\ v * width \in Nat
        BY <1>0, CellInside
    <2>2. v * width + u # y * width + x
        <3>1. ASSUME v * width + u = y * width + x PROVE FALSE
            <4>1. v \in Nat /\ y \in Nat /\ width \in Nat
                BY <1>0
            <4>2. u = x /\ v = y
                BY <1>2, <3>1, <4>1, CellsDiffer
            <4> QED
                BY <1>4, <4>2
        <3> QED
            BY <3>1
    <2> DEFINE i == v * width + u + 1
               j == y * width + x + 1
    <2>3. i # j
        BY <1>2, <1>3, <2>1, <2>2
    <2> HIDE DEF i, j
    <2>4. tiles'[i] = tiles[i]
        BY <1>0, <1>1, <1>3, <2>1, <2>3 DEF i, j
    <2> QED
        BY <2>4 DEF GetTile, i
<1>5. tiles' \in [1 .. (width * height) -> Tile]
    <2> DEFINE n == width * height
               j == y * width + x + 1
    <2>1. tiles \in [1 .. n -> Tile] /\ tiles' = [tiles EXCEPT ![j] = tile] /\ j \in 1 .. n
        BY <1>0, <1>1, <1>3
    <2> HIDE DEF n, j
    <2>2. tiles' \in [1 .. n -> Tile]
        BY <2>1
    <2> QED
        BY <2>2 DEF n
<1> QED
    BY <1>2, <1>4, <1>5

LEMMA TypedNext == Typed /\ [Next]_vars => Typed'
<1> SUFFICES ASSUME Typed, [Next]_vars PROVE Typed'
    OBVIOUS
<1>0. /\ TypeOK /\ text = CurrentTexts
      /\ width \in Nat \ {0} /\ height \in Nat \ {0} /\ width * height \in Nat
      /\ GridOK
    <2>1. width \in Sizes /\ height \in Sizes
        BY DEF Typed, TypeOK
    <2> QED
        BY <2>1, SizesPositive DEF Typed, TypeOK, GridOK
<1> DEFINE n == width * height
<1>a. /\ width \in Sizes /\ height \in Sizes /\ tiles \in [1 .. n -> Tile]
      /\ texture \in Images /\ lines \in 0 .. 2
      /\ initialized \in BOOLEAN /\ visible \in BOOLEAN /\ fontLoaded \in BOOLEAN
      /\ loaded \subseteq arrived /\ arrived \subseteq Images \cup {Font}
    BY <1>0 DEF TypeOK
<1>1. ASSUME NEW x \in 0 .. (Largest - 1), NEW y \in 0 .. (Largest - 1), NEW tile \in Tile,
             EditTile(x, y, tile)
      PROVE  Typed'
    <2>1. UNCHANGED <<lines, width, height, texture, textures, visible>> /\ RecomputeChunk(x, y)
          /\ text' = Texts
        BY <1>1 DEF EditTile, Rewrite
    <2>2. x \in 0 .. (width - 1) /\ y \in 0 .. (height - 1) /\ tiles' \in [1 .. n -> Tile]
        BY <1>0, <1>1, TileEdited
    <2>3. GridOK' /\ initialized' \in BOOLEAN
        <3> DEFINE cx == x \div ChunkSize
                   cy == y \div ChunkSize
                   b == ChunkBuffer(cx, cy)
        <3>1. CASE texture \in loaded
            <4>1. buffers' = [buffers EXCEPT ![cy][cx] = b] /\ initialized' = TRUE
                BY <2>1, <3>1 DEF RecomputeChunk
            <4> HIDE DEF cx, cy, b
            <4>2. DOMAIN buffers' = DOMAIN buffers
                  /\ \A v \in DOMAIN buffers : DOMAIN buffers'[v] = DOMAIN buffers[v]
                BY <4>1
            <4> QED
                BY <1>0, <2>1, <4>1, <4>2 DEF GridOK
        <3>2. CASE texture \notin loaded
            BY <1>0, <1>a, <2>1, <3>2 DEF RecomputeChunk, GridOK
        <3> QED
            BY <3>1, <3>2
    <2>4. Tile' = Tile /\ Texts = CurrentTexts'
        BY <2>1, TextsNow DEF Tile
    <2> QED
        BY <1>a, <2>1, <2>2, <2>3, <2>4 DEF Typed, TypeOK, GridOK, textures
<1>2. ASSUME NEW w \in Sizes, NEW h \in Sizes, Resize(w, h) PROVE Typed'
    <2>1. UNCHANGED <<lines, texture, textures, visible>> /\ Recompute /\ text' = Texts
          /\ width' = w /\ height' = h
        BY <1>2 DEF Resize, Rewrite
    <2>2. tiles' \in [1 .. (w * h) -> Tile]
        <3>0. w \in Nat \ {0} /\ h \in Nat \ {0}
            BY SizesPositive
        <3>1. CASE w # width
            <4>1. h = height /\ tiles' = SetWidth(tiles, width, height, w)
                BY <1>2, <3>1 DEF Resize
            <4> QED
                BY <1>0, <1>a, <3>0, <4>1, WidthSet DEF Resized
        <3>2. CASE w = width
            <4>1. tiles' = SetHeight(tiles, width, height, h)
                BY <1>2, <3>2 DEF Resize
            <4> QED
                BY <1>0, <1>a, <3>0, <3>2, <4>1, HeightSet DEF Resized
        <3> QED
            BY <3>1, <3>2
    <2>3. GridOK' /\ initialized' \in BOOLEAN
        BY <2>1, Recomputed
    <2>4. Tile' = Tile /\ Texts = CurrentTexts'
        BY <2>1, TextsNow DEF Tile
    <2> QED
        BY <1>a, <2>1, <2>2, <2>3, <2>4 DEF Typed, TypeOK, GridOK, textures
<1>3. ASSUME NEW i \in OwnImages, ChangeImage(i) PROVE Typed'
    <2>1. UNCHANGED <<layer, textures, visible>> /\ Recompute /\ text' = Texts
          /\ texture' = i /\ lines = 0
        BY <1>3 DEF ChangeImage, Rewrite
    <2>2. GridOK' /\ initialized' \in BOOLEAN
        BY <2>1, Recomputed
    <2>3. Tile' = Tile /\ Texts = CurrentTexts' /\ i \in Images
        BY <2>1, TextsNow DEF Tile, layer, OwnImages
    <2> QED
        BY <1>a, <2>1, <2>2, <2>3 DEF Typed, TypeOK, GridOK, textures, layer
<1>4. ASSUME NEW i \in OwnImages, OtherLayerDrawn(i) PROVE Typed'
    <2>1. UNCHANGED <<layer, card, texture, arrived, fontLoaded, visible>>
          /\ i \in arrived /\ loaded' = loaded \cup {i}
        BY <1>4 DEF OtherLayerDrawn
    <2>2. CurrentTexts' = CurrentTexts /\ Tile' = Tile
        BY <2>1, LayerKept
    <2> QED
        BY <1>0, <1>a, <2>1, <2>2 DEF Typed, TypeOK, GridOK, layer, card
<1>5. ASSUME NEW i \in OwnImages \cup {Font}, ImageArrives(i) PROVE Typed'
    <2>1. UNCHANGED <<layer, card, texture, loaded, fontLoaded, visible>>
          /\ arrived' = arrived \cup {i}
        BY <1>5 DEF ImageArrives
    <2>2. CurrentTexts' = CurrentTexts /\ Tile' = Tile
        BY <2>1, LayerKept
    <2>3. i \in Images \cup {Font}
        <3>1. (CHOOSE j \in Images : TRUE) \in Images
            BY ChoiceAssumption
        <3> QED
            BY <3>1 DEF OwnImages
    <2> QED
        BY <1>0, <1>a, <2>1, <2>2, <2>3 DEF Typed, TypeOK, GridOK, layer, card
<1>6. ASSUME NEW y \in 0 .. (Largest - 1), NEW tile \in Tile, Automap(y, tile) PROVE Typed'
    <2>1. UNCHANGED <<lines, width, height, texture, textures, visible>> /\ Recompute
          /\ text' = Texts
          /\ tiles' = [k \in DOMAIN tiles |-> IF (k - 1) \div width = y THEN tile ELSE tiles[k]]
        BY <1>6 DEF Automap, Rewrite
    <2>2. tiles' \in [1 .. n -> Tile]
        <3> HIDE DEF n
        <3> QED
            BY <1>a, <2>1
    <2>3. GridOK' /\ initialized' \in BOOLEAN
        BY <2>1, Recomputed
    <2>4. Tile' = Tile /\ Texts = CurrentTexts'
        BY <2>1, TextsNow DEF Tile
    <2> QED
        BY <1>a, <2>1, <2>2, <2>3, <2>4 DEF Typed, TypeOK, GridOK, textures
<1>7. ASSUME NEW v \in BOOLEAN, Show(v) PROVE Typed'
    <2>1. UNCHANGED <<layer, card, texture, textures>> /\ visible' = v
        BY <1>7 DEF Show
    <2>2. CurrentTexts' = CurrentTexts /\ Tile' = Tile
        BY <2>1, LayerKept
    <2> QED
        BY <1>0, <1>a, <2>1, <2>2 DEF Typed, TypeOK, GridOK, layer, card, textures
<1>8. ASSUME Frame PROVE Typed'
    <2>1. UNCHANGED <<layer, texture, arrived, visible, text>>
        BY <1>8 DEF Frame
    <2>2. CurrentTexts' = CurrentTexts /\ Tile' = Tile
        BY <2>1, LayerKept
    <2>3. fontLoaded' \in BOOLEAN
        <3>1. fontLoaded' = IF lines > 0 THEN Font \in arrived ELSE fontLoaded
            BY <1>8 DEF Frame, LoadFont
        <3>2. (Font \in arrived) \in BOOLEAN
            OBVIOUS
        <3>3. CASE lines > 0
            BY <3>1, <3>2, <3>3, Zenon
        <3>4. CASE ~ (lines > 0)
            BY <1>a, <3>1, <3>4, Zenon
        <3> QED
            BY <3>3, <3>4
    <2>4. GridOK' /\ initialized' \in BOOLEAN /\ loaded' \subseteq arrived
        <3>1. CASE buffers' = Grid(TRUE) /\ initialized' = TRUE /\ UNCHANGED loaded
            BY <1>a, <3>1, GridShapeNext
        <3>2. CASE loaded' = loaded \cup ({texture} \cap arrived) /\ UNCHANGED <<buffers, initialized>>
            BY <1>0, <1>a, <2>1, <3>2 DEF GridOK, layer
        <3>3. CASE UNCHANGED <<buffers, initialized, loaded>>
            BY <1>0, <1>a, <2>1, <3>3 DEF GridOK, layer
        <3> QED
            BY <1>8, <3>1, <3>2, <3>3 DEF Frame
    <2> QED
        BY <1>0, <1>a, <2>1, <2>2, <2>3, <2>4 DEF Typed, TypeOK, GridOK, layer
<1>9. CASE UNCHANGED vars
    <2>1. UNCHANGED <<layer, card, texture, textures, visible>>
        BY <1>9 DEF vars
    <2>2. CurrentTexts' = CurrentTexts /\ Tile' = Tile
        BY <2>1, LayerKept
    <2> QED
        BY <1>0, <1>a, <2>1, <2>2 DEF Typed, TypeOK, GridOK, layer, card, textures
<1> QED
    BY <1>1, <1>2, <1>3, <1>4, <1>5, <1>6, <1>7, <1>8, <1>9 DEF Next

(* Whatever the edits, the layer keeps its types, and the numbers that are
   written are those of its tiles. *)
THEOREM AlwaysTyped == Spec => []Typed
<1>1. Init => Typed
    BY TypedInit
<1>2. Typed /\ [Next]_vars => Typed'
    BY TypedNext
<1> QED
    BY <1>1, <1>2, PTL DEF Spec

LEMMA DigitsRead ==
    ASSUME NEW n \in ThreeDigits
    PROVE  /\ Clean(Digits(n))
           /\ 100 * Place(Digits(n))[1] + 10 * Place(Digits(n))[2] + Place(Digits(n))[3] = n
<1> DEFINE a == n \div 100
           b == (n \div 10) % 10
           c == n % 10
           d == Digits(n)
           p == Place(d)
<1>1. a \in 0 .. 9 /\ b \in 0 .. 9 /\ c \in 0 .. 9 /\ n = 100 * a + 10 * b + c
    BY DEF ThreeDigits
<1>2. SplitNumber(n) = <<a, b, c>>
    BY DEF SplitNumber
<1> HIDE DEF a, b, c
<1>3. /\ d[1] = IF a # 0 THEN a ELSE Clear
      /\ d[2] = IF a # 0 \/ b # 0 THEN b ELSE Clear
      /\ d[3] = c
    <2> DEFINE s == <<a, b, c>>
    <2>1. s[1] = a /\ s[2] = b /\ s[3] = c
        OBVIOUS
    <2>2. d = [k \in 1 .. 3 |-> IF k = 3 \/ \E j \in 1 .. k : s[j] # 0 THEN s[k] ELSE Clear]
        BY <1>2 DEF Digits
    <2> HIDE DEF s, d
    <2>3. (\E j \in 1 .. 1 : s[j] # 0) <=> a # 0
        <3>1. 1 .. 1 = {1}
            OBVIOUS
        <3> QED
            BY <2>1, <3>1
    <2>4. (\E j \in 1 .. 2 : s[j] # 0) <=> (a # 0 \/ b # 0)
        <3>1. 1 .. 2 = {1, 2}
            OBVIOUS
        <3> QED
            BY <2>1, <3>1
    <2>5. 1 \in 1 .. 3 /\ 2 \in 1 .. 3 /\ 3 \in 1 .. 3 /\ 1 # 3 /\ 2 # 3
        OBVIOUS
    <2> QED
        BY <2>1, <2>2, <2>3, <2>4, <2>5
<1> HIDE DEF d
<1>4. /\ p[1] = IF d[1] = Clear THEN 0 ELSE d[1]
      /\ p[2] = IF d[2] = Clear THEN 0 ELSE d[2]
      /\ p[3] = IF d[3] = Clear THEN 0 ELSE d[3]
    BY DEF Place
<1>5. p[1] = a /\ p[2] = b /\ p[3] = c
    BY <1>1, <1>3, <1>4 DEF Clear
<1> HIDE DEF p
<1>6. 100 * p[1] + 10 * p[2] + p[3] = n
    BY <1>1, <1>5
<1>7. Clean(d)
    <2>1. d[3] # Clear
        BY <1>1, <1>3 DEF Clear
    <2>2. d[2] = Clear => d[1] = Clear
        BY <1>1, <1>3 DEF Clear
    <2>3. \A k \in 1 .. 3 : k = 1 \/ k = 2 \/ k = 3
        OBVIOUS
    <2>4. /\ \A j \in 1 .. 1 : j = 1
          /\ \A j \in 1 .. 2 : j = 1 \/ j = 2
        OBVIOUS
    <2> QED
        BY <2>1, <2>2, <2>3, <2>4 DEF Clean
<1> QED
    BY <1>6, <1>7 DEF d, p

(* The numbers over the tiles are theirs, for tiles and layers of any      *)
(* number: makeNumberTexCoords leaves the leading zeros clear and no other *)
(* digit, and every edit, resize, automapping or change of image writes    *)
(* all texts anew.                                                         *)
THEOREM NumbersAreRead == Spec => []NumbersRead
<1>1. Typed => NumbersRead
    <2> SUFFICES ASSUME Typed PROVE NumbersRead
        OBVIOUS
    <2>1. text = {CurrentText(p[1], p[2]) : p \in Numbered}
        BY DEF Typed, CurrentTexts
    <2>2. \A p \in Numbered : <<p[1], p[2]>> = p
        BY DEF Numbered
    <2>3. \A c, k : CurrentText(c, k).at = c /\ CurrentText(c, k).line = k
        BY DEF CurrentText
    <2>4. {<<t.at, t.line>> : t \in text} = Numbered
        BY <2>1, <2>2, <2>3
    <2>5. ASSUME NEW t \in text
          PROVE  LET p == Place(t.digits)
                 IN /\ Clean(t.digits)
                    /\ 100 * p[1] + 10 * p[2] + p[3]
                         = GetTile(tiles, width, t.at[1], t.at[2]).numbers[t.line]
        <3>1. PICK p \in Numbered : t = CurrentText(p[1], p[2])
            BY <2>1
        <3> DEFINE x == p[1][1]
                   y == p[1][2]
                   k == p[2]
                   tile == GetTile(tiles, width, x, y)
        <3>2. x \in 0 .. (width - 1) /\ y \in 0 .. (height - 1) /\ k \in 1 .. lines
            BY DEF Numbered
        <3>3. tile \in Tile
            <4> HIDE DEF x, y
            <4>1. width \in Nat \ {0} /\ height \in Nat \ {0} /\ tiles \in [1 .. (width * height) -> Tile]
                BY SizesPositive DEF Typed, TypeOK
            <4>2. y * width + x + 1 \in 1 .. (width * height)
                BY <3>2, <4>1, CellInside
            <4> QED
                BY <4>1, <4>2 DEF GetTile
        <3>4. t.at = p[1] /\ t.line = k /\ t.digits = Digits(tile.numbers[k])
            BY <3>1 DEF CurrentText
        <3> HIDE DEF x, y, k, tile
        <3>5. tile.numbers[k] \in ThreeDigits
            <4>1. lines \in 0 .. 2
                BY DEF Typed, TypeOK
            <4> QED
                BY <3>2, <3>3, <4>1, NumberOf
        <3> DEFINE n == tile.numbers[k]
        <3>6. GetTile(tiles, width, t.at[1], t.at[2]).numbers[t.line] = n
            BY <3>4 DEF tile, x, y
        <3> HIDE DEF n
        <3>7. n \in ThreeDigits /\ t.digits = Digits(n)
            BY <3>4, <3>5 DEF n
        <3>8. /\ Clean(Digits(n))
              /\ 100 * Place(Digits(n))[1] + 10 * Place(Digits(n))[2] + Place(Digits(n))[3] = n
            BY <3>7, DigitsRead, ZenonT(30)
        <3>9. t.digits = Digits(n)
            BY <3>7
        <3> QED
            BY <3>6, <3>8, <3>9, Zenon
    <2> QED
        BY <2>4, <2>5 DEF NumbersRead, Numbered
<1> QED
    BY <1>1, AlwaysTyped, PTL

(* The walk over the chunks in view leaves no tile in view out, whatever    *)
(* the sizes of the chunks, the layer and the view and wherever it lies.    *)
THEOREM ViewIsCovered == Spec => []NoTileLeftOut
<1>1. Typed => NoTileLeftOut
    <2> SUFFICES ASSUME Typed, NEW h \in ViewBoxes, NEW v \in ViewBoxes,
                        NEW x \in 0 .. (width - 1), NEW y \in 0 .. (height - 1),
                        h[1] < x + 1, x < h[2], v[1] < y + 1, y < v[2]
                 PROVE  /\ x \div ChunkSize \in ChunksInView(h[1], h[2], Cardinality(DOMAIN buffers[0]))
                        /\ y \div ChunkSize \in ChunksInView(v[1], v[2], Cardinality(DOMAIN buffers))
        BY DEF NoTileLeftOut
    <2>1. width \in Nat \ {0} /\ height \in Nat \ {0}
        BY SizesPositive DEF Typed, TypeOK
    <2>2. h[1] \in Int /\ h[2] \in Int /\ v[1] \in Int /\ v[2] \in Int
        BY SizeAssumption
    <2>3. CeilDiv(height, ChunkSize) \in Nat \ {0} /\ CeilDiv(width, ChunkSize) \in Nat \ {0}
        BY <2>1, ChunkCount
    <2>4. /\ DOMAIN buffers = 0 .. (CeilDiv(height, ChunkSize) - 1)
          /\ \A cy \in DOMAIN buffers : DOMAIN buffers[cy] = 0 .. (CeilDiv(width, ChunkSize) - 1)
        BY DEF Typed, TypeOK
    <2>5. 0 \in DOMAIN buffers
        BY <2>3, <2>4
    <2>6. /\ Cardinality(DOMAIN buffers) = CeilDiv(height, ChunkSize)
          /\ Cardinality(DOMAIN buffers[0]) = CeilDiv(width, ChunkSize)
        BY <2>3, <2>4, <2>5, CountFromZero
    <2>7. x \div ChunkSize \in ChunksInView(h[1], h[2], CeilDiv(width, ChunkSize))
        BY <2>1, <2>2, InViewIsDrawn
    <2>8. y \div ChunkSize \in ChunksInView(v[1], v[2], CeilDiv(height, ChunkSize))
        BY <2>1, <2>2, InViewIsDrawn
    <2> QED
        BY <2>6, <2>7, <2>8
<1> QED
    BY <1>1, AlwaysTyped, PTL

(* Resizing a layer, of any size to any other, keeps every tile that stays *)
(* where it was, and the new ones are empty.                               *)
THEOREM TilesKeepTheirPlaces == Spec => ResizeKeepsTiles
<1> DEFINE Kept == <<width, height>>' # <<width, height>> =>
        \A x \in 0 .. (width' - 1), y \in 0 .. (height' - 1) :
            GetTile(tiles', width', x, y) =
                IF x < width /\ y < height THEN GetTile(tiles, width, x, y) ELSE DefaultTile
<1>1. Typed /\ [Next]_vars => [Kept]_vars
    <2> SUFFICES ASSUME Typed, Next, <<width, height>>' # <<width, height>> PROVE Kept
        OBVIOUS
    <2>1. PICK w \in Sizes, h \in Sizes : Resize(w, h)
        BY DEF Next, EditTile, ChangeImage, OtherLayerDrawn, ImageArrives, Automap, Show, Frame, layer
    <2>2. /\ w \in Nat \ {0} /\ h \in Nat \ {0} /\ width \in Nat \ {0} /\ height \in Nat \ {0}
          /\ lines \in 0 .. 2 /\ tiles \in [1 .. (width * height) -> Tile]
        BY SizesPositive DEF Typed, TypeOK
    <2>3. Resized(tiles', w, h, tiles, width, height)
        <3>1. CASE w # width
            <4>1. h = height /\ tiles' = SetWidth(tiles, width, height, w)
                BY <2>1, <3>1 DEF Resize
            <4> QED
                BY <2>2, <4>1, WidthSet
        <3>2. CASE w = width
            <4>1. tiles' = SetHeight(tiles, width, height, h)
                BY <2>1, <3>2 DEF Resize
            <4> QED
                BY <2>2, <3>2, <4>1, HeightSet
        <3> QED
            BY <3>1, <3>2
    <2>4. width' = w /\ height' = h
        BY <2>1 DEF Resize
    <2> QED
        BY <2>3, <2>4 DEF Resized
<1> QED
    BY <1>1, AlwaysTyped, PTL DEF Spec, ResizeKeepsTiles

-----------------------------------------------------------------------------
(* What is drawn *)

LEMMA AllOrNoneNext ==
    ASSUME ~ EarlyEdits
    PROVE  Typed /\ AllOrNone /\ [Next]_vars => AllOrNone'
<1> SUFFICES ASSUME Typed, AllOrNone, [Next]_vars PROVE AllOrNone'
    OBVIOUS
<1>0. /\ TypeOK /\ width \in Nat \ {0} /\ height \in Nat \ {0}
      /\ initialized => texture \in loaded
      /\ initialized \in BOOLEAN
      /\ buffers = CurrentGrid(initialized)
    BY SizesPositive DEF Typed, TypeOK, AllOrNone
<1>1. ASSUME NEW x \in 0 .. (Largest - 1), NEW y \in 0 .. (Largest - 1), NEW tile \in Tile,
             EditTile(x, y, tile)
      PROVE  AllOrNone'
    <2>1. UNCHANGED <<lines, width, height, texture, textures, visible>> /\ RecomputeChunk(x, y)
          /\ (initialized \/ texture \notin loaded)
        BY <1>1 DEF EditTile
    <2>2. /\ x \in 0 .. (width - 1) /\ y \in 0 .. (height - 1)
          /\ \A u \in 0 .. (width - 1), v \in 0 .. (height - 1) :
                <<u, v>> # <<x, y>> =>
                   GetTile(tiles', width, u, v) = GetTile(tiles, width, u, v)
        BY <1>0, <1>1, TileEdited
    <2>3. CASE texture \in loaded
        <3> DEFINE cx == x \div ChunkSize
                   cy == y \div ChunkSize
                   H == 0 .. (CeilDiv(height, ChunkSize) - 1)
                   W == 0 .. (CeilDiv(width, ChunkSize) - 1)
        <3>1. /\ buffers' = [buffers EXCEPT ![cy][cx] = ChunkBuffer(cx, cy)] /\ initialized' = TRUE
              /\ initialized = TRUE
            BY <1>0, <2>1, <2>3 DEF RecomputeChunk
        <3>2. cx \in W /\ cy \in H
            BY <1>0, <2>2, ChunkCount
        <3>3. buffers = [b \in H |-> [a \in W |-> Current(a, b)]]
            BY <1>0, <3>1 DEF CurrentGrid
        <3>4. ASSUME NEW a \in W, NEW b \in H, <<a, b>> # <<cx, cy>>
              PROVE  Current(a, b)' = Current(a, b)
            <4>1. CellsOf(width', height', a, b) = CellsOf(width, height, a, b)
                BY <2>1
            <4>2. ASSUME NEW d \in CellsOf(width, height, a, b)
                  PROVE  GetTile(tiles', width', d[1], d[2]) = GetTile(tiles, width, d[1], d[2])
                <5>1. d[1] \in 0 .. (width - 1) /\ d[2] \in 0 .. (height - 1)
                      /\ d[1] \div ChunkSize = a /\ d[2] \div ChunkSize = b
                    BY DEF CellsOf
                <5>2. <<d[1], d[2]>> # <<x, y>>
                    BY <3>4, <5>1
                <5> QED
                    BY <2>1, <2>2, <5>1, <5>2
            <4> DEFINE cells == CellsOf(width, height, a, b)
                       old == {d \in cells : GetTile(tiles, width, d[1], d[2]).id # 0}
                       new == {d \in cells : GetTile(tiles', width', d[1], d[2]).id # 0}
            <4>3. new = old
                BY <4>2
            <4>4. {[at |-> c, tile |-> GetTile(tiles', width', c[1], c[2]).id] : c \in new} =
                  {[at |-> c, tile |-> GetTile(tiles, width, c[1], c[2]).id] : c \in old}
                <5>1. \A c \in old : GetTile(tiles', width', c[1], c[2]) = GetTile(tiles, width, c[1], c[2])
                    BY <4>2
                <5> HIDE DEF new, old
                <5> QED
                    BY <4>3, <5>1
            <4>5. Current(a, b)' = [from |-> texture',
                     tiles |-> {[at |-> c, tile |-> GetTile(tiles', width', c[1], c[2]).id] : c \in new}]
                BY <4>1 DEF Current, GetTile, CellsOf
            <4>6. Current(a, b) = [from |-> texture,
                     tiles |-> {[at |-> c, tile |-> GetTile(tiles, width, c[1], c[2]).id] : c \in old}]
                BY DEF Current
            <4> QED
                BY <2>1, <4>4, <4>5, <4>6
        <3>5. ChunkBuffer(cx, cy) = Current(cx, cy)'
            BY DEF ChunkBuffer, Current
        <3> HIDE DEF H, W, cx, cy
        <3>6. buffers' = [b \in H |-> [a \in W |-> Current(a, b)']]
            <4>1. ASSUME NEW b \in H, NEW a \in W PROVE buffers'[b][a] = Current(a, b)'
                <5>1. CASE <<a, b>> = <<cx, cy>>
                    BY <3>1, <3>2, <3>3, <3>5, <5>1
                <5>2. CASE <<a, b>> # <<cx, cy>>
                    <6>1. buffers'[b][a] = buffers[b][a]
                        BY <3>1, <3>2, <3>3, <5>2
                    <6>2. buffers[b][a] = Current(a, b)
                        BY <3>3
                    <6> QED
                        BY <3>4, <5>2, <6>1, <6>2
                <5> QED
                    BY <5>1, <5>2
            <4>2. /\ buffers' = [b \in H |-> buffers'[b]]
                  /\ \A b \in H : buffers'[b] = [a \in W |-> buffers'[b][a]]
                BY <3>1, <3>2, <3>3
            <4> QED
                BY <4>1, <4>2
        <3>7. buffers' = CurrentGrid(TRUE)'
            BY <2>1, <3>6 DEF CurrentGrid, H, W
        <3> QED
            BY <2>1, <2>3, <3>1, <3>7 DEF AllOrNone, textures
    <2>4. CASE texture \notin loaded
        <3>1. initialized = FALSE /\ initialized' = FALSE /\ buffers' = buffers
            BY <1>0, <2>1, <2>4 DEF RecomputeChunk
        <3>2. CurrentGrid(FALSE)' = CurrentGrid(FALSE)
            BY <2>1 DEF CurrentGrid
        <3>3. buffers' = CurrentGrid(FALSE)'
            BY <1>0, <3>1, <3>2
        <3> QED
            BY <3>1, <3>3 DEF AllOrNone
    <2> QED
        BY <2>3, <2>4
<1>2. ASSUME Recompute, UNCHANGED textures PROVE AllOrNone'
    <2>1. loaded' = loaded
        BY <1>2 DEF textures
    <2> QED
        BY <1>2, <2>1, Recomputed DEF AllOrNone
<1>3. ASSUME UNCHANGED <<layer, texture, buffers, initialized>>, loaded \subseteq loaded'
      PROVE  AllOrNone'
    <2>1. CurrentGrid(initialized)' = CurrentGrid(initialized)
        BY <1>3, LayerKept DEF CurrentGrid
    <2> QED
        BY <1>0, <1>3, <2>1 DEF AllOrNone
<1>4. ASSUME Frame PROVE AllOrNone'
    <2>1. UNCHANGED <<layer, texture, arrived, visible, text>>
        BY <1>4 DEF Frame
    <2>2. CASE texture \in loaded /\ buffers' = Grid(TRUE) /\ initialized' = TRUE /\ UNCHANGED loaded
        <3>1. buffers' = CurrentGrid(TRUE)'
            BY <2>2, GridNow
        <3> QED
            BY <2>1, <2>2, <3>1 DEF AllOrNone, CurrentGrid
    <2>3. CASE loaded' = loaded \cup ({texture} \cap arrived) /\ UNCHANGED <<buffers, initialized>>
        BY <1>3, <2>1, <2>3
    <2>4. CASE UNCHANGED <<buffers, initialized, loaded>>
        BY <1>3, <2>1, <2>4
    <2> QED
        BY <1>4, <2>2, <2>3, <2>4 DEF Frame
<1>5. CASE Next
    <2>1. CASE \E w, h \in Sizes : Resize(w, h)
        BY <1>2, <2>1 DEF Resize
    <2>2. CASE \E i \in OwnImages : ChangeImage(i) \/ OtherLayerDrawn(i)
        BY <1>2, <1>3, <2>2 DEF ChangeImage, OtherLayerDrawn, card
    <2>3. CASE \E i \in OwnImages \cup {Font} : ImageArrives(i)
        BY <1>3, <2>3 DEF ImageArrives, card
    <2>4. CASE \E y \in 0 .. (Largest - 1), tile \in Tile : Automap(y, tile)
        BY <1>2, <2>4 DEF Automap
    <2>5. CASE \E v \in BOOLEAN : Show(v)
        BY <1>3, <2>5 DEF Show, card, textures
    <2> QED
        BY <1>1, <1>4, <1>5, <2>1, <2>2, <2>3, <2>4, <2>5 DEF Next
<1>6. CASE UNCHANGED vars
    BY <1>3, <1>6 DEF vars, card, textures
<1> QED
    BY <1>5, <1>6

(* A layer that is drawn shows the tiles and the texture it has now, in    *)
(* every chunk: as long as nobody edits between the frame that loads a     *)
(* texture and the frame that draws with it.                               *)
THEOREM ChunksAreCurrent == ASSUME ~ EarlyEdits PROVE Spec => []DrawnIsCurrent
<1>1. Init => Typed /\ AllOrNone
    BY TypedInit
<1>2. Typed /\ AllOrNone /\ [Next]_vars => Typed' /\ AllOrNone'
    BY TypedNext, AllOrNoneNext
<1>3. Typed /\ AllOrNone => DrawnIsCurrent
    BY DEF Typed, AllOrNone, CurrentGrid, DrawnIsCurrent
<1> QED
    BY <1>1, <1>2, <1>3, PTL DEF Spec

=============================================================================
