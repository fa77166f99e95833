------------------------------ MODULE SeqFacts ------------------------------
(***************************************************************************)
(* The first and the last of a set of positions, what the removal and the  *)
(* insertion of an element make of a sequence, and the values of folds.    *)
(* Lists are edited that way everywhere: the map's images, envelopes,      *)
(* groups, layers and quads, and the client's list of what can be undone.  *)
(***************************************************************************)
EXTENDS Integers, SequencesExt, SequenceTheorems, WellFoundedInduction, TLAPS

-----------------------------------------------------------------------------
(* Positions *)

LEMMA Less == OpToRel(<, Nat) = {p \in Nat \X Nat : p[1] < p[2]}
BY DEF OpToRel

(* A set of positions that is not empty has a first one and a last one. *)
LEMMA FirstPosition ==
    ASSUME NEW S \in SUBSET Nat, S # {}
    PROVE  \E i \in S : \A j \in S : i <= j
<1>1. PICK i \in S : \A j \in S : ~ (<<j, i>> \in OpToRel(<, Nat))
    BY NatLessThanWellFounded, WFMin
<1>2. ASSUME NEW j \in S PROVE i <= j
    <2>1. <<j, i>> \notin {p \in Nat \X Nat : p[1] < p[2]}
        BY <1>1, Less
    <2> QED
        BY <2>1
<1> QED
    BY <1>2

LEMMA LastPosition ==
    ASSUME NEW n \in Nat, NEW S \in SUBSET (1 .. n), S # {}
    PROVE  \E i \in S : \A j \in S : j <= i
<1> DEFINE T == {n - i : i \in S}
<1>1. \A i \in S : i \in Nat /\ n - i \in Nat
    OBVIOUS
<1>2. T \subseteq Nat /\ T # {}
    BY <1>1, Zenon
<1>3. PICK t \in T : \A u \in T : t <= u
    BY <1>2, FirstPosition
<1>4. PICK i \in S : t = n - i
    OBVIOUS
<1>5. ASSUME NEW j \in S PROVE j <= i
    <2>1. n - j \in T
        OBVIOUS
    <2>2. n - i <= n - j
        BY <1>3, <1>4, <2>1
    <2> QED
        BY <1>1, <2>2
<1> QED
    BY <1>5

-----------------------------------------------------------------------------
(* Lists that are edited *)

(* Without its element i, a sequence is what stood before and behind it. *)
LEMMA RemovedFrom ==
    ASSUME NEW S, NEW s \in Seq(S), NEW i \in 1 .. Len(s)
    PROVE  /\ RemoveAt(s, i) \in Seq(S)
           /\ Len(RemoveAt(s, i)) = Len(s) - 1
           /\ \A j \in 1 .. Len(s) - 1 :
                 RemoveAt(s, i)[j] = IF j < i THEN s[j] ELSE s[j + 1]
<1> DEFINE a == SubSeq(s, 1, i - 1)
           b == SubSeq(s, i + 1, Len(s))
<1>0. Len(s) \in Nat /\ i \in Int /\ \A j \in 1 .. Len(s) : s[j] \in S
    BY ElementOfSeq, LenProperties
<1>1. a \in Seq(S) /\ Len(a) = i - 1 /\ \A j \in 1 .. i - 1 : a[j] = s[j]
    BY <1>0, SubSeqProperties
<1>2. b \in Seq(S) /\ Len(b) = Len(s) - i /\ \A j \in 1 .. Len(s) - i : b[j] = s[i + j]
    BY <1>0, SubSeqProperties
<1> HIDE DEF a, b
<1>3. /\ a \o b \in Seq(S)
      /\ Len(a \o b) = Len(a) + Len(b)
      /\ \A j \in 1 .. Len(a) + Len(b) : (a \o b)[j] =
            IF j <= Len(a) THEN a[j] ELSE b[j - Len(a)]
    BY <1>1, <1>2, ConcatProperties
<1>4. RemoveAt(s, i) = a \o b
    BY DEF RemoveAt, a, b
<1>5. ASSUME NEW j \in 1 .. Len(s) - 1
      PROVE  (a \o b)[j] = IF j < i THEN s[j] ELSE s[j + 1]
    <2>0. j \in Int /\ (j < i \/ j >= i)
        BY <1>0
    <2>1. CASE j < i
        <3>1. j <= Len(a) /\ j \in 1 .. i - 1 /\ j \in 1 .. Len(a) + Len(b)
            BY <1>0, <1>1, <1>2, <2>0, <2>1
        <3>2. (a \o b)[j] = a[j] /\ a[j] = s[j]
            BY <1>1, <1>3, <3>1
        <3> QED
            BY <2>1, <3>2
    <2>2. CASE j >= i
        <3>1. j - Len(a) \in 1 .. Len(s) - i /\ i + (j - Len(a)) = j + 1
            BY <1>0, <1>1, <2>0, <2>2
        <3>2. ~ (j <= Len(a)) /\ j \in 1 .. Len(a) + Len(b) /\ ~ (j < i)
            BY <1>0, <1>1, <1>2, <2>0, <2>2
        <3>3. (a \o b)[j] = b[j - Len(a)]
            BY <1>3, <3>2
        <3>4. b[j - Len(a)] = s[i + (j - Len(a))]
            BY <1>2, <3>1
        <3> QED
            BY <3>1, <3>2, <3>3, <3>4
    <2> QED
        BY <2>0, <2>1, <2>2
<1> QED
    BY <1>0, <1>1, <1>2, <1>3, <1>4, <1>5

(* With e inserted at i, what stood at i and behind moves one place back. *)
LEMMA InsertedInto ==
    ASSUME NEW S, NEW s \in Seq(S), NEW i \in 1 .. Len(s) + 1, NEW e \in S
    PROVE  /\ InsertAt(s, i, e) \in Seq(S)
           /\ Len(InsertAt(s, i, e)) = Len(s) + 1
           /\ \A j \in 1 .. Len(s) + 1 :
                 InsertAt(s, i, e)[j] = IF j < i THEN s[j] ELSE IF j = i THEN e ELSE s[j - 1]
<1> DEFINE a == SubSeq(s, 1, i - 1)
           one == <<e>>
           b == SubSeq(s, i, Len(s))
           c == a \o one
<1>0. Len(s) \in Nat /\ i \in Int /\ \A j \in 1 .. Len(s) : s[j] \in S
    BY ElementOfSeq, LenProperties
<1>1. a \in Seq(S) /\ Len(a) = i - 1 /\ \A j \in 1 .. i - 1 : a[j] = s[j]
    BY <1>0, SubSeqProperties
<1>2. b \in Seq(S) /\ Len(b) = Len(s) - i + 1 /\ \A j \in 1 .. Len(s) - i + 1 : b[j] = s[i + j - 1]
    BY <1>0, SubSeqProperties
<1>3. one \in Seq(S) /\ Len(one) = 1 /\ one[1] = e
    OBVIOUS
<1> HIDE DEF a, one, b
<1>4. /\ c \in Seq(S)
      /\ Len(c) = Len(a) + Len(one)
      /\ \A j \in 1 .. Len(a) + Len(one) : c[j] = IF j <= Len(a) THEN a[j] ELSE one[j - Len(a)]
    BY <1>1, <1>3, ConcatProperties
<1>5. InsertAt(s, i, e) = c \o b
    BY DEF InsertAt, a, one, b
<1> HIDE DEF c
<1>6. /\ c \o b \in Seq(S)
      /\ Len(c \o b) = Len(c) + Len(b)
      /\ \A j \in 1 .. Len(c) + Len(b) : (c \o b)[j] = IF j <= Len(c) THEN c[j] ELSE b[j - Len(c)]
    <2>1. c \in Seq(S) /\ b \in Seq(S)
        BY <1>2, <1>4
    <2> QED
        BY <2>1, ConcatProperties
<1>7. ASSUME NEW j \in 1 .. Len(s) + 1
      PROVE  (c \o b)[j] = IF j < i THEN s[j] ELSE IF j = i THEN e ELSE s[j - 1]
    <2>1. j \in Int /\ Len(c) = i /\ j \in 1 .. Len(c) + Len(b)
        BY <1>0, <1>1, <1>2, <1>3, <1>4
    <2>2. CASE j < i
        <3>1. j \in 1 .. i - 1 /\ j \in 1 .. Len(a) + Len(one) /\ j <= Len(a) /\ j <= Len(c)
            BY <1>0, <1>1, <1>3, <2>1, <2>2
        <3>2. (c \o b)[j] = c[j] /\ c[j] = a[j] /\ a[j] = s[j]
            BY <1>1, <1>4, <1>6, <2>1, <3>1
        <3> QED
            BY <2>2, <3>2
    <2>3. CASE j = i
        <3>1. j - Len(a) = 1 /\ ~ (j <= Len(a)) /\ j \in 1 .. Len(a) + Len(one) /\ j <= Len(c)
            BY <1>0, <1>1, <1>3, <2>1, <2>3
        <3> QED
            BY <1>3, <1>4, <1>6, <2>1, <2>3, <3>1
    <2>4. CASE j > i
        <3>1. j - Len(c) \in 1 .. Len(s) - i + 1 /\ i + (j - Len(c)) - 1 = j - 1 /\ ~ (j <= Len(c))
            BY <1>0, <2>1, <2>4
        <3>2. (c \o b)[j] = b[j - Len(c)]
            BY <1>6, <2>1, <3>1
        <3>3. b[j - Len(c)] = s[i + (j - Len(c)) - 1]
            BY <1>2, <3>1
        <3>4. s[i + (j - Len(c)) - 1] = s[j - 1]
            BY <3>1
        <3>5. ~ (j < i) /\ j # i
            BY <1>0, <2>1, <2>4
        <3> QED
            BY <3>2, <3>3, <3>4, <3>5, Zenon
    <2> QED
        BY <1>0, <2>1, <2>2, <2>3, <2>4
<1> QED
    BY <1>0, <1>1, <1>2, <1>3, <1>4, <1>5, <1>6, <1>7

-----------------------------------------------------------------------------
(* Folds *)

(* The greatest of a set of positions, as the folds find it. *)
LEMMA Greatest ==
    ASSUME NEW k \in Nat \ {0}, NEW s \in SUBSET (1 .. k), k \in s
    PROVE  Max(s) = k
<1>1. \A y \in s : k >= y
    OBVIOUS
<1>2. ASSUME NEW x \in s, \A y \in s : x >= y PROVE x = k
    BY <1>1, <1>2
<1> QED
    BY <1>1, <1>2 DEF Max

LEMMA GreatestBelow ==
    ASSUME NEW k \in Nat, NEW s \in SUBSET (1 .. k), s # {}
    PROVE  Max(s) \in s /\ \A y \in s : y <= Max(s)
<1>1. PICK x \in s : \A y \in s : y <= x
    BY LastPosition
<1>2. x \in s /\ \A y \in s : x >= y
    BY <1>1
<1>3. Max(s) \in s /\ \A y \in s : Max(s) >= y
    BY <1>2, Zenon DEF Max
<1> QED
    BY <1>3

(* What holds of 0, and of each position when it holds of the one before,  *)
(* holds of all positions.                                                 *)
LEMMA AllPositions ==
    ASSUME NEW n \in Nat, NEW S, 0 \in S, \A k \in 1 .. n : k - 1 \in S => k \in S
    PROVE  0 .. n \subseteq S
<1> DEFINE bad == (0 .. n) \ S
<1>1. SUFFICES ASSUME bad # {} PROVE FALSE
    OBVIOUS
<1>2. PICK k \in bad : \A j \in bad : k <= j
    <2>1. bad \in SUBSET Nat
        OBVIOUS
    <2> HIDE DEF bad
    <2> QED
        BY <1>1, <2>1, FirstPosition
<1>3. k \in 0 .. n /\ k \notin S /\ k # 0
    BY <1>2
<1>4. k - 1 \in 0 .. n /\ k \in 1 .. n /\ ~ (k <= k - 1)
    BY <1>3
<1>5. k - 1 \in S
    BY <1>2, <1>4
<1> QED
    BY <1>3, <1>4, <1>5

(* A fold over the positions of a sequence is defined for every set of     *)
(* positions; that there is such a function has to be shown.               *)
IsFold(f, V, base, F, n) ==
    /\ f \in [SUBSET (1 .. n) -> V]
    /\ \A s \in SUBSET (1 .. n) :
          f[s] = IF s = {} THEN base ELSE F[<<Max(s), f[s \ {Max(s)}]>>]

LEMMA FoldExists ==
    ASSUME NEW V, NEW base \in V, NEW n \in Nat, NEW F \in [(1 .. n) \X V -> V]
    PROVE  \E f : IsFold(f, V, base, F, n)
<1> DEFINE S == {k \in 0 .. n : \E f : IsFold(f, V, base, F, k)}
<1>1. 0 \in S
    <2> DEFINE f == [s \in SUBSET (1 .. 0) |-> base]
    <2>1. f \in [SUBSET (1 .. 0) -> V]
        OBVIOUS
    <2>2. \A s \in SUBSET (1 .. 0) : s = {} /\ f[s] = base
        OBVIOUS
    <2> HIDE DEF f
    <2>3. IsFold(f, V, base, F, 0)
        BY <2>1, <2>2 DEF IsFold
    <2> QED
        BY <2>3
<1>2. ASSUME NEW k \in 1 .. n, k - 1 \in S PROVE k \in S
    <2> DEFINE m == k - 1
    <2>1. m \in Nat /\ k \in Nat \ {0} /\ k = m + 1
        OBVIOUS
    <2>2. PICK f : IsFold(f, V, base, F, m)
        BY <1>2
    <2>9. /\ f \in [SUBSET (1 .. m) -> V]
          /\ \A s \in SUBSET (1 .. m) :
                f[s] = IF s = {} THEN base ELSE F[<<Max(s), f[s \ {Max(s)}]>>]
        BY <2>2 DEF IsFold
    <2> DEFINE g == [s \in SUBSET (1 .. k) |->
                       IF k \in s THEN F[<<k, f[s \ {k}]>>] ELSE f[s]]
    <2>3. g \in [SUBSET (1 .. k) -> V]
        <3>1. ASSUME NEW s \in SUBSET (1 .. k) PROVE g[s] \in V
            <4>1. CASE k \in s
                <5>1. s \ {k} \in SUBSET (1 .. m)
                    BY <2>1
                <5>2. f[s \ {k}] \in V
                    BY <2>9, <5>1
                <5>3. <<k, f[s \ {k}]>> \in (1 .. n) \X V
                    BY <5>2
                <5> QED
                    BY <4>1, <5>3
            <4>2. CASE k \notin s
                <5>1. s \in SUBSET (1 .. m)
                    BY <2>1, <4>2
                <5> QED
                    BY <2>9, <4>2, <5>1
            <4> QED
                BY <4>1, <4>2
        <3>2. g = [s \in SUBSET (1 .. k) |-> g[s]]
            OBVIOUS
        <3> HIDE DEF g
        <3> QED
            BY <3>1, <3>2
    <2>4. ASSUME NEW s \in SUBSET (1 .. k)
          PROVE  g[s] = IF s = {} THEN base ELSE F[<<Max(s), g[s \ {Max(s)}]>>]
        <3>1. CASE k \in s
            <4>1. Max(s) = k
                BY <2>1, <3>1, Greatest
            <4>2. s \ {k} \in SUBSET (1 .. k) /\ k \notin s \ {k}
                OBVIOUS
            <4>3. g[s \ {k}] = f[s \ {k}]
                BY <4>2
            <4>4. g[s] = F[<<k, f[s \ {k}]>>]
                BY <3>1
            <4> HIDE DEF g
            <4> QED
                BY <3>1, <4>1, <4>3, <4>4
        <3>2. CASE k \notin s
            <4>1. s \in SUBSET (1 .. m) /\ g[s] = f[s]
                BY <2>1, <3>2
            <4>2. f[s] = IF s = {} THEN base ELSE F[<<Max(s), f[s \ {Max(s)}]>>]
                BY <2>9, <4>1
            <4>3. s \ {Max(s)} \in SUBSET (1 .. k) /\ k \notin s \ {Max(s)}
                BY <3>2
            <4>4. g[s \ {Max(s)}] = f[s \ {Max(s)}]
                BY <4>3
            <4> HIDE DEF g
            <4> QED
                BY <4>1, <4>2, <4>4
        <3> QED
            BY <3>1, <3>2
    <2> HIDE DEF g
    <2>5. IsFold(g, V, base, F, k)
        BY <2>3, <2>4 DEF IsFold
    <2> QED
        BY <2>5
<1> HIDE DEF S
<1>3. 0 .. n \subseteq S
    BY <1>1, <1>2, AllPositions
<1>4. n \in S
    BY <1>3
<1> QED
    BY <1>4 DEF S

LEMMA UpTo ==
    ASSUME NEW n \in Nat, NEW k \in 1 .. n
    PROVE  /\ 1 .. k \in SUBSET (1 .. n) /\ 1 .. k # {} /\ (1 .. k) \ {k} = 1 .. (k - 1)
           /\ Max(1 .. k) = k
<1>1. 1 .. k \in SUBSET (1 .. n) /\ 1 .. k # {}
    <2>1. k \in 1 .. k
        OBVIOUS
    <2> QED
        BY <2>1
<1>2. (1 .. k) \ {k} = 1 .. (k - 1)
    OBVIOUS
<1>3. Max(1 .. k) = k
    <2>1. k \in Nat \ {0} /\ 1 .. k \in SUBSET (1 .. k) /\ k \in 1 .. k
        OBVIOUS
    <2> QED
        BY <2>1, Greatest
<1> QED
    BY <1>1, <1>2, <1>3

(* The values of a fold, position by position. *)
LEMMA FoldSteps ==
    ASSUME NEW V, NEW base \in V, NEW n \in Nat, NEW F \in [(1 .. n) \X V -> V],
           NEW f, IsFold(f, V, base, F, n)
    PROVE  /\ f[1 .. 0] = base
           /\ \A k \in 1 .. n : f[1 .. k] = F[<<k, f[1 .. (k - 1)]>>]
           /\ \A k \in 0 .. n : f[1 .. k] \in V
<1>0. /\ f \in [SUBSET (1 .. n) -> V]
      /\ \A s \in SUBSET (1 .. n) :
            f[s] = IF s = {} THEN base ELSE F[<<Max(s), f[s \ {Max(s)}]>>]
    BY DEF IsFold
<1>1. f[1 .. 0] = base
    <2>1. 1 .. 0 = {} /\ {} \in SUBSET (1 .. n)
        OBVIOUS
    <2> QED
        BY <1>0, <2>1
<1>2. ASSUME NEW k \in 1 .. n PROVE f[1 .. k] = F[<<k, f[1 .. (k - 1)]>>]
    <2>1. /\ 1 .. k \in SUBSET (1 .. n) /\ 1 .. k # {} /\ (1 .. k) \ {k} = 1 .. (k - 1)
          /\ Max(1 .. k) = k
        BY UpTo
    <2> QED
        BY <1>0, <2>1
<1> DEFINE S == {k \in 0 .. n : f[1 .. k] \in V}
<1>3. 0 .. n \subseteq S
    <2>1. 0 \in S
        BY <1>1
    <2>2. ASSUME NEW k \in 1 .. n, k - 1 \in S PROVE k \in S
        <3>1. 1 .. k \in SUBSET (1 .. n) /\ k \in 0 .. n
            OBVIOUS
        <3>2. f[1 .. k] \in V
            BY <1>0, <3>1
        <3> QED
            BY <3>1, <3>2
    <2> HIDE DEF S
    <2> QED
        BY <2>1, <2>2, AllPositions
<1> QED
    BY <1>1, <1>2, <1>3

Laid(t, i, seqs, T, m) ==
    /\ t \in Seq(T) /\ Len(t) = m * i
    /\ \A q \in 1 .. i, k \in 1 .. m : t[m * (q - 1) + k] = seqs[q][k]

(* A row of pieces of one length, laid end to end, has the k-th element of *)
(* the q-th piece where counting puts it.                                  *)
LEMMA Flattened ==
    ASSUME NEW T, NEW m \in Nat, NEW seqs \in Seq(Seq(T)),
           \A q \in 1 .. Len(seqs) : Len(seqs[q]) = m
    PROVE  Laid(FlattenSeq(seqs), Len(seqs), seqs, T, m)
<1> DEFINE n == Len(seqs)
           F == [p \in (1 .. n) \X Seq(T) |->
                   IF p[1] = 1 THEN seqs[1] ELSE p[2] \o seqs[p[1]]]
<1>1. n \in Nat /\ \A q \in 1 .. n : seqs[q] \in Seq(T)
    BY ElementOfSeq, LenProperties
<1>2. CASE n = 0
    <2>1. seqs = <<>> /\ FlattenSeq(seqs) = seqs
        BY <1>2, EmptySeq DEF FlattenSeq
    <2>2. <<>> \in Seq(T) /\ Len(<<>>) = 0 /\ m * 0 = 0 /\ 1 .. 0 = {}
        OBVIOUS
    <2> QED
        BY <1>2, <2>1, <2>2 DEF Laid
<1>3. CASE n # 0
    <2> DEFINE g == CHOOSE g : g = [i \in 1 .. n |-> IF i = 1 THEN seqs[i] ELSE g[i - 1] \o seqs[i]]
    <2>1. FlattenSeq(seqs) = g[n]
        BY <1>3 DEF FlattenSeq
    <2>2. g = [i \in 1 .. n |-> IF i = 1 THEN seqs[i] ELSE g[i - 1] \o seqs[i]]
        <3>1. F \in [(1 .. n) \X Seq(T) -> Seq(T)]
            <4>1. ASSUME NEW p \in (1 .. n) \X Seq(T)
                  PROVE  (IF p[1] = 1 THEN seqs[1] ELSE p[2] \o seqs[p[1]]) \in Seq(T)
                <5>1. p[1] \in 1 .. n /\ p[2] \in Seq(T) /\ 1 \in 1 .. n
                    BY <1>1, <1>3
                <5> HIDE DEF n
                <5>2. seqs[1] \in Seq(T) /\ seqs[p[1]] \in Seq(T)
                    BY <1>1, <5>1
                <5> QED
                    BY <5>1, <5>2, ConcatProperties
            <4> QED
                BY <4>1
        <3>2. <<>> \in Seq(T)
            OBVIOUS
        <3> HIDE DEF F
        <3> HIDE DEF n
        <3>3. PICK f : IsFold(f, Seq(T), <<>>, F, n)
            BY <1>1, <3>1, <3>2, FoldExists
        <3>4. /\ f[1 .. 0] = <<>>
              /\ \A k \in 1 .. n : f[1 .. k] = F[<<k, f[1 .. (k - 1)]>>]
              /\ \A k \in 0 .. n : f[1 .. k] \in Seq(T)
            BY <1>1, <3>1, <3>2, <3>3, FoldSteps, Zenon
        <3> DEFINE h == [i \in 1 .. n |-> f[1 .. i]]
        <3>5. ASSUME NEW i \in 1 .. n
              PROVE  h[i] = IF i = 1 THEN seqs[i] ELSE h[i - 1] \o seqs[i]
            <4>1. i - 1 \in 0 .. n /\ (i # 1 => i - 1 \in 1 .. n)
                BY <1>1
            <4>2. f[1 .. (i - 1)] \in Seq(T)
                BY <3>4, <4>1
            <4>3. <<i, f[1 .. (i - 1)]>> \in (1 .. n) \X Seq(T)
                BY <4>2
            <4>4. F[<<i, f[1 .. (i - 1)]>>] = IF i = 1 THEN seqs[1] ELSE f[1 .. (i - 1)] \o seqs[i]
                BY <4>3 DEF F
            <4>5. h[i] = F[<<i, f[1 .. (i - 1)]>>]
                BY <3>4
            <4>6. i # 1 => h[i - 1] = f[1 .. (i - 1)]
                BY <4>1
            <4> HIDE DEF h
            <4> QED
                BY <4>4, <4>5, <4>6
        <3>6. h = [i \in 1 .. n |-> h[i]]
            OBVIOUS
        <3> HIDE DEF h
        <3>7. h = [i \in 1 .. n |-> IF i = 1 THEN seqs[i] ELSE h[i - 1] \o seqs[i]]
            BY <3>5, <3>6
        <3> QED
            BY <3>7, Zenon
    <2> HIDE DEF g
    <2> DEFINE S == {i \in 0 .. n : i = 0 \/ Laid(g[i], i, seqs, T, m)}
    <2>3. ASSUME NEW i \in 1 .. n, i - 1 \in S PROVE i \in S
        <3>1. CASE i = 1
            <4>1. g[1] = seqs[1] /\ 1 \in 1 .. n
                BY <1>1, <1>3, <2>2
            <4>2. seqs[1] \in Seq(T) /\ Len(seqs[1]) = m /\ m * 1 = m /\ m * (1 - 1) = 0
                BY <1>1, <4>1
            <4>3. \A q \in 1 .. 1, k \in 1 .. m : g[1][m * (q - 1) + k] = seqs[q][k]
                BY <4>1, <4>2
            <4>4. Laid(g[1], 1, seqs, T, m)
                BY <4>1, <4>2, <4>3 DEF Laid
            <4> QED
                BY <3>1, <4>1, <4>4
        <3>2. CASE i # 1
            <4> DEFINE a == g[i - 1]
                       b == seqs[i]
            <4>1. /\ a \in Seq(T) /\ Len(a) = m * (i - 1)
                  /\ \A q \in 1 .. i - 1, k \in 1 .. m : a[m * (q - 1) + k] = seqs[q][k]
                <5>1. Laid(g[i - 1], i - 1, seqs, T, m)
                    BY <2>3, <3>2
                <5> QED
                    BY <5>1 DEF Laid
            <4>2. b \in Seq(T) /\ Len(b) = m /\ g[i] = a \o b
                BY <1>1, <2>2, <3>2
            <4> HIDE DEF a, b
            <4>3. /\ a \o b \in Seq(T) /\ Len(a \o b) = Len(a) + Len(b)
                  /\ \A j \in 1 .. Len(a) + Len(b) :
                        (a \o b)[j] = IF j <= Len(a) THEN a[j] ELSE b[j - Len(a)]
                BY <4>1, <4>2, ConcatProperties
            <4>4. m * (i - 1) + m = m * i /\ i \in Nat /\ m * (i - 1) \in Nat
                BY <1>1
            <4>5. ASSUME NEW q \in 1 .. i, NEW k \in 1 .. m
                  PROVE  (a \o b)[m * (q - 1) + k] = seqs[q][k]
                <5>1. CASE q = i
                    <6>1. /\ m * (i - 1) + k \in 1 .. Len(a) + Len(b)
                          /\ ~ (m * (i - 1) + k <= Len(a)) /\ (m * (i - 1) + k) - Len(a) = k
                        <7> DEFINE z == m * (i - 1)
                        <7>1. z \in Nat /\ Len(a) = z /\ Len(b) = m
                            BY <4>1, <4>2, <4>4
                        <7> HIDE DEF z
                        <7>2. z + k \in 1 .. z + m /\ ~ (z + k <= z) /\ (z + k) - z = k
                            BY <7>1
                        <7> QED
                            BY <7>1, <7>2 DEF z
                    <6>2. (a \o b)[m * (i - 1) + k] = b[k]
                        BY <4>3, <6>1
                    <6> QED
                        BY <5>1, <6>2 DEF b
                <5>2. CASE q # i
                    <6>1. q \in 1 .. i - 1 /\ q - 1 \in Nat /\ i - 1 \in Nat /\ q - 1 + 1 <= i - 1
                        BY <4>4, <5>2
                    <6>2. m * (q - 1) + m <= m * (i - 1) /\ m * (q - 1) \in Nat
                        <7>1. \A x, y \in Nat : x + 1 <= y => m * x + m <= m * y /\ m * x \in Nat
                            <8>1. ASSUME NEW x \in Nat, NEW y \in Nat, x + 1 <= y
                                  PROVE  m * x + m <= m * y /\ m * x \in Nat
                                <9>1. PICK d \in Nat : y = (x + 1) + d
                                    <10>1. y - (x + 1) \in Nat /\ y = (x + 1) + (y - (x + 1))
                                        BY <8>1
                                    <10> QED
                                        BY <10>1
                                <9>2. m * y = m * x + m + m * d /\ m * d \in Nat /\ m * x \in Nat
                                    BY <9>1
                                <9> QED
                                    BY <9>2
                            <8> QED
                                BY <8>1
                        <7> QED
                            BY <6>1, <7>1
                    <6>3. m * (q - 1) + k \in 1 .. Len(a) + Len(b) /\ m * (q - 1) + k <= Len(a)
                        <7> DEFINE z == m * (i - 1)
                                   y == m * (q - 1)
                        <7>1. z \in Nat /\ Len(a) = z /\ Len(b) = m /\ y \in Nat /\ y + m <= z
                            BY <4>1, <4>2, <4>4, <6>2
                        <7> HIDE DEF z, y
                        <7>2. y + k \in 1 .. z + m /\ y + k <= z
                            BY <7>1
                        <7> QED
                            BY <7>1, <7>2 DEF y
                    <6>4. (a \o b)[m * (q - 1) + k] = a[m * (q - 1) + k]
                        BY <4>3, <6>3
                    <6> QED
                        BY <4>1, <6>1, <6>4
                <5> QED
                    BY <5>1, <5>2
            <4>6. Len(a \o b) = m * i
                BY <4>1, <4>2, <4>3, <4>4
            <4>7. Laid(a \o b, i, seqs, T, m)
                BY <4>3, <4>5, <4>6, Zenon DEF Laid
            <4>8. i \in 0 .. n
                BY <1>1
            <4> QED
                BY <4>2, <4>7, <4>8
        <3> QED
            BY <3>1, <3>2
    <2>4. 0 \in S
        BY <1>1
    <2> HIDE DEF S
    <2>5. 0 .. n \subseteq S
        BY <1>1, <2>3, <2>4, AllPositions
    <2>6. n \in S
        BY <1>1, <2>5
    <2> QED
        BY <1>3, <2>1, <2>6 DEF S
<1> QED
    BY <1>2, <1>3

(* Of a sequence of records, those that are tracked, in order. *)
LEMMA KeptSteps ==
    ASSUME NEW T, NEW cs \in Seq(T)
    PROVE  \E h \in [0 .. Len(cs) -> Seq({c \in T : c.tracked})] :
              /\ h[0] = <<>>
              /\ \A k \in 1 .. Len(cs) :
                    h[k] = IF cs[k].tracked THEN Append(h[k - 1], cs[k]) ELSE h[k - 1]
              /\ FoldLeft(LAMBDA kept, c : IF c.tracked THEN Append(kept, c) ELSE kept, <<>>, cs)
                    = h[Len(cs)]
<1> DEFINE n == Len(cs)
           K == {c \in T : c.tracked}
           V == Seq(K)
           G(t, k) == IF cs[k].tracked THEN Append(t, cs[k]) ELSE t
           F == [p \in (1 .. n) \X V |-> G(p[2], p[1])]
           g == CHOOSE g : g = [s \in SUBSET (1 .. n) |->
                  IF s = {} THEN <<>> ELSE G(g[s \ {Max(s)}], Max(s))]
<1>1. n \in Nat /\ \A k \in 1 .. n : cs[k] \in T
    BY ElementOfSeq, LenProperties
<1>2. FoldLeft(LAMBDA kept, c : IF c.tracked THEN Append(kept, c) ELSE kept, <<>>, cs)
         = g[1 .. n]
    <2>1. DOMAIN cs = 1 .. n
        BY LenProperties
    <2> HIDE DEF n
    <2> QED
        BY <2>1, Zenon DEF FoldLeft, MapThenFoldSet
<1> HIDE DEF n
<1>3. \A t \in V, k \in 1 .. n : G(t, k) \in V
    <2>1. ASSUME NEW t \in V, NEW k \in 1 .. n PROVE G(t, k) \in V
        <3>1. cs[k] \in T /\ (cs[k].tracked => cs[k] \in K)
            BY <1>1
        <3> QED
            BY <3>1
    <2> QED
        BY <2>1
<1>4. F \in [(1 .. n) \X V -> V]
    BY <1>3
<1> HIDE DEF G
<1>5. g = [s \in SUBSET (1 .. n) |-> IF s = {} THEN <<>> ELSE G(g[s \ {Max(s)}], Max(s))]
    <2> HIDE DEF F
    <2>1. PICK f : IsFold(f, V, <<>>, F, n)
        <3>1. <<>> \in V
            OBVIOUS
        <3> HIDE DEF V
        <3> QED
            BY <1>1, <1>4, <3>1, FoldExists
    <2>2. \A s \in SUBSET (1 .. n) :
             f[s] = IF s = {} THEN <<>> ELSE F[<<Max(s), f[s \ {Max(s)}]>>]
        BY <2>1, Zenon DEF IsFold
    <2>3. f \in [SUBSET (1 .. n) -> V]
        BY <2>1, Zenon DEF IsFold
    <2>4. ASSUME NEW s \in SUBSET (1 .. n), s # {}
          PROVE  F[<<Max(s), f[s \ {Max(s)}]>>] = G(f[s \ {Max(s)}], Max(s))
        <3>1. Max(s) \in 1 .. n
            BY <1>1, <2>4, GreatestBelow
        <3>2. f[s \ {Max(s)}] \in V
            BY <2>3
        <3>3. <<Max(s), f[s \ {Max(s)}]>> \in (1 .. n) \X V
            BY <3>1, <3>2
        <3> HIDE DEF V
        <3> QED
            BY <3>3 DEF F
    <2>5. f = [s \in SUBSET (1 .. n) |-> IF s = {} THEN <<>> ELSE G(f[s \ {Max(s)}], Max(s))]
        <3>1. f = [s \in SUBSET (1 .. n) |-> f[s]]
            BY <2>3
        <3>2. ASSUME NEW s \in SUBSET (1 .. n)
              PROVE  f[s] = IF s = {} THEN <<>> ELSE G(f[s \ {Max(s)}], Max(s))
            BY <2>2, <2>4
        <3> QED
            BY <3>1, <3>2, Zenon
    <2> QED
        BY <2>5, Zenon
<1> HIDE DEF g
<1> DEFINE h == [k \in 0 .. n |-> g[1 .. k]]
<1>6. h[0] = <<>>
    <2>1. {} \in SUBSET (1 .. n) /\ 1 .. 0 = {} /\ 0 \in 0 .. n
        BY <1>1
    <2>2. g[{}] = <<>>
        BY <1>5, <2>1
    <2> QED
        BY <2>1, <2>2
<1>7. ASSUME NEW k \in 1 .. n PROVE h[k] = G(h[k - 1], k)
    <2>1. /\ 1 .. k \in SUBSET (1 .. n) /\ 1 .. k # {} /\ (1 .. k) \ {k} = 1 .. (k - 1)
          /\ Max(1 .. k) = k
        BY <1>1, UpTo
    <2>2. g[1 .. k] = G(g[1 .. (k - 1)], k)
        BY <1>5, <2>1
    <2>3. k \in 0 .. n /\ k - 1 \in 0 .. n
        BY <1>1
    <2> QED
        BY <2>2, <2>3
<1>8. h[n] = g[1 .. n]
    BY <1>1
<1> DEFINE S == {k \in 0 .. n : h[k] \in V}
<1>9. 0 .. n \subseteq S
    <2>1. 0 \in S
        <3>1. 0 \in 0 .. n /\ <<>> \in V
            BY <1>1
        <3> HIDE DEF h, V
        <3> QED
            BY <1>6, <3>1
    <2>2. ASSUME NEW k \in 1 .. n, k - 1 \in S PROVE k \in S
        <3>1. h[k - 1] \in V /\ k \in 0 .. n
            BY <1>1, <2>2
        <3> HIDE DEF h, V
        <3> QED
            BY <1>3, <1>7, <3>1
    <2> HIDE DEF S
    <2> QED
        BY <1>1, <2>1, <2>2, AllPositions
<1>10. h \in [0 .. n -> V]
    <2>1. \A k \in 0 .. n : h[k] \in V
        BY <1>9
    <2> QED
        BY <2>1
<1> HIDE DEF h
<1> QED
    BY <1>2, <1>6, <1>7, <1>8, <1>10 DEF n, G

-----------------------------------------------------------------------------
(* Numbers *)

(* A bounded set of integers that is not empty has its least and greatest. *)
LEMMA Extremes ==
    ASSUME NEW low \in Int, NEW high \in Int, NEW s \in SUBSET (low .. high), s # {}
    PROVE  /\ Min(s) \in s /\ \A y \in s : Min(s) <= y
           /\ Max(s) \in s /\ \A y \in s : y <= Max(s)
<1>1. s \subseteq Int /\ \A i \in s : i - low \in Nat /\ high - i \in Nat
    OBVIOUS
<1>2. \E x \in s : \A y \in s : x <= y
    <2> DEFINE T == {i - low : i \in s}
    <2>1. T \subseteq Nat /\ T # {}
        BY <1>1, Zenon
    <2>2. PICK t \in T : \A u \in T : t <= u
        BY <2>1, FirstPosition
    <2>3. PICK x \in s : t = x - low
        BY <2>2
    <2>4. \A y \in s : x - low <= y - low
        BY <2>2, <2>3
    <2>5. \A y \in s : x <= y
        BY <1>1, <2>4
    <2> QED
        BY <2>5
<1>3. \E x \in s : \A y \in s : y <= x
    <2> DEFINE T == {high - i : i \in s}
    <2>1. T \subseteq Nat /\ T # {}
        BY <1>1, Zenon
    <2>2. PICK t \in T : \A u \in T : t <= u
        BY <2>1, FirstPosition
    <2>3. PICK x \in s : t = high - x
        BY <2>2
    <2>4. \A y \in s : high - x <= high - y
        BY <2>2, <2>3
    <2>5. \A y \in s : y <= x
        BY <1>1, <2>4
    <2> QED
        BY <2>5
<1>4. Min(s) \in s /\ \A y \in s : Min(s) <= y
    BY <1>2, Zenon DEF Min
<1>5. \E x \in s : \A y \in s : x >= y
    BY <1>3
<1>6. Max(s) \in s /\ \A y \in s : Max(s) >= y
    BY <1>5, Zenon DEF Max
<1>7. \A y \in s : y <= Max(s)
    BY <1>1, <1>6
<1> QED
    BY <1>4, <1>6, <1>7

(* The numbers of a sequence have a bound on either side. *)
LEMMA NumbersBounded ==
    ASSUME NEW n \in Nat, NEW f, \A k \in 1 .. n : f[k] \in Int
    PROVE  \E low \in Int, high \in Int : \A k \in 1 .. n : f[k] \in low .. high
<1> DEFINE S == {m \in 0 .. n : \E low \in Int, high \in Int : \A k \in 1 .. m : f[k] \in low .. high}
<1>1. 0 \in S
    <2>1. 0 \in Int /\ 0 \in 0 .. n /\ \A k \in 1 .. 0 : f[k] \in 0 .. 0
        OBVIOUS
    <2> QED
        BY <2>1
<1>2. ASSUME NEW m \in 1 .. n, m - 1 \in S PROVE m \in S
    <2>1. PICK low \in Int, high \in Int : \A k \in 1 .. m - 1 : f[k] \in low .. high
        BY <1>2
    <2> DEFINE x == f[m]
               a == IF x < low THEN x ELSE low
               b == IF x > high THEN x ELSE high
    <2>2. x \in Int
        OBVIOUS
    <2> HIDE DEF x
    <2>3. a \in Int /\ b \in Int /\ x \in a .. b /\ \A y \in low .. high : y \in a .. b
        BY <2>1, <2>2
    <2> HIDE DEF a, b
    <2>4. ASSUME NEW k \in 1 .. m PROVE f[k] \in a .. b
        <3>1. k = m \/ k \in 1 .. m - 1
            OBVIOUS
        <3> QED
            BY <2>1, <2>3, <3>1 DEF x
    <2>5. m \in 0 .. n
        OBVIOUS
    <2> QED
        BY <2>3, <2>4, <2>5
<1> HIDE DEF S
<1>3. 0 .. n \subseteq S
    BY <1>1, <1>2, AllPositions
<1>4. n \in S
    BY <1>3
<1> QED
    BY <1>4 DEF S
=============================================================================
