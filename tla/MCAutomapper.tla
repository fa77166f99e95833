---------------------------- MODULE MCAutomapper ----------------------------
(* Instances of Automapper for TLC. *)
EXTENDS Automapper

W(word) == [word |-> word]
I(int) == [int |-> int]

Header == <<[header |-> "a"]>>
Index == <<W("Index"), I(3), W("XFLIP"), W("ROTATE")>>
Index0 == <<W("Index"), I(0)>>
OwnCell == <<W("Pos"), I(0), I(0), W("INDEX"), I(1), W("OR"), I(2), W("NONE")>>
Neighbour == <<W("Pos"), I(-1), I(0), W("NOTINDEX"), I(3), W("YFLIP"), W("OR"), I(0)>>
OwnFull == <<W("Pos"), I(0), I(0), W("FULL")>>
Right == <<W("Pos"), I(1), I(0), W("FULL")>>
Random == <<W("Random"), I(1)>>
HalfRandom == <<W("Random"), [float |-> 50]>>
NoDefault == <<W("NoDefaultRule")>>
NoCopy == <<W("NoLayerCopy")>>
Run == <<W("NewRun")>>
Junk == <<W("Junk"), I(1)>>
Number == <<I(4), W("NewRun")>>
Broken == <<W("Index"), W("three")>>
BadPos == <<W("Pos"), I(0), I(0), W("INDEX"), I(1), W("OR"), W("NONE")>>
BadHeader == <<[bad |-> "["]>>
HeaderTail == Header \o <<W("Junk")>>
IndexTail == <<W("Index"), I(3), W("Junk")>>
FullTail == Right \o <<[bad |-> "1.2.3"]>>
OwnTail == OwnCell \o <<W("Junk")>>
RandomTail == HalfRandom \o <<I(3)>>

Rules == {Index, Index0, OwnCell, OwnFull, Neighbour, Right, Random, HalfRandom, NoDefault, NoCopy, Run}
Tailed == {HeaderTail, IndexTail, FullTail, OwnTail, RandomTail}
Faulty == {Junk, Number, Broken, BadPos, BadHeader, <<>>}
All == Rules \cup Faulty \cup {Header}

Texts ==
    {<<Header, Index>> \o rest : rest \in SeqOf(Rules, 3) \cup SeqOf(Rules \cup Tailed, 2)}
        \cup SeqOf(All, 2) \cup {<<Header>> \o rest : rest \in SeqOf(All \cup Tailed, 2)}

T(id) == [id |-> id, flags |-> {}]
Square == [w |-> 2, h |-> 2,
           tiles |-> (0 :> T(1) @@ 1 :> T(0) @@ 2 :> T(2) @@ 3 :> [id |-> 3, flags |-> {"HFLIP"}])]
Wide == [w |-> 3, h |-> 2, tiles |-> [i \in 0 .. 5 |-> T(i % 3)]]
SomeLayers == {Square, Wide}

SomeHash(r1, r2, x, y) == (7 * r1 + 5 * r2 + 3 * x + 2 * y) % 8
==============================================================================
