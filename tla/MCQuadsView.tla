---------------------------- MODULE MCQuadsView ----------------------------
(* Instances of QuadsView for TLC. *)
EXTENDS QuadsView

Square(x, y, c, e) ==
    [points |-> <<At(x, y), At(x + 2, y), At(x, y + 2), At(x + 2, y + 2), At(x + 1, y + 1)>>,
     colors |-> <<c, 0, 1, 0>>, env |-> e]
TwoQuads == <<Square(0, 0, 1, NoEnv), Square(3, 0, 0, Env)>>
SomeQuads == {Square(5, 5, 1, Env)}
SomeGrips == {<<1, 2, 3, 4, 5>>, <<2, 4>>, <<3>>}
SomeMoves == {At(0, 0), At(-3, 1)}
SomePoints == {[x |-> 0, y |-> 0, turn |-> 0], [x |-> 1, y |-> 0, turn |-> 1]}
SomeTyped == {4}
==============================================================================
