---------------------------- MODULE MCEnvelopes ----------------------------
(* Instances of Envelopes for TLC. *)
EXTENDS Envelopes

At(t, v, c) == [time |-> t, value |-> v, curve |-> c]
SomeValues == {-1, 2}
SomePoints ==
    {<<At(1, 1, "linear")>>, <<At(1, 0, "step"), At(3, 1, "linear")>>,
     <<At(0, 1, "fast"), At(2, 0, "smooth"), At(2, 1, "slow")>>}
==============================================================================
