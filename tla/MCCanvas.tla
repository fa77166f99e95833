------------------------------ MODULE MCCanvas ------------------------------
(* Instances of Canvas for TLC. *)
EXTENDS Canvas

Plain == {[id |-> 0, numbers |-> <<>>], [id |-> 1, numbers |-> <<>>]}
Numbered ==
    {[id |-> 0, numbers |-> <<0, 0>>], [id |-> 1, numbers |-> <<105, 40>>]}

\* Ranges that begin and end before, within and behind the layer.
SomeViews == {<<-1, 1>>, <<0, 2>>, <<1, 2>>, <<2, 4>>, <<3, 5>>, <<-3, -1>>}
==============================================================================
