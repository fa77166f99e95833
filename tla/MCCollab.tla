------------------------------ MODULE MCCollab ------------------------------
(***************************************************************************)
(* Small instances of Collab: who writes which part of the map, and what   *)
(* the server may refuse.                                                  *)
(***************************************************************************)
EXTENDS Collab

CONSTANTS alice, bob, carol, x, y, blank, v, w, gone

Everybody == Clients \X Cells
OwnCells == {<<alice, x>>, <<bob, y>>}
AliceAndBob == {alice, bob} \X Cells

AliceTwice == [c \in Clients |-> IF c = alice THEN 2 ELSE 1]
AliceThrice == [c \in Clients |-> IF c = alice THEN 3 ELSE 1]

NoRefusals == {}
RefusesV == Cells \X {v}

=============================================================================
