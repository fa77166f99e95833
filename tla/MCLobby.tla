------------------------------ MODULE MCLobby ------------------------------
(* Instances of Lobby for TLC. *)
EXTENDS Lobby

\* The tabs behave alike, and so do the servers that are added.
Symmetry == Permutations(Tabs) \cup Permutations(Added)
==============================================================================
