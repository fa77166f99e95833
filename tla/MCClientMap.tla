---------------------------- MODULE MCClientMap ----------------------------
(* Instances of ClientMap for TLC. *)
EXTENDS ClientMap

\* Layers are made wider, once.
OneSize == {<<3, 0>>}
==============================================================================
