----------------------------- MODULE MCSession -----------------------------
(* Instances of Session for TLC: which rooms the server starts with and which
   requests arrive by which way is chosen by the configuration files. *)
EXTENDS Session

CONSTANTS a, b, r1, r2, r3

(* Only map a exists at start-up. *)
InitialOne == [r \in Rooms |-> IF r = r1 THEN a ELSE NoName]
(* No map exists at start-up. *)
InitialNone == [r \in Rooms |-> NoName]
=============================================================================
