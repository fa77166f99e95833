------------------------------ MODULE MCForms ------------------------------
(* Instances of Forms for TLC. *)
EXTENDS Forms

GroupFields == [offX |-> "offset", offY |-> "offset", paraX |-> "parallax"]
Numbers == {-1, 1, 9}
==============================================================================
