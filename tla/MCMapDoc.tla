------------------------------ MODULE MCMapDoc ------------------------------
(***************************************************************************)
(* Small instances of MapDoc: the sizes that layers are asked to take.     *)
(***************************************************************************)
EXTENDS MapDoc

\* A width that is accepted, and a height that is not.
WidthOrHeight == {<<3, 0>>, <<0, 1>>}

\* A width that is accepted with a height that is not.
PartialResizes == {<<3, 1>>}

=============================================================================
