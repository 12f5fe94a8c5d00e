--------------------------- MODULE MCShareLinks ---------------------------
(* The symmetry the model checker uses on the share links. *)
EXTENDS ShareLinks, TLC

Interchangeable == Permutations(Users) \union Permutations(Items)
=============================================================================
