--------------------------- MODULE MCRequestStore ---------------------------
(* Instances of RequestStore for TLC. *)
EXTENDS RequestStore, TLC

Symmetry == Permutations(Sources) \cup Permutations(Ids)
=============================================================================
