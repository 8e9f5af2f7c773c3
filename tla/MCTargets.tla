----------------------------- MODULE MCTargets -----------------------------
(* An instance of Targets for TLC. *)
EXTENDS Targets, TLC

Symmetry == Permutations(Callers) \cup Permutations(Runners) \cup Permutations(Threads)
=============================================================================
