---------------------------- MODULE MCLivesource ----------------------------
(* Instances of Livesource for model checking.                             *)
EXTENDS Livesource, TLC

Symmetry == Permutations(Workers) \cup Permutations(Livesources)
=============================================================================
