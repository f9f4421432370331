------------------------------ MODULE MCGitSpool ------------------------------
(* Instances of GitSpool for TLC: two workers that do the same work. *)
EXTENDS GitSpool, TLC

Symmetry == Permutations(Workers)
=============================================================================
