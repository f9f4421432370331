---------------------------- MODULE MCMemoryStore ----------------------------
(* Instances of MemoryStore for TLC: the filters its searches use and the   *)
(* permutations under which a run is symmetric.                             *)
EXTENDS MemoryStore, TLC

CONSTANTS t1, t2

(* No filter, or the filter that selects t1 alone. *)
MCWants == {Texts, {t1}}

Symmetry == Permutations(Procs) \cup Permutations(Ids)
=============================================================================
