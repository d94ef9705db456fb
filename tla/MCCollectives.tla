----------------------------- MODULE MCCollectives -----------------------------
(* Instance of Collectives: interchangeable threads and storages. *)
EXTENDS Collectives, TLC
Symmetry == Permutations(Waiters) \cup Permutations(Allocs)
================================================================================
