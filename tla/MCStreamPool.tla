------------------------------ MODULE MCStreamPool ------------------------------
(***************************************************************************)
(* Pools of one or two streams per class for TLC.                          *)
(***************************************************************************)
EXTENDS StreamPool, TLC

CONSTANTS t1, t2, d0, d1, o1, o2

BothPriorities == {-1, 0}
AnyPriority == {-1, 0, 1}
Symmetry == Permutations(Threads) \cup Permutations(Ops)
================================================================================
