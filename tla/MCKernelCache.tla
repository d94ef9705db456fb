----------------------------- MODULE MCKernelCache -----------------------------
(***************************************************************************)
(* Two wrappers for TLC: one compiles two kernels, the other one kernel    *)
(* with the same specs as the first one's first.  SameTwice is one wrapper *)
(* with two such kernels, for the runs with clear_cache.                   *)
(***************************************************************************)
EXTENDS KernelCache, TLC

CONSTANTS p1, p2, j1, j2, j3, k1, k2

MCScript == (p1 :> <<j1, j2>>) @@ (p2 :> <<j3>>)
SameTwice == p1 :> <<j1, j3>>
MCKeyOf == (j1 :> k1) @@ (j2 :> k2) @@ (j3 :> k1)
OneKey == (j1 :> k1) @@ (j3 :> k1)
================================================================================
