------------------------------- MODULE MCStreams -------------------------------
(***************************************************************************)
(* The stream pool and the collectives for TLC, side by side: a behaviour  *)
(* is one of the pool or one of the collectives.  Pools of one or two      *)
(* streams per class; interchangeable threads, operations and storages.    *)
(***************************************************************************)
EXTENDS StreamPool, Collectives, TLC

CONSTANTS t1, t2, d0, d1, o1

VARIABLE part

BothPriorities == {-1, 0}
Symmetry ==
    Permutations(Threads) \cup Permutations(Ops)
      \cup Permutations(Waiters) \cup Permutations(Allocs)

\* The settings of the collectives do not matter to the pool.
MCInit ==
    /\ Init /\ CollInit /\ part \in {"pool", "collectives"}
    /\ part = "pool" => ~enforce /\ stream = [t \in Waiters |-> "default"]

MCNext ==
    /\ \/ part = "pool" /\ Next /\ UNCHANGED collVars
       \/ part = "collectives" /\ CollNext /\ UNCHANGED vars
    /\ UNCHANGED part

MCSpec == MCInit /\ [][MCNext]_<<vars, collVars, part>>
================================================================================
