------------------------------- MODULE MCOffline -------------------------------
(***************************************************************************)
(* For TLC: the components that run to an end by themselves, side by side. *)
(* A behaviour is one of the scratchpad solvers, of the HBM pool pass, of  *)
(* failure capture, of the CI poller or of its backfill.                   *)
(***************************************************************************)
EXTENDS GreedySolver, FitSolver, HbmPool, Ffdc, GhaPoll, GhaBackfill

CONSTANTS Parts, p1, p2, w1, w2

VARIABLE part

\* Lifetimes that nest, meet and hand over.
Spans == {<<0, 1>>, <<0, 2>>, <<1, 2>>, <<2, 3>>}
MCCandidates ==
    {[uses |-> {u[1], u[2]}, read |-> r, size |-> z, first |-> u[1], last |-> u[2] + 1,
      barred |-> FALSE] : u \in Spans, r \in BOOLEAN, z \in {2, 3}}
MCParentLists == {<<>>, <<1>>, <<2>>, <<3>>, <<1, 2>>}

MCSizes == <<2, 1, 1>>
MCFails == [p \in Procs |-> IF p = p1 THEN 2 ELSE 1]
MCSliceRuns == <<{1}, {2}, {3}>>

MCInit ==
    /\ PlanInit /\ GreedyInit /\ FitInit
    /\ FusionInit /\ HbmInit /\ PoolInit
    /\ FfdcInit /\ PollInit /\ BackfillInit
    /\ part \in Parts
    /\ part # "backfill" => \A a \in Attempts : github[a]

Solve ==
    \/ Building /\ UNCHANGED <<greedyVars, done>>
    \/ GreedyNext /\ UNCHANGED done
    \/ FitNext /\ UNCHANGED greedyVars

solverVars == <<planVars, greedyVars, done>>
poolPassVars == <<fusionVars, hbmVars, poolVars>>

MCNext ==
    /\ \/ /\ part = "solver" /\ Solve
          /\ UNCHANGED <<poolPassVars, ffdcVars, pollVars, backfillVars>>
       \/ /\ part = "hbm" /\ HbmNext
          /\ UNCHANGED <<solverVars, ffdcVars, pollVars, backfillVars>>
       \/ /\ part = "ffdc" /\ FfdcNext
          /\ UNCHANGED <<solverVars, poolPassVars, pollVars, backfillVars>>
       \/ /\ part = "poll" /\ PollNext
          /\ UNCHANGED <<solverVars, poolPassVars, ffdcVars, backfillVars>>
       \/ /\ part = "backfill" /\ BackfillNext
          /\ UNCHANGED <<solverVars, poolPassVars, ffdcVars, pollVars>>
    /\ UNCHANGED part

MCSpec ==
    MCInit /\ [][MCNext]_<<solverVars, poolPassVars, ffdcVars, pollVars, backfillVars, part>>
================================================================================
