--------------------------------- MODULE FitSolver ---------------------------------
(***************************************************************************)
(* FirstFitLayoutSolver and BestFitLayoutSolver                            *)
(* (scratchpad/firstfit_bestfit_solver.py): the buffers are placed one by  *)
(* one in order of a score, parents before children, each in a gap that is *)
(* free during its whole lifetime.                                         *)
(***************************************************************************)
EXTENDS PlanSolver

VARIABLE done  \* the buffers the loop of plan_layout has been through

FitInit == done = {}

Filtered == {b \in Placeable : EndTime(b) >= StartTime(b) + 1}

\* _sort_key: (span - discount) / uses, compared as fractions, then the span,
\* then the list order (the sort is stable).
Before(b, c) ==
    LET span(x) == EndTime(x) - StartTime(x)
        isParent(x) == \E k \in Filtered : x \in Parents(k)
        num(x) == 4 * span(x) - (IF bufs[x].parents # <<>> THEN 1 ELSE 0)
                              - (IF isParent(x) THEN 1 ELSE 0)
        den(x) == 4 * Cardinality(bufs[x].uses) + (IF bufs[x].read THEN 0 ELSE 2)
    IN  \/ num(b) * den(c) < num(c) * den(b)
        \/ /\ num(b) * den(c) = num(c) * den(b)
           /\ span(b) < span(c) \/ (span(b) = span(c) /\ b < c)

\* _topological_sort takes, of the buffers whose parents are out, the first.
Ready == {b \in Filtered \ done : Parents(b) \cap Filtered \subseteq done}
NextBuffer(b) == b \in Ready /\ \A c \in Ready \ {b} : Before(b, c)

\* _all_minus: what is left of the gaps without [lo, hi), remainders that are
\* too small dropped.
AllMinus(gaps, lo, hi, size) ==
    {g \in UNION {(IF g.lo < lo THEN {[lo |-> g.lo, hi |-> Min({g.hi, lo})]} ELSE {})
                  \cup (IF g.hi > hi THEN {[lo |-> Max({g.lo, hi}), hi |-> g.hi]} ELSE {})
                  : g \in gaps} :
        g.hi - g.lo >= size}

\* _build_gaps: the space no placed buffer needs while b lives, those of spare
\* not counted.
BuildGaps(b, spare) ==
    LET inTheWay == {o \in done \ spare : addr[o] # Unplaced /\ OverlapsInTime(o, b)}
        gaps[k \in 0 .. Len(bufs)] ==
            IF k = 0 THEN {[lo |-> 0, hi |-> Limit]}
            ELSE IF k \in inTheWay THEN AllMinus(gaps[k - 1], addr[k], addr[k] + Size(k), Size(b))
            ELSE gaps[k - 1]
    IN  gaps[Len(bufs)]

\* The places of the declared parents that are placed and lie inside gap g.
ParentsIn(g, b) ==
    {i \in DOMAIN bufs[b].parents :
        LET p == bufs[b].parents[i]
        IN  /\ p \in done /\ addr[p] # Unplaced
            /\ g.lo <= addr[p] /\ addr[p] + Size(p) <= g.hi}

\* _pick_gap of either solver: {the gap}, or {} when none fits.
PickGap(gaps, size) ==
    LET fits == {g \in gaps : AlignUp(g.lo) + size <= g.hi}
        waste(g) == g.hi - AlignUp(g.lo) - size
        best == {g \in fits : solver = "first" \/ \A h \in fits : waste(g) <= waste(h)}
    IN  {g \in best : \A h \in best : g.lo <= h.lo}

\* Mutant: the fallback keeps the gaps of the in-place attempt, which count
\* the parents as free.
FallbackGaps_Stale(b) == BuildGaps(b, Parents(b))

FallbackGaps(b) == BuildGaps(b, {})

BeginFit ==
    /\ \E s \in {"first", "best"} : StartPlan(s, <<>>)
    /\ UNCHANGED done

\* The loop body of plan_layout: the slot of a parent if one may be taken over,
\* else a gap of its own, else the buffer stays out of LX.
PlaceNext ==
    /\ solver \in {"first", "best"}
    /\ \E b \in Indices :
         LET inPlace == PickGap({g \in BuildGaps(b, Parents(b)) : ParentsIn(g, b) # {}}, Size(b))
             own == PickGap(FallbackGaps(b), Size(b))
             SlotIn(g) == addr[bufs[b].parents[Min(ParentsIn(g, b))]]
         IN  /\ NextBuffer(b)
             /\ done' = done \cup {b}
             /\ addr' = [addr EXCEPT ![b] =
                           IF inPlace # {} THEN SlotIn(CHOOSE g \in inPlace : TRUE)
                           ELSE IF own # {} THEN AlignUp((CHOOSE g \in own : TRUE).lo)
                           ELSE Unplaced]
    /\ UNCHANGED <<bufs, group, solver>>

FitNext == BeginFit \/ PlaceNext
FitDone == solver \in {"first", "best"} /\ Ready = {}

FitSpec ==
    /\ PlanInit /\ FitInit
    /\ [][FitNext \/ (Building /\ UNCHANGED done)]_<<planVars, done>>
================================================================================
