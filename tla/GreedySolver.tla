------------------------------- MODULE GreedySolver -------------------------------
(***************************************************************************)
(* GreedyLayoutSolver (scratchpad/greedy_solver.py): a walk over the ticks *)
(* at which some buffer starts or ends.  A tick first drops the buffers    *)
(* that end, then places the ones that start, in list order; a paired      *)
(* group is placed whole when the walk meets its first member.             *)
(***************************************************************************)
EXTENDS PlanSolver

VARIABLES usage,     \* the live placed buffers
          reused,    \* parents whose slot has been handed to a child
          rejected,  \* members of a paired group that could not be placed whole
          ticks,     \* transition points still to come
          starting   \* buffers of the current tick still to place

greedyVars == <<usage, reused, rejected, ticks, starting>>

GreedyInit ==
    /\ usage = {}
    /\ reused = {}
    /\ rejected = {}
    /\ ticks = {}
    /\ starting = {}

\* The solver's state that one placement changes.
State == [usage |-> usage, reused |-> reused, addr |-> addr]

\* _find_free_block: below everything, above everything, or in the first gap
\* between two merged spans that is large enough.
FindFreeBlock(st, size) ==
    LET Lo(u) == st.addr[u]
        Hi(u) == st.addr[u] + Size(u)
        top == AlignUp(Max({Hi(u) : u \in st.usage}))
        spanEnds == {e \in {Hi(u) : u \in st.usage} :
                        \A v \in st.usage : ~(Lo(v) <= e /\ e < Hi(v))}
        Above(e) == {Lo(v) : v \in {u \in st.usage : Lo(u) > e}}
        gaps == {e \in spanEnds : Above(e) # {} /\ AlignUp(e) + size <= Min(Above(e))}
    IN  IF Limit < size THEN Unplaced
        ELSE IF st.usage = {} \/ Min({Lo(u) : u \in st.usage}) >= size THEN 0
        ELSE IF top + size <= Limit THEN top
        ELSE IF gaps # {} THEN AlignUp(Min(gaps)) ELSE Unplaced

\* Mutant: a slot is handed to every child that declares it.
InPlaceSlots_Again(st, b) ==
    {i \in DOMAIN bufs[b].parents :
        LET p == bufs[b].parents[i] IN p \in st.usage /\ Size(b) <= Size(p)}

\* The places of the parents whose slot b may take over; it takes the first.
InPlaceSlots(st, b) ==
    {i \in DOMAIN bufs[b].parents :
        LET p == bufs[b].parents[i]
        IN  p \notin st.reused /\ p \in st.usage /\ Size(b) <= Size(p)}

\* _try_allocate_one
TryAllocateOne(st, b) ==
    LET slots == InPlaceSlots(st, b)
        parent == bufs[b].parents[Min(slots)]
        free == FindFreeBlock(st, Size(b))
    IN  IF slots # {}
        THEN [usage |-> st.usage \cup {b}, reused |-> st.reused \cup {parent},
              addr |-> [st.addr EXCEPT ![b] = st.addr[parent]]]
        ELSE [usage |-> IF free = Unplaced THEN st.usage ELSE st.usage \cup {b},
              reused |-> st.reused,
              addr |-> [st.addr EXCEPT ![b] = free]]

PlacedAll(st, members) == \A m \in Range(members) : st.addr[m] # Unplaced

\* The members one after the other.
AfterMembers(members) ==
    LET after[k \in 0 .. Len(members)] ==
            IF k = 0 THEN State ELSE TryAllocateOne(after[k - 1], members[k])
    IN  after[Len(members)]

\* Mutant: the members that did fit stay where they are.
PlaceAll_Partial(members) == AfterMembers(members)

\* If a member does not fit, the state before them.
PlaceAll(members) ==
    LET after == AfterMembers(members)
    IN  IF PlacedAll(after, members) THEN after ELSE State

BeginGreedy ==
    /\ \E g \in {<<>>} \cup (Indices \X Indices) : StartPlan("greedy", g)
    /\ ticks' = UNION {{StartTime(b), EndTime(b)} : b \in Placeable}
    /\ rejected' = IF Range(group') \subseteq Placeable THEN {} ELSE Range(group')
    /\ UNCHANGED <<usage, reused, starting>>

\* The walk reaches its next transition point: expired buffers are dropped.
Tick ==
    /\ solver = "greedy" /\ starting = {} /\ ticks # {}
    /\ LET t == Min(ticks)
       IN  /\ ticks' = ticks \ {t}
           /\ usage' = usage \ {b \in Placeable : EndTime(b) = t}
           /\ starting' = {b \in Placeable : StartTime(b) = t}
    /\ UNCHANGED <<reused, rejected>> /\ UNCHANGED planVars

\* _try_allocate of the tick's next buffer, with the group it belongs to.
TryAllocate ==
    /\ starting # {}
    /\ LET b == Min(starting)
           members == IF b \in Range(group) THEN group ELSE <<b>>
           after == PlaceAll(members)
       IN  /\ starting' = starting \ {b}
           /\ IF addr[b] # Unplaced \/ b \in rejected
              THEN UNCHANGED <<usage, reused, rejected, addr>>
              ELSE /\ usage' = after.usage
                   /\ reused' = after.reused
                   /\ addr' = after.addr
                   /\ rejected' = IF PlacedAll(after, members) THEN rejected
                                  ELSE rejected \cup (Range(members) \cap Range(group))
    /\ UNCHANGED <<ticks, bufs, group, solver>>

GreedyNext == BeginGreedy \/ Tick \/ TryAllocate
GreedyDone == solver = "greedy" /\ ticks = {} /\ starting = {}

GreedySpec ==
    /\ PlanInit /\ GreedyInit
    /\ [][GreedyNext \/ (Building /\ UNCHANGED greedyVars)]_<<planVars, greedyVars>>

-----------------------------------------------------------------------------
\* "Buffers that must be placed atomically with this one": between two
\* placements a paired group is in LX whole or not at all.
PairedTogether ==
    \A m, n \in Range(group) : addr[m] = Unplaced <=> addr[n] = Unplaced
================================================================================
