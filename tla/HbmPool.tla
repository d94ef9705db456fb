---------------------------------- MODULE HbmPool ----------------------------------
(***************************************************************************)
(* hbm_pool_planning (torch_spyre/_inductor/hbm_pool_planning.py) on the   *)
(* bundles of Fusion: which names may live in a bundle's pool, when their  *)
(* storage is live, and, with PoolAllocator, where it goes.  An item of    *)
(* PoolAllocator is a storage, which is what the names of an alias group   *)
(* share.                                                                  *)
(***************************************************************************)
EXTENDS Fusion, PoolAllocator

CONSTANT Sizes  \* storage -> its size

ASSUME SizesAssumption == Sizes \in [Storages -> Nat \ {0}] /\ Items = Storages

VARIABLES outputs,  \* names the graph returns, once it is scheduled
          lx,       \* storages that LX planning claimed
          bundle    \* the bundle being planned, 0 before the pass

hbmVars == <<outputs, lx, bundle>>

HbmInit ==
    /\ outputs = {}
    /\ lx = {}
    /\ bundle = 0

Names == {<<s, v>> : s \in Storages, v \in 1 .. MaxVersions}
Ops(b) == {i \in DOMAIN Bundles[b] : Bundles[b][i].kind = "op"}
Writes(b) == UNION {Bundles[b][i].w : i \in Ops(b)}
Reads(b) == UNION {Bundles[b][i].r : i \in Ops(b)}
StoragesOf(S) == {Storage(n) : n \in S}

\* buffer_writer_bundles, buffer_reader_bundles, and the same by allocation.
WriterBundles(n) == {b \in DOMAIN Bundles : n \in Writes(b) \ outputs}
ReaderBundles(n) == {b \in DOMAIN Bundles : n \in Reads(b)}
AllocWriters(s) == {b \in DOMAIN Bundles : s \in StoragesOf(Writes(b) \ outputs)}
AllocReaders(s) == {b \in DOMAIN Bundles : s \in StoragesOf(Reads(b))}

\* Names read by a node that takes Python tensors.
FallbackRead ==
    UNION {n.r : n \in {m \in ToSet(nodes) : m.kind # "op"}}

\* Mutant: only the name itself is looked at, not what shares its storage.
CrossBundle_ByName(n) ==
    Cardinality(WriterBundles(n)) > 1 \/ ~(ReaderBundles(n) \subseteq WriterBundles(n))

\* _is_cross_bundle
CrossBundle(n) ==
    \/ Cardinality(WriterBundles(n)) > 1
    \/ Cardinality(AllocWriters(Storage(n))) > 1
    \/ ~(AllocReaders(Storage(n)) \subseteq AllocWriters(Storage(n)))
    \/ ~(ReaderBundles(n) \subseteq {Max(WriterBundles(n))})

IsIntermediate(n) ==
    Storage(n) \notin lx \cup StoragesOf(outputs) \cup StoragesOf(FallbackRead)

\* all_candidates, of bundle b.
Candidate(b, n) ==
    /\ b \in WriterBundles(n) /\ ReaderBundles(n) # {}
    /\ n \notin outputs \cup FallbackRead
    /\ IsIntermediate(n)
    /\ ~CrossBundle(n)

\* A counted loop is one timestep, whose reads of what it writes are merged away.
InLoop(b) == {i \in DOMAIN Bundles[b] : Bundles[b][i].loop}

\* Mutant: the loop's body is flattened.
Step_Flat(b, i) == i

Step(b, i) == IF i \in InLoop(b) THEN Min(InLoop(b)) ELSE i

VisibleReads(b, i) ==
    IF i \in InLoop(b) THEN Bundles[b][i].r \ UNION {Bundles[b][j].w : j \in InLoop(b)}
    ELSE Bundles[b][i].r

\* _compute_live_ranges of one name: its last write, and its last read that
\* shows, or past the end of the bundle.
FirstStep(b, n) == Max({Step(b, i) : i \in {j \in DOMAIN Bundles[b] : n \in Bundles[b][j].w}})
LastUse(b, n) ==
    LET readers == {j \in DOMAIN Bundles[b] : n \in VisibleReads(b, j)}
    IN  IF readers = {} THEN Len(Bundles[b]) + 1 ELSE Max({Step(b, j) : j \in readers})

\* Mutant: a storage lives as long as its last name.
LiveRange_LastName(b, s, S) ==
    LET n == <<s, Max({m[2] : m \in S})>>
    IN  [first |-> FirstStep(b, n), last |-> LastUse(b, n), size |-> Sizes[s]]

\* The merged range of the candidate names S that share storage s.
LiveRange(b, s, S) ==
    [first |-> Min({FirstStep(b, n) : n \in S}), last |-> Max({LastUse(b, n) : n \in S}),
     size |-> Sizes[s]]

Planned(b) ==
    LET names == {n \in Names : Candidate(b, n)}
    IN  [s \in StoragesOf(names) |-> LiveRange(b, s, {n \in names : Storage(n) = s})]

\* The pass begins; the graph returns some names, LX planning took some storages.
BeginPass ==
    /\ bundle = 0 /\ nodes # <<>>
    /\ \E out \in {{}} \cup {{n} : n \in Current(Live)}, l \in {{}} \cup {{s} : s \in Live} :
         outputs' = out /\ lx' = l
    /\ bundle' = 1
    /\ UNCHANGED poolVars

\* The pass goes to the next bundle.
PlanBundle ==
    /\ bundle \in DOMAIN Bundles
    /\ BeginBundle(Planned(bundle))
    /\ bundle' = bundle + 1
    /\ UNCHANGED <<outputs, lx>>

HbmNext ==
    \/ bundle = 0 /\ Schedule /\ UNCHANGED <<hbmVars, poolVars>>
    \/ BeginPass /\ UNCHANGED fusionVars
    \/ PlanBundle /\ UNCHANGED fusionVars
    \/ PlaceStep /\ UNCHANGED <<fusionVars, hbmVars>>

-----------------------------------------------------------------------------
\* The nodes of bundle b as they run, its loop twice round.
Unrolled(b) ==
    LET ns == Bundles[b]
        lo == Min(InLoop(b))
        hi == Max(InLoop(b))
    IN  IF InLoop(b) = {} THEN ns
        ELSE SubSeq(ns, 1, hi) \o SubSeq(ns, lo, Len(ns))

SpansMeet(s, t) == offset[s] < Top(t) /\ offset[t] < Top(s)

\* In the kernel of the bundle just planned, a node that reads a pooled storage
\* finds what the last node that wrote it left there: no other write, of a
\* storage that shares bytes with it, comes in between, across the rounds of a
\* counted loop and under every name of the storage.
ReadsIntact ==
    (bundle > 1 /\ todo = {}) =>
        LET x == Unrolled(bundle - 1)
            W(i) == StoragesOf(x[i].w)
        IN  \A s \in DOMAIN range : Placed(s) =>
              \A j \in DOMAIN x : s \in StoragesOf(x[j].r) =>
                LET before == {i \in 1 .. j - 1 : s \in W(i)}
                IN  before # {} =>
                      \A k \in Max(before) + 1 .. j : \A t \in W(k) \ {s} :
                          ~(t \in DOMAIN range /\ Placed(t) /\ SpansMeet(s, t))

\* "A buffer is pool-eligible only if the bundle that writes it is the same
\* bundle that contains every read of it": a pooled storage is touched, under
\* whatever name, by the kernel of that bundle only, never returned, and never
\* handed to a node that takes Python tensors.
PoolIsLocal ==
    bundle > 1 =>
        \A s \in DOMAIN range : Placed(s) =>
            /\ s \notin lx \cup StoragesOf(outputs)
            /\ \A b \in DOMAIN Bundles \ {bundle - 1} : \A i \in DOMAIN Bundles[b] :
                 LET n == Bundles[b][i]
                 IN  s \notin StoragesOf(n.r \cup (IF n.kind = "nop" THEN {} ELSE n.w))
================================================================================
