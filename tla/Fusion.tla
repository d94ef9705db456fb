---------------------------------- MODULE Fusion ----------------------------------
(***************************************************************************)
(* spyre_fuse_nodes (torch_spyre/_inductor/fusion.py) over the scheduled   *)
(* nodes of a graph: every maximal run of Spyre compute nodes becomes one  *)
(* bundle, one kernel launch; everything else is a bundle of its own, and  *)
(* a no-op that only allocates is moved ahead of the run it falls into.    *)
(*                                                                         *)
(* A node writes and reads names.  A name is a storage and a version: an   *)
(* in-place update of a buffer writes a new name that shares the storage,  *)
(* reads the name it updates, and later readers read the new name.         *)
(***************************************************************************)
EXTENDS Naturals, Sequences, FiniteSets, SequencesExt, FiniteSetsExt

CONSTANTS MaxNodes,     \* bound on the nodes of a graph
          NumStorages,  \* bound on the storages
          MaxVersions,  \* bound on the names of one storage
          MaxReads,     \* bound on the storages a node reads
          Rewrites      \* TRUE: an update may keep the name it updates

ASSUME FusionAssumption ==
    /\ {MaxNodes, NumStorages, MaxVersions, MaxReads} \subseteq Nat
    /\ Rewrites \in BOOLEAN

VARIABLES nodes,   \* the scheduled nodes, in order
          groups,  \* the bundles closed so far
          run,     \* the run being fused
          latest   \* storage -> the version readers use, 0 before it is written

fusionVars == <<nodes, groups, run, latest>>

Storages == 1 .. NumStorages
Storage(n) == n[1]
Live == {s \in Storages : latest[s] > 0}
Unused == {s \in Storages : latest[s] = 0}
Current(S) == {<<s, latest[s]>> : s \in S}

FusionInit ==
    /\ nodes = <<>>
    /\ groups = <<>>
    /\ run = <<>>
    /\ latest = [s \in Storages |-> 0]

\* Mutant: any boundary node is hoisted.
Hoistable_Any(node) == node.kind # "op"

\* _is_hoistable_node
Hoistable(node) == node.kind = "nop"

\* The loop body of group_contiguous_fusable.
Group(node) ==
    IF node.kind = "op" THEN
        /\ run' = Append(run, node)
        /\ UNCHANGED groups
    ELSE IF run # <<>> /\ Hoistable(node) THEN
        /\ groups' = Append(groups, <<node>>)
        /\ UNCHANGED run
    ELSE
        /\ groups' = (IF run = <<>> THEN groups ELSE Append(groups, run)) \o << <<node>> >>
        /\ run' = <<>>

\* A node that computes s, or with w = {} only consumes.  A compute node may be
\* in the body of a counted loop; neighbouring ones are in the same loop.
Compute(w, r, kind, loop) ==
    LET node == [kind |-> kind, w |-> {<<s, 1>> : s \in w}, r |-> Current(r), loop |-> loop]
    IN  /\ nodes' = Append(nodes, node)
        /\ Group(node)
        /\ latest' = [s \in Storages |-> IF s \in w THEN 1 ELSE latest[s]]

\* An in-place update of s.
Update(s, r, loop, version) ==
    LET node == [kind |-> "op", w |-> {<<s, version>>}, r |-> Current(r \cup {s}), loop |-> loop]
    IN  /\ nodes' = Append(nodes, node)
        /\ Group(node)
        /\ latest' = [latest EXCEPT ![s] = version]

\* A storage a node that is not a Spyre compute node has written.
External(s) == \E i \in DOMAIN nodes : nodes[i].kind = "fallback" /\ <<s, 1>> \in nodes[i].w

\* A bundle has at most one counted loop, which keeps unrolling simple.
LoopOK(loop) ==
    loop => \A i \in DOMAIN run : run[i].loop => \A j \in i .. Len(run) : run[j].loop

Schedule ==
    /\ Len(nodes) < MaxNodes
    /\ \E r \in {R \in SUBSET Live : Cardinality(R) <= MaxReads} :
         \/ \E kind \in {"op", "fallback", "nop"}, loop \in BOOLEAN :
              /\ loop => kind = "op"
              /\ LoopOK(loop)
              /\ \/ kind # "nop" /\ r # {} /\ Compute({}, r, kind, loop)
                 \/ Unused # {} /\ Compute({Min(Unused)}, r, kind, loop)
         \/ \E s \in Live, loop \in BOOLEAN :
              /\ ~External(s) /\ s \notin r
              /\ LoopOK(loop)
              /\ \/ latest[s] < MaxVersions /\ Update(s, r, loop, latest[s] + 1)
                 \/ Rewrites /\ Update(s, r, loop, latest[s])

\* The bundles once the last run is closed.
Bundles == IF run = <<>> THEN groups ELSE Append(groups, run)

-----------------------------------------------------------------------------
\* "Fuse nodes together to form kernels without changing their order": apart
\* from the no-ops, which may come earlier, the bundles one after the other are
\* the schedule; so no node is lost or doubled, and no read moves across a write.
OrderKept ==
    LET Kernels(seq) == SelectSeq(seq, LAMBDA n : n.kind # "nop")
    IN  Kernels(FlattenSeq(Bundles)) = Kernels(nodes)
================================================================================
