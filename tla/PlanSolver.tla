-------------------------------- MODULE PlanSolver --------------------------------
(***************************************************************************)
(* What the scratchpad (LX) layout solvers share: the candidate buffers    *)
(* of a compiled graph with their lifetimes, the buffers barred from LX,   *)
(* and the checks on declared in-place pairs                               *)
(* (torch_spyre/_inductor/scratchpad/plan_solver.py).  A buffer is known   *)
(* by its place in the list handed to the solver.  The promise of every    *)
(* solver is stated here; GreedySolver and FitSolver keep it.              *)
(***************************************************************************)
EXTENDS Naturals, Sequences, FiniteSetsExt

CONSTANTS Candidates,  \* the buffers a graph may have, parents left out
          ParentLists, \* the in_place_parents lists a buffer may declare
          MaxBuffers,  \* bound on the buffers of one solve
          Limit,       \* bytes of LX per core
          Alignment,
          Unplaced

ASSUME LimitAssumption == Limit \in Nat /\ Alignment \in Nat \ {0} /\ MaxBuffers \in Nat
ASSUME CandidateAssumption ==
    \A c \in Candidates :
        /\ c.size \in Nat \ {0} /\ {c.read, c.barred} \subseteq BOOLEAN
        /\ {c.first, c.last} \subseteq Nat /\ c.uses # {} /\ c.uses \subseteq c.first .. c.last - 1
ASSUME ParentsAssumption == \A ps \in ParentLists : ps \in Seq(Nat)
ASSUME UnplacedAssumption == Unplaced \notin Nat

VARIABLES bufs,   \* the solver's buffers, in order
          addr,   \* index -> the buffer's address, or Unplaced
          group,  \* a paired-buffer group (its root first), or <<>>
          solver  \* "building" the list; then the solver, or "refused"

planVars == <<bufs, addr, group, solver>>

Indices == 1 .. Len(bufs)
Size(b) == bufs[b].size
Parents(b) == Range(bufs[b].parents) \cap Indices

\* start_time, end_time: the uses, widened to the counted loop that reuses the storage.
StartTime(b) == Min({Min(bufs[b].uses), bufs[b].first})
EndTime(b) == Max({Max(bufs[b].uses) + 1, bufs[b].last})
OverlapsInTime(b, c) == StartTime(b) < EndTime(c) /\ StartTime(c) < EndTime(b)

AlignUp(a) == ((a + Alignment - 1) \div Alignment) * Alignment

\* partition: the buffers no reason keeps out of LX.
Placeable == {b \in Indices : ~bufs[b].barred /\ Size(b) <= Limit}

ParentIsRead(p) == bufs[p].read \/ Cardinality(bufs[p].uses) > 1

\* Mutant: the handoff tick is not checked.
InPlaceOK_NoHandoff ==
    \A b \in Indices : \A p \in Parents(b) :
        /\ ParentIsRead(p)
        /\ Size(b) <= Size(p)

\* _check_in_place_relationships; a parent that is not in this solve is ignored.
InPlaceOK ==
    \A b \in Indices : \A p \in Parents(b) :
        /\ EndTime(p) = StartTime(b) + 1
        /\ ParentIsRead(p)
        /\ Size(b) <= Size(p)

PlanInit ==
    /\ bufs = <<>>
    /\ addr = <<>>
    /\ group = <<>>
    /\ solver = "building"

\* The allocator lists the computed buffers first, then the graph inputs,
\* which have no parent of their own.
AddBuffer(c, ps) ==
    /\ solver = "building" /\ Len(bufs) < MaxBuffers
    /\ c.read => ps = <<>>
    /\ bufs # <<>> /\ bufs[Len(bufs)].read => c.read
    /\ Len(bufs) + 1 \notin Range(ps)
    /\ bufs' = Append(bufs, [uses |-> c.uses, read |-> c.read, size |-> c.size,
                             first |-> c.first, last |-> c.last,
                             barred |-> c.barred, parents |-> ps])
    /\ addr' = Append(addr, Unplaced)
    /\ UNCHANGED <<group, solver>>

Building == \E c \in Candidates, ps \in ParentLists : AddBuffer(c, ps)

\* plan_layout of solver s begins; only the greedy solver takes paired buffers.
StartPlan(s, g) ==
    /\ solver = "building" /\ bufs # <<>>
    /\ Range(g) \subseteq Indices /\ IsInjective(g)
    /\ g # <<>> => s = "greedy"
    /\ solver' = IF InPlaceOK THEN s ELSE "refused"
    /\ group' = g
    /\ UNCHANGED <<bufs, addr>>

-----------------------------------------------------------------------------
AddressesMeet(b, c) == addr[b] < addr[c] + Size(c) /\ addr[c] < addr[b] + Size(b)

\* Two buffers placed over one another are never live at the same time, except
\* a declared in-place parent and its child, in the one tick of the handoff:
\* the child's op reads the parent as it writes.  And a placed buffer is
\* aligned and inside LX.
NoClobber ==
    \A b \in Indices : addr[b] # Unplaced =>
        /\ addr[b] % Alignment = 0 /\ addr[b] + Size(b) <= Limit
        /\ \A c \in Indices \ {b} :
             addr[c] # Unplaced /\ OverlapsInTime(b, c) /\ AddressesMeet(b, c) =>
                \E p, k \in {b, c} :
                    /\ p \in Parents(k)
                    /\ addr[p] = addr[k] /\ Size(k) <= Size(p)
                    /\ EndTime(p) = StartTime(k) + 1
================================================================================
