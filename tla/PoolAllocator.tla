------------------------------- MODULE PoolAllocator -------------------------------
(***************************************************************************)
(* The allocation loop of hbm_pool_planning for one bundle, with the       *)
(* Allocator it drives (torch_spyre/_inductor/hbm_pool_planning.py): items *)
(* in the order in which they come alive, blocks of dead ones freed first, *)
(* the first free block that is large enough, or the end of the pool.      *)
(* An item is an alias group, named by its first name.                     *)
(***************************************************************************)
EXTENDS Naturals, Sequences

CONSTANTS Items,        \* names of alias groups, ordered as numbers
          SegmentSize,  \* MAX_POOL_SIZE_BYTES
          None

ASSUME ItemsAssumption == Items \subseteq Nat
ASSUME SegmentAssumption == SegmentSize \in Nat /\ None \notin Nat

VARIABLES range,    \* item of this bundle -> [first, last, size]
          todo,     \* items still to place
          offset,   \* item -> its offset in the pool, or None
          pending,  \* placed items not freed yet, in the order they were placed
          free,     \* the free blocks, in list order
          poolEnd   \* high-water mark

poolVars == <<range, todo, offset, pending, free, poolEnd>>

Ranges == [first : Nat, last : Nat, size : Nat \ {0}]

PoolInit ==
    /\ range = [i \in {} |-> None]
    /\ todo = {}
    /\ offset = [i \in {} |-> None]
    /\ pending = <<>>
    /\ free = <<>>
    /\ poolEnd = 0

\* A bundle's candidates, with a fresh Allocator.
BeginBundle(r) ==
    /\ todo = {}
    /\ range' = r
    /\ todo' = DOMAIN r
    /\ offset' = [i \in DOMAIN r |-> None]
    /\ pending' = <<>>
    /\ free' = <<>>
    /\ poolEnd' = 0

\* _alloc_sort_key
SortsBefore(i, j) ==
    \/ range[i].first < range[j].first
    \/ /\ range[i].first = range[j].first
       /\ range[i].last < range[j].last \/ (range[i].last = range[j].last /\ i <= j)

IsNext(i) == i \in todo /\ \A j \in todo : SortsBefore(i, j)

\* Mutant: a block is freed in the step that last reads it.
Expired_Early(i, p) == range[p].last <= range[i].first

Expired(i, p) == range[p].last < range[i].first

Without(seq, k) == [n \in 1 .. Len(seq) - 1 |-> IF n < k THEN seq[n] ELSE seq[n + 1]]

\* Before item i is placed: the first pending block whose item is dead by then
\* goes back to the free list.
FreeExpired(i, k) ==
    /\ IsNext(i)
    /\ k \in 1 .. Len(pending) /\ Expired(i, pending[k])
    /\ \A m \in 1 .. k - 1 : ~Expired(i, pending[m])
    /\ pending' = Without(pending, k)
    /\ free' = Append(free, [off |-> offset[pending[k]], size |-> range[pending[k]].size])
    /\ UNCHANGED <<range, todo, offset, poolEnd>>

\* The free list without block k, its tail past the first size bytes put back.
Carve(k, size) ==
    IF free[k].size > size
    THEN Append(Without(free, k), [off |-> free[k].off + size, size |-> free[k].size - size])
    ELSE Without(free, k)

\* allocate out of the first block that is large enough.
Reuse(i, k) ==
    /\ k \in 1 .. Len(free) /\ free[k].size >= range[i].size
    /\ \A m \in 1 .. k - 1 : free[m].size < range[i].size
    /\ offset' = [offset EXCEPT ![i] = free[k].off]
    /\ pending' = Append(pending, i)
    /\ free' = Carve(k, range[i].size)
    /\ UNCHANGED poolEnd

\* allocate past the end of the pool; an item that does not fit any more stays
\* out of the pool, on standalone HBM.
Extend(i) ==
    /\ \A m \in 1 .. Len(free) : free[m].size < range[i].size
    /\ IF poolEnd + range[i].size > SegmentSize
       THEN UNCHANGED <<offset, pending, poolEnd>>
       ELSE /\ offset' = [offset EXCEPT ![i] = poolEnd]
            /\ pending' = Append(pending, i)
            /\ poolEnd' = poolEnd + range[i].size
    /\ UNCHANGED free

Allocate(i) ==
    /\ IsNext(i)
    /\ \A k \in 1 .. Len(pending) : ~Expired(i, pending[k])
    /\ Extend(i) \/ \E k \in 1 .. Len(free) : Reuse(i, k)
    /\ todo' = todo \ {i}
    /\ UNCHANGED range

PlaceStep == \E i \in todo : Allocate(i) \/ \E k \in 1 .. Len(pending) : FreeExpired(i, k)

PoolNext ==
    \/ \E D \in SUBSET Items : \E r \in [D -> Ranges] : BeginBundle(r)
    \/ PlaceStep

PoolSpec == PoolInit /\ [][PoolNext]_poolVars

-----------------------------------------------------------------------------
Placed(i) == i \in DOMAIN range /\ offset[i] # None
Top(i) == offset[i] + range[i].size

\* "Buffers whose live ranges do not overlap share the same region", and no
\* others: two placed items that are alive in a common step do not share a
\* byte.  And every item lies inside the extent the bundle reserves, which
\* never exceeds the segment.
PoolSound ==
    /\ poolEnd <= SegmentSize
    /\ \A i \in DOMAIN range : Placed(i) => Top(i) <= poolEnd
    /\ \A i, j \in DOMAIN range :
         (/\ i # j /\ Placed(i) /\ Placed(j)
          /\ range[i].first <= range[j].last /\ range[j].first <= range[i].last)
            => (Top(i) <= offset[j] \/ Top(j) <= offset[i])
================================================================================
