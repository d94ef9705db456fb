------------------------------ MODULE PlannerProofs ------------------------------
(***************************************************************************)
(* Proofs about PoolAllocator, for any bundle: any number of items, any    *)
(* live ranges and sizes, any segment, and about the layout solvers        *)
(* GreedySolver and FitSolver, for any list of buffers with any lifetimes, *)
(* sizes and parents, any alignment and any size of LX.                    *)
(***************************************************************************)
EXTENDS PoolAllocator, GreedySolver, FitSolver, FiniteSetTheorems,
        WellFoundedInduction, TLAPS

-----------------------------------------------------------------------------
(* PoolAllocator *)

\* What the provers have to be told about a sequence and about one that grows.
LEMMA SeqFields ==
  ASSUME NEW S, NEW q \in Seq(S)
  PROVE  Len(q) \in Nat /\ DOMAIN q = 1 .. Len(q) /\ q \in [1 .. Len(q) -> S]
  OBVIOUS

LEMMA IsSequence ==
  ASSUME NEW S, NEW n \in Nat, NEW q \in [1 .. n -> S]
  PROVE  q \in Seq(S)
  OBVIOUS

LEMMA Grown ==
  ASSUME NEW S, NEW q \in Seq(S), NEW e \in S
  PROVE  /\ Append(q, e) \in Seq(S) /\ Len(Append(q, e)) = Len(q) + 1
         /\ Append(q, e)[Len(q) + 1] = e /\ \A i \in 1 .. Len(q) : Append(q, e)[i] = q[i]
  OBVIOUS


Blocks == [off : Nat, size : Nat \ {0}]

TypeInv ==
    /\ DOMAIN range \subseteq Items
    /\ range \in [DOMAIN range -> Ranges]
    /\ todo \subseteq DOMAIN range
    /\ offset \in [DOMAIN range -> Nat \cup {None}]
    /\ pending \in Seq(DOMAIN range)
    /\ free \in Seq(Blocks)
    /\ poolEnd \in Nat

Apart(a, m, b, n) == a + m <= b \/ b + n <= a

\* What is pending was placed, once.
PendingPlaced ==
    /\ \A i \in todo : offset[i] = None
    /\ \A k \in 1 .. Len(pending) : offset[pending[k]] # None
    /\ \A k, m \in 1 .. Len(pending) : k # m => pending[k] # pending[m]

\* The pool up to its end is cut into the pending and the free blocks.
BlocksApart ==
    /\ \A k \in 1 .. Len(free) : free[k].off + free[k].size <= poolEnd
    /\ \A k, m \in 1 .. Len(free) :
         k # m => Apart(free[k].off, free[k].size, free[m].off, free[m].size)
    /\ \A k \in 1 .. Len(pending), m \in 1 .. Len(free) :
         Apart(offset[pending[k]], range[pending[k]].size, free[m].off, free[m].size)
    /\ \A k, m \in 1 .. Len(pending) :
         k # m => Apart(offset[pending[k]], range[pending[k]].size,
                        offset[pending[m]], range[pending[m]].size)

\* A placed item whose block was given back is dead before any item to come.
FreedIsDead ==
    \A i \in DOMAIN range :
        Placed(i) /\ (\A k \in 1 .. Len(pending) : pending[k] # i)
            => \A j \in todo : range[i].last < range[j].first

PoolInv == TypeInv /\ PendingPlaced /\ BlocksApart /\ FreedIsDead /\ PoolSound

-----------------------------------------------------------------------------
\* Where the n-th element of a list without its k-th one comes from.
From(k, n) == IF n < k THEN n ELSE n + 1

\* w is seq without its k-th element: it keeps the others, each once.
Shortened(seq, k, w) ==
    /\ Len(w) = Len(seq) - 1
    /\ \A n \in 1 .. Len(w) :
         /\ w[n] = seq[From(k, n)]
         /\ From(k, n) \in 1 .. Len(seq) /\ From(k, n) # k
    /\ \A n, m \in 1 .. Len(w) : n # m => From(k, n) # From(k, m)
    /\ \A m \in 1 .. Len(seq) : m # k => \E n \in 1 .. Len(w) : From(k, n) = m

\* Dropping one element of a list keeps the others, each once.
LEMMA WithoutProperties ==
    ASSUME NEW S, NEW seq \in Seq(S), NEW k \in 1 .. Len(seq)
    PROVE  Without(seq, k) \in Seq(S) /\ Shortened(seq, k, Without(seq, k))
<1>0. Len(seq) \in Nat
  BY SeqFields
<1>1. Len(seq) - 1 \in Nat
  BY SeqFields
<1>2. \A n \in 1 .. Len(seq) - 1 : (IF n < k THEN seq[n] ELSE seq[n + 1]) \in S
  BY SeqFields
<1>3. Without(seq, k) \in [1 .. Len(seq) - 1 -> S]
  BY <1>2 DEF Without
<1>4. Without(seq, k) \in Seq(S)
  BY <1>1, <1>3, IsSequence
<1>5. Len(Without(seq, k)) = Len(seq) - 1
  BY <1>1, <1>3, <1>4, SeqFields
<1>6. \A n \in 1 .. Len(seq) - 1 :
        /\ Without(seq, k)[n] = seq[From(k, n)]
        /\ From(k, n) \in 1 .. Len(seq) /\ From(k, n) # k
  BY <1>0 DEF Without, From
<1>7. \A n, m \in 1 .. Len(seq) - 1 : n # m => From(k, n) # From(k, m)
  BY <1>0 DEF From
<1>8. \A m \in 1 .. Len(seq) : m # k => \E n \in 1 .. Len(seq) - 1 : From(k, n) = m
  <2> SUFFICES ASSUME NEW m \in 1 .. Len(seq), m # k
               PROVE  \E n \in 1 .. Len(seq) - 1 : From(k, n) = m
    OBVIOUS
  <2>1. CASE m < k
    <3>1. m \in 1 .. Len(seq) - 1 /\ From(k, m) = m
      BY <1>0, <2>1 DEF From
    <3> QED
      BY <3>1
  <2>2. CASE m > k
    <3>1. m - 1 \in 1 .. Len(seq) - 1 /\ From(k, m - 1) = m
      BY <1>0, <2>2 DEF From
    <3> QED
      BY <3>1
  <2> QED
    BY <1>0, <2>1, <2>2
<1> QED
  BY <1>4, <1>5, <1>6, <1>7, <1>8, Zenon DEF Shortened

LEMMA InitHolds == PoolInit => PoolInv
<1> SUFFICES ASSUME PoolInit PROVE PoolInv
  OBVIOUS
<1> USE DEF PoolInit
<1>1. TypeInv
  BY SegmentAssumption DEF TypeInv
<1> QED
  BY <1>1, SegmentAssumption DEF PoolInv, PendingPlaced, BlocksApart, FreedIsDead, PoolSound, Placed

LEMMA BeginHolds ==
    ASSUME NEW D \in SUBSET Items, NEW r \in [D -> Ranges], BeginBundle(r)
    PROVE  PoolInv'
<1> USE DEF BeginBundle
<1>1. TypeInv'
  BY SegmentAssumption DEF TypeInv
<1>2. PendingPlaced' /\ BlocksApart' /\ FreedIsDead' /\ PoolSound'
  BY SegmentAssumption DEF PendingPlaced, BlocksApart, FreedIsDead, PoolSound, Placed
<1> QED
  BY <1>1, <1>2 DEF PoolInv

LEMMA FreeHolds ==
    ASSUME PoolInv, NEW i \in todo, NEW k \in 1 .. Len(pending), FreeExpired(i, k)
    PROVE  PoolInv'
<1> DEFINE p == pending[k]
           block == [off |-> offset[p], size |-> range[p].size]
<1>0. TypeInv /\ PendingPlaced /\ BlocksApart /\ FreedIsDead /\ PoolSound
  BY DEF PoolInv
<1>1. /\ pending' = Without(pending, k) /\ free' = Append(free, block)
      /\ UNCHANGED <<range, todo, offset, poolEnd>>
      /\ range[p].last < range[i].first /\ IsNext(i)
  BY DEF FreeExpired, Expired
<1>2. p \in DOMAIN range /\ p \notin todo /\ offset[p] \in Nat /\ range[p] \in Ranges
  BY <1>0 DEF TypeInv, PendingPlaced
<1>3. block \in Blocks
  BY <1>2 DEF Blocks, Ranges
<1>4. /\ pending' \in Seq(DOMAIN range) /\ Len(pending') = Len(pending) - 1
      /\ \A n \in 1 .. Len(pending') :
           /\ pending'[n] = pending[From(k, n)]
           /\ From(k, n) \in 1 .. Len(pending) /\ From(k, n) # k
      /\ \A n, m \in 1 .. Len(pending') : n # m => From(k, n) # From(k, m)
      /\ \A m \in 1 .. Len(pending) : m # k => \E n \in 1 .. Len(pending') : From(k, n) = m
  <2>1. pending \in Seq(DOMAIN range) /\ k \in 1 .. Len(pending) /\ pending' = Without(pending, k)
    BY <1>0, <1>1 DEF TypeInv
  <2> HIDE DEF p, block
  <2>2. pending' \in Seq(DOMAIN range) /\ Shortened(pending, k, pending')
    BY <2>1, WithoutProperties, Zenon
  <2> QED
    BY <2>2, Zenon DEF Shortened
<1>5. /\ free' \in Seq(Blocks) /\ Len(free') = Len(free) + 1
      /\ \A n \in 1 .. Len(free) : free'[n] = free[n]
      /\ free'[Len(free) + 1] = block
  BY <1>0, <1>1, <1>3, Grown DEF TypeInv
<1>6. Len(pending) \in Nat /\ Len(free) \in Nat
  BY <1>0, SeqFields DEF TypeInv
<1>7. TypeInv'
  BY <1>0, <1>1, <1>4, <1>5 DEF TypeInv
<1>8. PendingPlaced'
  <2>1. \A j \in todo' : offset'[j] = None
    BY <1>0, <1>1 DEF PendingPlaced
  <2>2. \A n \in 1 .. Len(pending') : offset'[pending'[n]] # None
    <3> TAKE n \in 1 .. Len(pending')
    <3>1. pending'[n] = pending[From(k, n)] /\ From(k, n) \in 1 .. Len(pending)
      BY <1>4
    <3>2. offset[pending[From(k, n)]] # None
      BY <1>0, <3>1 DEF PendingPlaced
    <3> QED
      BY <3>1, <3>2, <1>1
  <2>3. \A n, m \in 1 .. Len(pending') : n # m => pending'[n] # pending'[m]
    <3> TAKE n, m \in 1 .. Len(pending')
    <3> HAVE n # m
    <3>1. From(k, n) # From(k, m) /\ From(k, n) \in 1 .. Len(pending) /\ From(k, m) \in 1 .. Len(pending)
      BY <1>4
    <3>2. pending[From(k, n)] # pending[From(k, m)]
      BY <1>0, <3>1, ZenonT(60) DEF PendingPlaced
    <3> QED
      BY <3>2, <1>4
  <2> QED
    BY <2>1, <2>2, <2>3 DEF PendingPlaced
<1>9. BlocksApart'
  <2>1. offset[p] + range[p].size <= poolEnd
    BY <1>0, <1>2, ZenonT(60) DEF PoolSound, Placed, Top, PendingPlaced
  <2>2. \A n \in 1 .. Len(free') : free'[n].off + free'[n].size <= poolEnd'
    BY <1>0, <1>1, <1>5, <1>6, <2>1, SMTT(30) DEF BlocksApart
  <2>3. \A m \in 1 .. Len(free) :
          Apart(offset[p], range[p].size, free[m].off, free[m].size)
    BY <1>0, ZenonT(60) DEF BlocksApart
  <2>4. \A n, m \in 1 .. Len(free') :
          n # m => Apart(free'[n].off, free'[n].size, free'[m].off, free'[m].size)
    BY <1>0, <1>5, <1>6, <2>3, SMTT(30) DEF BlocksApart, Apart
  <2>5. \A n \in 1 .. Len(pending'), m \in 1 .. Len(free') :
          Apart(offset[pending'[n]], range[pending'[n]].size, free'[m].off, free'[m].size)
    <3> SUFFICES ASSUME NEW n \in 1 .. Len(pending'), NEW m \in 1 .. Len(free')
                 PROVE  Apart(offset[pending'[n]], range[pending'[n]].size,
                              free'[m].off, free'[m].size)
      OBVIOUS
    <3>1. CASE m = Len(free) + 1
      <4>1. /\ From(k, n) \in 1 .. Len(pending) /\ From(k, n) # k
            /\ pending'[n] = pending[From(k, n)] /\ free'[m] = block
        BY <3>1, <1>4, <1>5
      <4> QED
        BY <4>1, <1>0 DEF BlocksApart
    <3>2. CASE m \in 1 .. Len(free)
      BY <3>2, <1>0, <1>4, <1>5, Zenon DEF BlocksApart
    <3> QED
      BY <3>1, <3>2, <1>5, <1>6
  <2>6. \A n, m \in 1 .. Len(pending') :
          n # m => Apart(offset[pending'[n]], range[pending'[n]].size,
                         offset[pending'[m]], range[pending'[m]].size)
    <3> SUFFICES ASSUME NEW n \in 1 .. Len(pending'), NEW m \in 1 .. Len(pending'), n # m
                 PROVE  Apart(offset[pending'[n]], range[pending'[n]].size,
                              offset[pending'[m]], range[pending'[m]].size)
      OBVIOUS
    <3>1. /\ pending'[n] = pending[From(k, n)] /\ From(k, n) \in 1 .. Len(pending)
          /\ pending'[m] = pending[From(k, m)] /\ From(k, m) \in 1 .. Len(pending)
          /\ From(k, n) # From(k, m)
      BY <1>4, Zenon
    <3>2. Apart(offset[pending[From(k, n)]], range[pending[From(k, n)]].size,
                offset[pending[From(k, m)]], range[pending[From(k, m)]].size)
      BY <1>0, <3>1, Zenon DEF BlocksApart
    <3> QED
      BY <3>1, <3>2, Zenon
  <2> QED
    BY <1>1, <2>2, <2>4, <2>5, <2>6, ZenonT(60) DEF BlocksApart
<1>10. FreedIsDead'
  <2> SUFFICES ASSUME NEW q \in DOMAIN range, Placed(q),
                      \A n \in 1 .. Len(pending') : pending'[n] # q,
                      NEW j \in todo
               PROVE  range[q].last < range[j].first
    BY <1>1 DEF FreedIsDead, Placed
  <2>1. CASE q = p
    <3>1. range[i] \in Ranges /\ range[j] \in Ranges /\ SortsBefore(i, j)
      BY <1>0, <1>1 DEF TypeInv, IsNext
    <3>2. range[i].first <= range[j].first
      BY <3>1 DEF SortsBefore, Ranges
    <3>3. range[q].last < range[i].first
      BY <1>1, <2>1
    <3> QED
      BY <3>1, <3>2, <3>3, <1>2, <2>1, SMTT(30) DEF Ranges
  <2>2. CASE q # p
    <3>1. \A m \in 1 .. Len(pending) : pending[m] # q
      <4> TAKE m \in 1 .. Len(pending)
      <4>1. CASE m = k
        BY <4>1, <2>2, SMTT(30)
      <4>2. CASE m # k
        <5>1. PICK n \in 1 .. Len(pending') : From(k, n) = m
          BY <4>2, <1>4
        <5>2. pending'[n] = pending[m]
          BY <5>1, <1>4
        <5> QED
          BY <5>2
      <4> QED
        BY <4>1, <4>2
    <3> QED
      BY <3>1, <1>0 DEF FreedIsDead
  <2> QED
    BY <2>1, <2>2
<1>11. PoolSound'
  BY <1>0, <1>1, ZenonT(60) DEF PoolSound, Placed, Top
<1> QED
  BY <1>7, <1>8, <1>9, <1>10, <1>11 DEF PoolInv

\* Item i takes bytes that no pending block holds.
LEMMA PlaceKeeps ==
    ASSUME PoolInv, NEW i \in todo, NEW o \in Nat,
           offset' = [offset EXCEPT ![i] = o], pending' = Append(pending, i),
           todo' = todo \ {i}, range' = range,
           poolEnd' \in Nat, poolEnd <= poolEnd', poolEnd' <= SegmentSize,
           o + range[i].size <= poolEnd',
           \A n \in 1 .. Len(pending) :
             Apart(offset[pending[n]], range[pending[n]].size, o, range[i].size)
    PROVE  /\ offset' \in [DOMAIN range -> Nat \cup {None}]
           /\ pending' \in Seq(DOMAIN range) /\ Len(pending') = Len(pending) + 1
           /\ Len(pending) \in Nat /\ pending'[Len(pending) + 1] = i
           /\ \A n \in 1 .. Len(pending) :
                pending'[n] = pending[n] /\ pending[n] # i /\ offset'[pending[n]] = offset[pending[n]]
           /\ offset'[i] = o
           /\ PendingPlaced' /\ FreedIsDead' /\ PoolSound'
           /\ \A n, m \in 1 .. Len(pending') :
                n # m => Apart(offset'[pending'[n]], range[pending'[n]].size,
                               offset'[pending'[m]], range[pending'[m]].size)
<1>0. TypeInv /\ PendingPlaced /\ BlocksApart /\ FreedIsDead /\ PoolSound
  BY DEF PoolInv
<1>1. i \in DOMAIN range /\ offset[i] = None /\ range[i] \in Ranges
      /\ pending \in Seq(DOMAIN range) /\ offset \in [DOMAIN range -> Nat \cup {None}]
  BY <1>0 DEF TypeInv, PendingPlaced
<1>2. /\ offset' \in [DOMAIN range -> Nat \cup {None}] /\ offset'[i] = o
      /\ \A q \in DOMAIN range : q # i => offset'[q] = offset[q]
  BY <1>1
<1>3. /\ pending' \in Seq(DOMAIN range) /\ Len(pending') = Len(pending) + 1
      /\ \A n \in 1 .. Len(pending) : pending'[n] = pending[n]
      /\ pending'[Len(pending) + 1] = i
  BY <1>1, Grown
<1>4. Len(pending) \in Nat /\ \A n \in 1 .. Len(pending) : pending[n] \in DOMAIN range
  BY <1>1, SeqFields
<1>5. \A n \in 1 .. Len(pending) : pending[n] # i /\ offset'[pending[n]] = offset[pending[n]]
  BY <1>0, <1>1, <1>2, <1>4 DEF PendingPlaced
<1>6. \A n \in 1 .. Len(pending') : n \in 1 .. Len(pending) \/ n = Len(pending) + 1
  BY <1>3, <1>4
<1>7. PendingPlaced'
  <2>1. \A j \in todo' : offset'[j] = None
    BY <1>0, <1>2 DEF PendingPlaced, TypeInv
  <2>2. \A n \in 1 .. Len(pending') : offset'[pending'[n]] # None
    <3>1. o # None
      BY SegmentAssumption, ZenonT(60)
    <3> QED
      BY <3>1, <1>0, <1>2, <1>3, <1>5, <1>6 DEF PendingPlaced
  <2>3. \A n, m \in 1 .. Len(pending') : n # m => pending'[n] # pending'[m]
    BY <1>0, <1>3, <1>5, <1>6, SMTT(30) DEF PendingPlaced
  <2> QED
    BY <2>1, <2>2, <2>3 DEF PendingPlaced
<1>8. FreedIsDead'
  <2> SUFFICES ASSUME NEW q \in DOMAIN range, offset'[q] # None,
                      \A n \in 1 .. Len(pending') : pending'[n] # q,
                      NEW j \in todo'
               PROVE  range[q].last < range[j].first
    BY DEF FreedIsDead, Placed
  <2>1. q # i
    BY <1>3, <1>4
  <2>2. Placed(q) /\ \A n \in 1 .. Len(pending) : pending[n] # q
    BY <2>1, <1>2, <1>3, <1>4, SMTT(30) DEF Placed
  <2> QED
    BY <2>2, <1>0, SMTT(30) DEF FreedIsDead
<1>9. \A n, m \in 1 .. Len(pending') :
        n # m => Apart(offset'[pending'[n]], range[pending'[n]].size,
                       offset'[pending'[m]], range[pending'[m]].size)
  <2> TAKE n, m \in 1 .. Len(pending')
  <2> HAVE n # m
  <2>1. CASE n \in 1 .. Len(pending) /\ m \in 1 .. Len(pending)
    BY <2>1, <1>0, <1>3, <1>5 DEF BlocksApart
  <2>2. CASE n \in 1 .. Len(pending) /\ m = Len(pending) + 1
    BY <2>2, <1>2, <1>3, <1>5
  <2>3. CASE n = Len(pending) + 1 /\ m \in 1 .. Len(pending)
    <3>1. Apart(offset[pending[m]], range[pending[m]].size, o, range[i].size)
      BY <2>3
    <3> QED
      BY <2>3, <3>1, <1>2, <1>3, <1>5 DEF Apart
  <2> QED
    BY <2>1, <2>2, <2>3, <1>6
<1>10. ASSUME NEW q \in DOMAIN range, q # i, offset[q] # None,
              range[q].first <= range[i].last, range[i].first <= range[q].last
       PROVE  Apart(offset[q], range[q].size, o, range[i].size)
  <2>1. \E n \in 1 .. Len(pending) : pending[n] = q
    <3> SUFFICES ASSUME \A n \in 1 .. Len(pending) : pending[n] # q PROVE FALSE
      OBVIOUS
    <3>1. range[q].last < range[i].first
      BY <1>0, <1>10 DEF FreedIsDead, Placed
    <3>2. range[q] \in Ranges
      BY <1>0 DEF TypeInv
    <3> QED
      BY <3>1, <3>2, <1>1, <1>10 DEF Ranges
  <2> QED
    BY <2>1
<1>11. PoolSound'
  <2>1. \A q \in DOMAIN range : offset'[q] # None => offset'[q] + range[q].size <= poolEnd'
    <3> TAKE q \in DOMAIN range
    <3> HAVE offset'[q] # None
    <3>1. CASE q = i
      BY <3>1, <1>2
    <3>2. CASE q # i
      <4>1. offset[q] \in Nat /\ offset'[q] = offset[q] /\ range[q].size \in Nat
        BY <3>2, <1>0, <1>1, <1>2 DEF TypeInv, Ranges
      <4>2. offset[q] + range[q].size <= poolEnd /\ poolEnd \in Nat
        BY <4>1, <1>0, SegmentAssumption DEF PoolSound, Placed, Top, TypeInv
      <4> QED
        BY <4>1, <4>2
    <3> QED
      BY <3>1, <3>2
  <2>2. ASSUME NEW q \in DOMAIN range, NEW r \in DOMAIN range, q # r,
               offset'[q] # None, offset'[r] # None,
               range[q].first <= range[r].last, range[r].first <= range[q].last
        PROVE  Apart(offset'[q], range[q].size, offset'[r], range[r].size)
    <3>1. CASE q # i /\ r # i
      BY <2>2, <3>1, <1>0, <1>2 DEF PoolSound, Placed, Top, Apart
    <3>2. CASE r = i
      BY <2>2, <3>2, <1>2, <1>10
    <3>3. CASE q = i
      <4>1. Apart(offset[r], range[r].size, o, range[i].size)
        BY <2>2, <3>3, <1>2, <1>10, ZenonT(60)
      <4> QED
        BY <2>2, <3>3, <4>1, <1>2 DEF Apart
    <3> QED
      BY <3>1, <3>2, <3>3
  <2> QED
    BY <2>1, <2>2 DEF PoolSound, Placed, Top, Apart
<1> QED
  BY <1>2, <1>3, <1>4, <1>5, <1>7, <1>8, <1>9, <1>11

LEMMA ExtendHolds ==
    ASSUME PoolInv, NEW i \in todo, Extend(i), todo' = todo \ {i}, range' = range
    PROVE  PoolInv'
<1>0. TypeInv /\ PendingPlaced /\ BlocksApart /\ FreedIsDead /\ PoolSound
  BY DEF PoolInv
<1>1. poolEnd \in Nat /\ range[i].size \in Nat /\ SegmentSize \in Nat
  <2>1. poolEnd \in Nat /\ range[i] \in Ranges
    BY <1>0, Zenon DEF TypeInv
  <2> QED
    BY <2>1, SegmentAssumption DEF Ranges
<1>2. CASE UNCHANGED <<offset, pending, poolEnd, free>>
  <2>1. TypeInv'
    BY <1>0, <1>2 DEF TypeInv
  <2>2. PendingPlaced' /\ BlocksApart'
    BY <1>0, <1>2, Zenon DEF PendingPlaced, BlocksApart
  <2>3. FreedIsDead' /\ PoolSound'
    BY <1>0, <1>2, Zenon DEF FreedIsDead, PoolSound, Placed, Top
  <2> QED
    BY <2>1, <2>2, <2>3, Zenon DEF PoolInv
<1>3. CASE /\ ~(poolEnd + range[i].size > SegmentSize)
           /\ offset' = [offset EXCEPT ![i] = poolEnd] /\ pending' = Append(pending, i)
           /\ poolEnd' = poolEnd + range[i].size /\ free' = free
  <2>1. \A n \in 1 .. Len(pending) :
          Apart(offset[pending[n]], range[pending[n]].size, poolEnd, range[i].size)
    <3> TAKE n \in 1 .. Len(pending)
    <3>1. pending[n] \in DOMAIN range /\ offset[pending[n]] # None
      BY <1>0, SeqFields, SMTT(30) DEF TypeInv, PendingPlaced
    <3> QED
      BY <3>1, <1>0 DEF PoolSound, Placed, Top, Apart
  <2>2. poolEnd' \in Nat /\ poolEnd <= poolEnd' /\ poolEnd' <= SegmentSize
        /\ poolEnd + range[i].size <= poolEnd'
    <3>1. poolEnd' = poolEnd + range[i].size /\ ~(poolEnd + range[i].size > SegmentSize)
      BY <1>3, Zenon
    <3> QED
      BY <1>1, <3>1
  <2>3. /\ offset' \in [DOMAIN range -> Nat \cup {None}]
        /\ pending' \in Seq(DOMAIN range) /\ Len(pending') = Len(pending) + 1
        /\ Len(pending) \in Nat /\ pending'[Len(pending) + 1] = i
        /\ \A n \in 1 .. Len(pending) :
             pending'[n] = pending[n] /\ pending[n] # i /\ offset'[pending[n]] = offset[pending[n]]
        /\ offset'[i] = poolEnd
        /\ PendingPlaced' /\ FreedIsDead' /\ PoolSound'
        /\ \A n, m \in 1 .. Len(pending') :
             n # m => Apart(offset'[pending'[n]], range[pending'[n]].size,
                            offset'[pending'[m]], range[pending'[m]].size)
    BY <1>1, <1>3, <2>1, <2>2, PlaceKeeps, Zenon
  <2>4. TypeInv'
    BY <1>0, <1>3, <2>2, <2>3 DEF TypeInv
  <2>5. \A m \in 1 .. Len(free) : free[m] \in Blocks /\ free[m].off + free[m].size <= poolEnd
    BY <1>0, SeqFields DEF BlocksApart, TypeInv
  <2>6. \A m \in 1 .. Len(free) : free[m].off + free[m].size <= poolEnd'
    BY <2>2, <2>5, <1>1, SMTT(30) DEF Blocks
  <2>7. \A n \in 1 .. Len(pending'), m \in 1 .. Len(free) :
          Apart(offset'[pending'[n]], range[pending'[n]].size, free[m].off, free[m].size)
    <3> TAKE n \in 1 .. Len(pending'), m \in 1 .. Len(free)
    <3>1. CASE n \in 1 .. Len(pending)
      BY <3>1, <2>3, <1>0, ZenonT(60) DEF BlocksApart
    <3>2. CASE n = Len(pending) + 1
      <4>1. /\ offset'[pending'[n]] = poolEnd /\ free[m] \in Blocks
            /\ free[m].off + free[m].size <= poolEnd
        BY <1>3, <3>2, <2>3, <2>5, <1>1, ZenonT(60)
      <4> QED
        BY <4>1, ZenonT(60) DEF Apart, Blocks
    <3>3. n \in 1 .. Len(pending) \/ n = Len(pending) + 1
      <4>1. Len(pending) \in Nat /\ n \in 1 .. Len(pending) + 1
        BY <2>3, Zenon
      <4> QED
        BY <4>1
    <3> QED
      BY <3>1, <3>2, <3>3, Zenon
  <2>8. BlocksApart'
    BY <1>0, <1>3, <2>3, <2>6, <2>7, Zenon DEF BlocksApart
  <2> QED
    BY <2>3, <2>4, <2>8, Zenon DEF PoolInv
<1> QED
  BY <1>2, <1>3 DEF Extend

\* What Carve leaves free: blocks that were free, or the tail of block k.
LEMMA CarveProperties ==
    ASSUME PoolInv, NEW k \in 1 .. Len(free), NEW size \in Nat \ {0}, size <= free[k].size,
           NEW c, c = Carve(k, size)
    PROVE  /\ c \in Seq(Blocks)
           /\ \A n \in 1 .. Len(c) :
                \/ \E m \in 1 .. Len(free) : m # k /\ c[n] = free[m]
                \/ c[n] = [off |-> free[k].off + size, size |-> free[k].size - size]
           /\ \A n, m \in 1 .. Len(c) :
                n # m => Apart(c[n].off, c[n].size, c[m].off, c[m].size)
<1>0. free \in Seq(Blocks) /\ BlocksApart
  BY DEF PoolInv, TypeInv
<1> DEFINE w == Without(free, k)
           tail == [off |-> free[k].off + size, size |-> free[k].size - size]
<1>1. /\ w \in Seq(Blocks) /\ Len(w) = Len(free) - 1
      /\ \A n \in 1 .. Len(w) :
           /\ w[n] = free[From(k, n)]
           /\ From(k, n) \in 1 .. Len(free) /\ From(k, n) # k
      /\ \A n, m \in 1 .. Len(w) : n # m => From(k, n) # From(k, m)
  <2>1. free \in Seq(Blocks) /\ k \in 1 .. Len(free) /\ w = Without(free, k)
    BY <1>0
  <2> HIDE DEF w, tail
  <2>2. w \in Seq(Blocks) /\ Shortened(free, k, w)
    BY <2>1, WithoutProperties, Zenon
  <2> QED
    BY <2>2, Zenon DEF Shortened
<1> HIDE DEF w
<1>2. free[k] \in Blocks
  BY <1>0, SeqFields, ZenonT(60)
<1>3. Len(w) \in Nat
  BY <1>1, SeqFields
<1>4. \A n, m \in 1 .. Len(w) : n # m => Apart(w[n].off, w[n].size, w[m].off, w[m].size)
  <2> TAKE n, m \in 1 .. Len(w)
  <2> HAVE n # m
  <2>1. From(k, n) # From(k, m) /\ From(k, n) \in 1 .. Len(free) /\ From(k, m) \in 1 .. Len(free)
        /\ w[n] = free[From(k, n)] /\ w[m] = free[From(k, m)]
    BY <1>1, Zenon
  <2> QED
    BY <2>1, <1>0 DEF BlocksApart
<1>5. CASE ~(free[k].size > size)
  <2>1. c = w
    BY <1>5, Zenon DEF Carve, w
  <2> QED
    BY <2>1, <1>1, <1>4, ZenonT(60)
<1>6. CASE free[k].size > size
  <2>1. c = Append(w, tail) /\ tail \in Blocks
    BY <1>2, <1>6, SMTT(30) DEF Carve, w, Blocks
  <2>2. /\ c \in Seq(Blocks) /\ Len(c) = Len(w) + 1 /\ c[Len(w) + 1] = tail
        /\ \A n \in 1 .. Len(w) : c[n] = w[n]
    <3> HIDE DEF tail
    <3> QED
      BY <2>1, <1>1, Grown
  <2>3. \A n \in 1 .. Len(c) : n \in 1 .. Len(w) \/ n = Len(w) + 1
    BY <2>2, <1>3
  <2>4. \A n \in 1 .. Len(w) : /\ Apart(w[n].off, w[n].size, tail.off, tail.size)
                               /\ Apart(tail.off, tail.size, w[n].off, w[n].size)
    <3> TAKE n \in 1 .. Len(w)
    <3>1. w[n] \in Blocks /\ Apart(w[n].off, w[n].size, free[k].off, free[k].size)
      <4>1. /\ From(k, n) \in 1 .. Len(free) /\ From(k, n) # k /\ w[n] = free[From(k, n)]
        BY <1>1
      <4>2. free[From(k, n)] \in Blocks
        BY <4>1, <1>0, SeqFields
      <4> QED
        BY <4>1, <4>2, <1>0, ZenonT(60) DEF BlocksApart
    <3> QED
      BY <3>1, <1>2, SMTT(30) DEF Apart, Blocks
  <2>5. \A n, m \in 1 .. Len(c) : n # m => Apart(c[n].off, c[n].size, c[m].off, c[m].size)
    <3> HIDE DEF tail
    <3> QED
      BY <2>2, <2>3, <2>4, <1>4, ZenonT(60)
  <2> QED
    BY <2>2, <2>3, <2>5, <1>1, ZenonT(60)
<1> QED
  BY <1>5, <1>6, Zenon

\* A part of a block is apart from whatever the block is apart from.
LEMMA ApartPart ==
    ASSUME NEW a \in Nat, NEW m \in Nat, NEW b \in Nat, NEW n \in Nat, NEW c \in Nat, NEW q \in Nat,
           b <= c, c + q <= b + n, Apart(a, m, b, n) \/ Apart(b, n, a, m)
    PROVE  Apart(a, m, c, q) /\ Apart(c, q, a, m)
BY DEF Apart

LEMMA ReuseHolds ==
    ASSUME PoolInv, NEW i \in todo, NEW k \in 1 .. Len(free), Reuse(i, k),
           todo' = todo \ {i}, range' = range
    PROVE  PoolInv'
<1> DEFINE o == free[k].off
           size == range[i].size
<1>0. TypeInv /\ PendingPlaced /\ BlocksApart /\ FreedIsDead /\ PoolSound
  BY DEF PoolInv
<1>1. free[k] \in Blocks /\ range[i] \in Ranges /\ poolEnd \in Nat
  BY <1>0, SeqFields DEF TypeInv
<1>2. size \in Nat \ {0} /\ o \in Nat /\ free[k].size \in Nat
  BY <1>1, ZenonT(60) DEF Ranges, Blocks
<1>3. /\ offset' = [offset EXCEPT ![i] = o] /\ pending' = Append(pending, i)
      /\ free' = Carve(k, size) /\ poolEnd' = poolEnd /\ size <= free[k].size
  BY <1>2, ZenonT(60) DEF Reuse
<1>4. ASSUME NEW n \in 1 .. Len(pending)
      PROVE  /\ offset[pending[n]] \in Nat /\ range[pending[n]].size \in Nat
             /\ Apart(offset[pending[n]], range[pending[n]].size, o, free[k].size)
             /\ Apart(offset[pending[n]], range[pending[n]].size, o, size)
  <2>1. pending[n] \in DOMAIN range /\ offset[pending[n]] # None
    BY <1>0, SeqFields DEF TypeInv, PendingPlaced
  <2>2. offset[pending[n]] \in Nat /\ range[pending[n]] \in Ranges
    BY <1>0, <2>1 DEF TypeInv
  <2>3. range[pending[n]].size \in Nat
    BY <2>2 DEF Ranges
  <2>4. Apart(offset[pending[n]], range[pending[n]].size, o, free[k].size)
    BY <1>0, ZenonT(60) DEF BlocksApart
  <2>5. Apart(offset[pending[n]], range[pending[n]].size, o, size)
    BY <1>2, <1>3, <2>2, <2>3, <2>4, SMTT(30) DEF Apart
  <2> QED
    BY <2>2, <2>3, <2>4, <2>5
<1>5. poolEnd' \in Nat /\ poolEnd <= poolEnd' /\ poolEnd' <= SegmentSize /\ o + size <= poolEnd'
  <2>1. o + free[k].size <= poolEnd
    BY <1>0, SMTT(30) DEF BlocksApart
  <2> QED
    BY <2>1, <1>0, <1>1, <1>2, <1>3, SMTT(30) DEF PoolSound
<1>6. /\ offset' \in [DOMAIN range -> Nat \cup {None}]
      /\ pending' \in Seq(DOMAIN range) /\ Len(pending') = Len(pending) + 1
      /\ Len(pending) \in Nat /\ pending'[Len(pending) + 1] = i
      /\ \A n \in 1 .. Len(pending) :
           pending'[n] = pending[n] /\ pending[n] # i /\ offset'[pending[n]] = offset[pending[n]]
      /\ offset'[i] = o
      /\ PendingPlaced' /\ FreedIsDead' /\ PoolSound'
      /\ \A n, m \in 1 .. Len(pending') :
           n # m => Apart(offset'[pending'[n]], range[pending'[n]].size,
                          offset'[pending'[m]], range[pending'[m]].size)
  BY <1>2, <1>3, <1>4, <1>5, PlaceKeeps, Zenon
<1>7. /\ free' \in Seq(Blocks)
      /\ \A n \in 1 .. Len(free') :
           \/ \E m \in 1 .. Len(free) : m # k /\ free'[n] = free[m]
           \/ free'[n] = [off |-> free[k].off + size, size |-> free[k].size - size]
      /\ \A n, m \in 1 .. Len(free') :
           n # m => Apart(free'[n].off, free'[n].size, free'[m].off, free'[m].size)
  <2> HIDE DEF o, size
  <2>1. k \in 1 .. Len(free) /\ size \in Nat \ {0} /\ size <= free[k].size /\ free' = Carve(k, size)
    BY <1>2, <1>3, SMTT(30)
  <2> QED
    BY <2>1, CarveProperties
<1>8. TypeInv'
  BY <1>0, <1>5, <1>6, <1>7, ZenonT(60) DEF TypeInv
<1>9. ASSUME NEW n \in 1 .. Len(free')
      PROVE  /\ free'[n].off + free'[n].size <= poolEnd'
             /\ \A m \in 1 .. Len(pending') :
                  Apart(offset'[pending'[m]], range[pending'[m]].size, free'[n].off, free'[n].size)
  <2>1. ASSUME NEW m \in 1 .. Len(free), m # k, free'[n] = free[m]
        PROVE  /\ free'[n].off + free'[n].size <= poolEnd'
               /\ Apart(o, size, free'[n].off, free'[n].size)
               /\ \A q \in 1 .. Len(pending) :
                    Apart(offset[pending[q]], range[pending[q]].size, free'[n].off, free'[n].size)
    <3>1. free[m] \in Blocks /\ Apart(o, free[k].size, free[m].off, free[m].size)
      BY <1>0, <2>1, SeqFields, SMTT(30) DEF TypeInv, BlocksApart
    <3>2. Apart(o, size, free[m].off, free[m].size)
      <4>1. free[m].off \in Nat /\ free[m].size \in Nat /\ o <= o /\ o + size <= o + free[k].size
        BY <3>1, <1>2, <1>3, SMTT(30) DEF Blocks
      <4> HIDE DEF o, size
      <4> QED
        BY <3>1, <4>1, <1>2, ApartPart, ZenonT(60)
    <3> QED
      BY <3>2, <2>1, <1>0, <1>3, Zenon DEF BlocksApart
  <2>2. ASSUME free'[n] = [off |-> o + size, size |-> free[k].size - size]
        PROVE  /\ free'[n].off + free'[n].size <= poolEnd'
               /\ Apart(o, size, free'[n].off, free'[n].size)
               /\ \A q \in 1 .. Len(pending) :
                    Apart(offset[pending[q]], range[pending[q]].size, free'[n].off, free'[n].size)
    <3>1. free'[n].off = o + size /\ free'[n].size = free[k].size - size
      BY <2>2
    <3>2. o + free[k].size <= poolEnd /\ free[k].size \in Nat
      BY <1>0, <1>2, ZenonT(60) DEF BlocksApart
    <3>3. free'[n].off + free'[n].size <= poolEnd'
      BY <3>1, <3>2, <1>2, <1>3
    <3>4. Apart(o, size, free'[n].off, free'[n].size)
      BY <3>1, <1>2, SMTT(30) DEF Apart
    <3>5. \A q \in 1 .. Len(pending) :
            Apart(offset[pending[q]], range[pending[q]].size, free'[n].off, free'[n].size)
      <4>1. /\ o <= free'[n].off /\ free'[n].off + free'[n].size <= o + free[k].size
            /\ free'[n].off \in Nat /\ free'[n].size \in Nat
        <5> HIDE DEF o, size
        <5> QED
          BY <3>1, <3>2, <1>2, <1>3, SMTT(30)
      <4> HIDE DEF o, size
      <4> QED
        BY <4>1, <3>2, <1>2, <1>4, ApartPart, Zenon
    <3> QED
      BY <3>3, <3>4, <3>5
  <2>3. /\ free'[n].off + free'[n].size <= poolEnd'
        /\ Apart(o, size, free'[n].off, free'[n].size)
        /\ \A q \in 1 .. Len(pending) :
             Apart(offset[pending[q]], range[pending[q]].size, free'[n].off, free'[n].size)
    BY <1>7, <2>1, <2>2, Zenon
  <2>4. \A m \in 1 .. Len(pending') : m \in 1 .. Len(pending) \/ m = Len(pending) + 1
    BY <1>6, SMTT(30)
  <2> QED
    BY <2>3, <2>4, <1>6, ZenonT(60)
<1>10. BlocksApart'
  BY <1>6, <1>7, <1>9, Zenon DEF BlocksApart
<1> QED
  BY <1>6, <1>8, <1>10 DEF PoolInv

\* hbm_pool_planning's offsets, for every bundle: two items alive in a common
\* step never share a byte of the pool, and the pool stays in its segment.
THEOREM PoolSoundAlways == PoolSpec => []PoolSound
<1>1. PoolInit => PoolInv
  BY InitHolds
<1>2. PoolInv /\ [PoolNext]_poolVars => PoolInv'
  <2> SUFFICES ASSUME PoolInv, [PoolNext]_poolVars PROVE PoolInv'
    OBVIOUS
  <2>1. CASE UNCHANGED poolVars
    BY <2>1 DEF poolVars, PoolInv, TypeInv, PendingPlaced, BlocksApart, FreedIsDead, PoolSound,
                Placed, Top
  <2>2. ASSUME NEW D \in SUBSET Items, NEW r \in [D -> Ranges], BeginBundle(r)
        PROVE  PoolInv'
    BY <2>2, BeginHolds
  <2>3. ASSUME NEW i \in todo, NEW k \in 1 .. Len(pending), FreeExpired(i, k) PROVE PoolInv'
    BY <2>3, FreeHolds
  <2>4. ASSUME NEW i \in todo, Allocate(i) PROVE PoolInv'
    BY <2>4, ExtendHolds, ReuseHolds DEF Allocate
  <2> QED
    BY <2>1, <2>2, <2>3, <2>4, ZenonT(60) DEF PoolNext, PlaceStep
<1>3. PoolInv => PoolSound
  BY DEF PoolInv
<1> QED
  BY <1>1, <1>2, <1>3, PTL DEF PoolSpec

-----------------------------------------------------------------------------
(* The layout solvers: numbers and lifetimes *)

\* A set of natural numbers that is not empty has a least element ...
LEMMA Least ==
  ASSUME NEW S, S \subseteq Nat, S # {}
  PROVE  \E x \in S : \A y \in S : x <= y
<1> DEFINE Less == {p \in Nat \X Nat : p[1] < p[2]}
<1>1. IsWellFoundedOn(Less, Nat)
  BY NatLessThanWellFounded DEF OpToRel
<1>2. PICK x \in S : \A y \in S : ~(<<y, x>> \in Less)
  <2> HIDE DEF Less
  <2> QED
    BY <1>1, WFMin, Zenon
<1>3. \A y \in S : y < x => <<y, x>> \in Less
  OBVIOUS
<1>4. \A y \in S : ~(y < x)
  <2> HIDE DEF Less
  <2> QED
    BY <1>2, <1>3, Zenon
<1> QED
  BY <1>4

\* ... which Min returns, and when it is bounded a greatest one, which Max returns.
LEMMA MinIs ==
  ASSUME NEW S, S \subseteq Nat, S # {}
  PROVE  Min(S) \in S /\ Min(S) \in Nat /\ \A y \in S : Min(S) <= y
<1>1. \E x \in S : \A y \in S : x <= y
  BY Least, Zenon
<1> QED
  BY <1>1, Zenon DEF Min

LEMMA MaxIs ==
  ASSUME NEW S, NEW m \in Nat, S \subseteq 0 .. m, S # {}
  PROVE  Max(S) \in S /\ Max(S) \in Nat /\ \A y \in S : y <= Max(S)
<1> DEFINE Over == {x \in Nat : \A y \in S : y <= x}
<1>1. Over \subseteq Nat /\ m \in Over
  OBVIOUS
<1>2. PICK x \in Over : \A y \in Over : x <= y
  <2> HIDE DEF Over
  <2> QED
    BY <1>1, Least, Zenon
<1>3. x \in S
  <2> SUFFICES ASSUME x \notin S PROVE FALSE
    OBVIOUS
  <2>1. PICK z : z \in S
    OBVIOUS
  <2>2. x \in Nat /\ z \in Nat /\ z <= x /\ x # z
    BY <2>1
  <2>3. x - 1 \in Nat /\ \A y \in S : y <= x - 1
    BY <2>2
  <2>4. x - 1 \in Over
    BY <2>3
  <2>5. x <= x - 1
    BY <1>2, <2>4
  <2> QED
    BY <2>2, <2>5
<1>4. \E w \in S : \A y \in S : w >= y
  BY <1>3
<1>5. PICK w : w = Max(S) /\ w \in S /\ \A y \in S : w >= y
  BY <1>4, Zenon DEF Max
<1>6. w \in Nat /\ \A y \in S : y <= w
  BY <1>5
<1> QED
  BY <1>5, <1>6, Zenon

LEMMA AlignUpIs ==
  ASSUME NEW a \in Nat
  PROVE  AlignUp(a) \in Nat /\ AlignUp(a) >= a /\ AlignUp(a) % Alignment = 0
  BY LimitAssumption DEF AlignUp

Buffer == [uses : SUBSET Nat, read : BOOLEAN, size : Nat \ {0}, first : Nat, last : Nat,
           barred : BOOLEAN, parents : Seq(Nat)]

BuffersOk ==
  /\ bufs \in Seq(Buffer)
  /\ \A b \in Indices :
       /\ bufs[b].uses # {} /\ bufs[b].uses \subseteq bufs[b].first .. bufs[b].last - 1
       /\ bufs[b].read => bufs[b].parents = <<>>

LEMMA BufferFields ==
  ASSUME BuffersOk, NEW b \in Indices
  PROVE  /\ bufs[b].uses \in SUBSET Nat /\ Size(b) \in Nat \ {0}
         /\ bufs[b].first \in Nat /\ bufs[b].last \in Nat
         /\ bufs[b].parents \in Seq(Nat) /\ bufs[b].read \in BOOLEAN
<1>1. bufs[b] \in Buffer
  BY DEF BuffersOk, Indices
<1> QED
  BY <1>1 DEF Buffer, Size

\* A buffer lives from its first use to its last one at least.
LEMMA Lifetime ==
  ASSUME BuffersOk, NEW b \in Indices
  PROVE  /\ StartTime(b) \in Nat /\ EndTime(b) \in Nat
         /\ \A u \in bufs[b].uses : StartTime(b) <= u /\ u + 1 <= EndTime(b)
         /\ StartTime(b) < EndTime(b)
<1>1. PICK U, f, l : U = bufs[b].uses /\ f = bufs[b].first /\ l = bufs[b].last
  BY Zenon
<1>2. U \in SUBSET Nat /\ f \in Nat /\ l \in Nat /\ U # {} /\ U \subseteq f .. l - 1
  BY <1>1, BufferFields, Zenon DEF BuffersOk
<1>3. Min(U) \in Nat /\ \A u \in U : Min(U) <= u
  BY <1>2, MinIs, Zenon
<1>4. Max(U) \in Nat /\ \A u \in U : u <= Max(U)
  <2>1. U \subseteq 0 .. l
    BY <1>2
  <2> QED
    BY <1>2, <2>1, MaxIs, Zenon
<1>5. Min({Min(U), f}) \in Nat /\ Min({Min(U), f}) <= Min(U)
  <2>1. {Min(U), f} \subseteq Nat /\ {Min(U), f} # {} /\ Min(U) \in {Min(U), f}
    BY <1>2, <1>3
  <2> QED
    BY <2>1, MinIs, Zenon
<1>6. Max({Max(U) + 1, l}) \in Nat /\ Max(U) + 1 <= Max({Max(U) + 1, l})
  <2>1. /\ {Max(U) + 1, l} \subseteq 0 .. Max(U) + 1 + l /\ {Max(U) + 1, l} # {}
        /\ Max(U) + 1 \in {Max(U) + 1, l} /\ Max(U) + 1 + l \in Nat
    BY <1>2, <1>4
  <2> QED
    BY <2>1, MaxIs, Zenon
<1>7. StartTime(b) = Min({Min(U), f}) /\ EndTime(b) = Max({Max(U) + 1, l})
  BY <1>1, Zenon DEF StartTime, EndTime
<1>8. ASSUME NEW x \in Nat, NEW y \in Nat, x = StartTime(b), y = EndTime(b)
      PROVE  (\A u \in U : x <= u /\ u + 1 <= y) /\ x < y
  <2>1. \A u \in U : x <= u /\ u + 1 <= y
    BY <1>2, <1>3, <1>4, <1>5, <1>6, <1>7, <1>8
  <2>2. PICK u : u \in U
    BY <1>2
  <2> QED
    BY <1>2, <2>1, <2>2
<1> QED
  BY <1>1, <1>5, <1>6, <1>7, <1>8, Zenon

\* What is accessed by more than one operation lives for more than one step.
LEMMA UsedTwice ==
  ASSUME BuffersOk, NEW b \in Indices, Cardinality(bufs[b].uses) > 1
  PROVE  StartTime(b) + 1 < EndTime(b)
<1>1. PICK U : U = bufs[b].uses
  BY Zenon
<1>2. PICK u \in U : u \in Nat
  BY <1>1, BufferFields, Zenon DEF BuffersOk
<1>3. PICK v \in U : v # u
  <2> SUFFICES ASSUME U = {u} PROVE FALSE
    BY <1>2, Zenon
  <2>1. Cardinality({u}) = 1
    BY FS_Singleton, Zenon
  <2> QED
    BY <1>1, <2>1
<1>4. v \in Nat
  BY <1>1, <1>3, BufferFields, Zenon
<1>5. PICK x, y : x = StartTime(b) /\ y = EndTime(b)
  BY Zenon
<1>6. /\ x \in Nat /\ y \in Nat
      /\ x <= u /\ u + 1 <= y /\ x <= v /\ v + 1 <= y
  BY <1>1, <1>2, <1>3, <1>5, Lifetime, Zenon
<1>7. x + 1 < y
  BY <1>2, <1>3, <1>4, <1>6
<1> QED
  BY <1>5, <1>7, Zenon

\* A buffer that is handed over dies one step after its child comes alive, and
\* lives longer than that when it has a parent itself.
LEMMA Handoff ==
  ASSUME BuffersOk, InPlaceOK, NEW b \in Indices, NEW p \in Parents(b)
  PROVE  /\ p \in Indices /\ EndTime(p) = StartTime(b) + 1 /\ Size(b) <= Size(p)
         /\ \A q \in Parents(p) : StartTime(p) + 1 < EndTime(p)
<1>1. p \in Indices /\ EndTime(p) = StartTime(b) + 1 /\ Size(b) <= Size(p) /\ ParentIsRead(p)
  BY Zenon DEF InPlaceOK, Parents
<1>2. ASSUME NEW q \in Parents(p) PROVE ~bufs[p].read
  <2>1. bufs[p].parents # <<>>
    BY <1>2 DEF Parents, Range
  <2> QED
    BY <1>1, <2>1, Zenon DEF BuffersOk
<1>3. ASSUME NEW q \in Parents(p) PROVE StartTime(p) + 1 < EndTime(p)
  BY <1>1, <1>2, <1>3, UsedTwice, Zenon DEF ParentIsRead
<1> QED
  BY <1>1, <1>3, Zenon

-----------------------------------------------------------------------------
(* Layouts *)

\* NoClobber, said of a layout A.
Fits(A, b) == A[b] % Alignment = 0 /\ A[b] + Size(b) <= Limit
Meet(A, b, c) == A[b] < A[c] + Size(c) /\ A[c] < A[b] + Size(b)
Handed(A, p, k) ==
  p \in Parents(k) /\ A[p] = A[k] /\ Size(k) <= Size(p) /\ EndTime(p) = StartTime(k) + 1
Clear(A, b, c) == OverlapsInTime(b, c) /\ Meet(A, b, c) => Handed(A, b, c) \/ Handed(A, c, b)
Layouts == [Indices -> Nat \cup {Unplaced}]
Sound(A) ==
  \A b \in Indices : A[b] # Unplaced =>
     Fits(A, b) /\ \A c \in Indices \ {b} : A[c] # Unplaced => Clear(A, b, c)

LEMMA SoundIs == Sound(addr) => NoClobber
<1> SUFFICES ASSUME Sound(addr), NEW b \in Indices, addr[b] # Unplaced
             PROVE  /\ addr[b] % Alignment = 0 /\ addr[b] + Size(b) <= Limit
                    /\ \A c \in Indices \ {b} :
                         addr[c] # Unplaced /\ OverlapsInTime(b, c) /\ AddressesMeet(b, c) =>
                            \E p, k \in {b, c} :
                                /\ p \in Parents(k)
                                /\ addr[p] = addr[k] /\ Size(k) <= Size(p)
                                /\ EndTime(p) = StartTime(k) + 1
  BY Zenon DEF NoClobber
<1>1. Fits(addr, b) /\ \A c \in Indices \ {b} : addr[c] # Unplaced => Clear(addr, b, c)
  BY Zenon DEF Sound
<1>2. ASSUME NEW c \in Indices \ {b}, addr[c] # Unplaced, OverlapsInTime(b, c), AddressesMeet(b, c)
      PROVE  \E p, k \in {b, c} :
                /\ p \in Parents(k)
                /\ addr[p] = addr[k] /\ Size(k) <= Size(p)
                /\ EndTime(p) = StartTime(k) + 1
  <2>1. Handed(addr, b, c) \/ Handed(addr, c, b)
    BY <1>1, <1>2, Zenon DEF Clear, Meet, AddressesMeet
  <2> QED
    BY <2>1, Zenon DEF Handed
<1> QED
  BY <1>1, <1>2, Zenon DEF Fits

LEMMA ClearBothWays == ASSUME NEW A, NEW b, NEW c, Clear(A, b, c) PROVE Clear(A, c, b)
  BY Zenon DEF Clear, OverlapsInTime, Meet

\* One more buffer is placed.
LEMMA PlaceOne ==
  ASSUME BuffersOk, NEW A \in Layouts, Sound(A), NEW b \in Indices, A[b] = Unplaced, NEW a \in Nat,
         a % Alignment = 0, a + Size(b) <= Limit,
         NEW B, B = [A EXCEPT ![b] = a],
         \A c \in Indices \ {b} : A[c] # Unplaced => Clear(B, b, c)
  PROVE  B \in Layouts /\ Sound(B)
<1>1. B \in Layouts /\ B[b] = a /\ \A c \in Indices \ {b} : B[c] = A[c]
  BY Zenon DEF Layouts
<1>2. ASSUME NEW d \in Indices, B[d] # Unplaced
      PROVE  Fits(B, d) /\ \A c \in Indices \ {d} : B[c] # Unplaced => Clear(B, d, c)
  <2>1. CASE d = b
    BY <1>1, <2>1, Zenon DEF Fits
  <2>2. CASE d # b
    <3>1. A[d] # Unplaced /\ A[d] = B[d]
      BY <1>1, <1>2, <2>2, Zenon
    <3>2. Fits(B, d)
      BY <3>1, Zenon DEF Sound, Fits
    <3>3. ASSUME NEW c \in Indices \ {d}, B[c] # Unplaced PROVE Clear(B, d, c)
      <4>1. CASE c = b
        BY <2>2, <3>1, <4>1, ClearBothWays, Zenon
      <4>2. CASE c # b
        <5>1. Clear(A, d, c) /\ A[c] = B[c]
          BY <1>1, <3>1, <3>3, <4>2, Zenon DEF Sound
        <5> QED
          BY <3>1, <5>1, Zenon DEF Clear, Meet, Handed
      <4> QED
        BY <4>1, <4>2, Zenon
    <3> QED
      BY <3>2, <3>3, Zenon
  <2> QED
    BY <2>1, <2>2, Zenon
<1> QED
  BY <1>1, <1>2, Zenon DEF Sound

-----------------------------------------------------------------------------
(* FitSolver *)

FitType ==
  /\ BuffersOk /\ addr \in Layouts /\ done \in SUBSET Indices
  /\ \A b \in Indices : addr[b] # Unplaced => b \in done
FitInv ==
  /\ FitType /\ Sound(addr)
  /\ solver = "building" => done = {}
  /\ solver \in {"first", "best"} => InPlaceOK

Gap == [lo : Nat, hi : 0 .. Limit]
Outside(g, lo, hi) == g.hi <= lo \/ hi <= g.lo

\* What is left of the gaps lies inside them and outside [lo, hi).
LEMMA AllMinusIs ==
  ASSUME NEW G \in SUBSET Gap, NEW lo \in Nat, NEW hi \in Nat, NEW size,
         NEW h \in AllMinus(G, lo, hi, size)
  PROVE  h \in Gap /\ Outside(h, lo, hi) /\ \E g \in G : g.lo <= h.lo /\ h.hi <= g.hi
<1>1. PICK g \in G : \/ g.lo < lo /\ h = [lo |-> g.lo, hi |-> Min({g.hi, lo})]
                     \/ g.hi > hi /\ h = [lo |-> Max({g.lo, hi}), hi |-> g.hi]
  BY ZenonT(60) DEF AllMinus
<1>2. g.lo \in Nat /\ g.hi \in 0 .. Limit /\ Limit \in Nat
  BY LimitAssumption DEF Gap
<1>3. CASE g.lo < lo /\ h = [lo |-> g.lo, hi |-> Min({g.hi, lo})]
  <2>1. /\ {g.hi, lo} \subseteq Nat /\ {g.hi, lo} # {} /\ g.hi \in {g.hi, lo} /\ lo \in {g.hi, lo}
    BY <1>2
  <2>2. Min({g.hi, lo}) \in Nat /\ Min({g.hi, lo}) <= g.hi /\ Min({g.hi, lo}) <= lo
    BY <2>1, MinIs, Zenon
  <2>3. h.lo = g.lo /\ h.hi \in Nat /\ h.hi <= g.hi /\ h.hi <= lo
    BY <1>3, <2>2
  <2>4. h \in Gap
    BY <1>2, <1>3, <2>2 DEF Gap
  <2> QED
    BY <1>2, <2>3, <2>4 DEF Outside
<1>4. CASE g.hi > hi /\ h = [lo |-> Max({g.lo, hi}), hi |-> g.hi]
  <2>1. /\ {g.lo, hi} \subseteq 0 .. g.lo + hi /\ {g.lo, hi} # {} /\ g.lo + hi \in Nat
        /\ g.lo \in {g.lo, hi} /\ hi \in {g.lo, hi}
    BY <1>2
  <2>2. Max({g.lo, hi}) \in Nat /\ g.lo <= Max({g.lo, hi}) /\ hi <= Max({g.lo, hi})
    BY <2>1, MaxIs, Zenon
  <2>3. h.hi = g.hi /\ h.lo \in Nat /\ g.lo <= h.lo /\ hi <= h.lo
    BY <1>4, <2>2
  <2>4. h \in Gap
    BY <1>2, <1>4, <2>2 DEF Gap
  <2> QED
    BY <1>2, <2>3, <2>4 DEF Outside
<1> QED
  BY <1>1, <1>3, <1>4, Zenon

\* The recursion of BuildGaps.
Way(b, spare) == {o \in done \ spare : addr[o] # Unplaced /\ OverlapsInTime(o, b)}
GapStep(f, k, b, spare) ==
  IF k = 0 THEN {[lo |-> 0, hi |-> Limit]}
  ELSE IF k \in Way(b, spare) THEN AllMinus(f[k - 1], addr[k], addr[k] + Size(k), Size(b))
  ELSE f[k - 1]
Gaps(f, n, b, spare) == f = [k \in 0 .. n |-> GapStep(f, k, b, spare)]

LEMMA BuildGapsIs ==
  ASSUME NEW b, NEW spare
  PROVE  BuildGaps(b, spare) = (CHOOSE f : Gaps(f, Len(bufs), b, spare))[Len(bufs)]
  BY Zenon DEF BuildGaps, Gaps, GapStep, Way

LEMMA GapsExist ==
  ASSUME NEW b, NEW spare, NEW n \in Nat
  PROVE  \E f : Gaps(f, n, b, spare)
<1> DEFINE Bad == {m \in Nat : ~\E f : Gaps(f, m, b, spare)}
<1>1. ASSUME NEW m \in Bad, \A k \in Bad : m <= k
      PROVE  FALSE
  <2>1. CASE m = 0
    <3>1. PICK f : f = [k \in 0 .. 0 |-> {[lo |-> 0, hi |-> Limit]}]
      BY Zenon
    <3>2. \A k \in 0 .. 0 : GapStep(f, k, b, spare) = {[lo |-> 0, hi |-> Limit]}
      <4>1. \A k \in 0 .. 0 : k = 0
        OBVIOUS
      <4> QED
        BY <4>1, Zenon DEF GapStep
    <3>3. Gaps(f, 0, b, spare)
      BY <3>1, <3>2, Zenon DEF Gaps
    <3> QED
      BY <2>1, <3>3, Zenon
  <2>2. CASE m # 0
    <3>1. m - 1 \in Nat /\ m - 1 \notin Bad
      BY <1>1, <2>2
    <3>2. PICK f : Gaps(f, m - 1, b, spare)
      BY <3>1, Zenon
    <3>3. PICK h : h = [k \in 0 .. m |-> GapStep(f, k, b, spare)]
      BY Zenon
    <3>4. ASSUME NEW k \in 0 .. m PROVE GapStep(h, k, b, spare) = GapStep(f, k, b, spare)
      <4>1. k # 0 => k - 1 \in 0 .. m - 1 /\ k - 1 \in 0 .. m
        BY <3>1
      <4>2. k # 0 => h[k - 1] = f[k - 1]
        BY <3>2, <3>3, <4>1, Zenon DEF Gaps
      <4> QED
        BY <4>2, Zenon DEF GapStep
    <3>5. Gaps(h, m, b, spare)
      BY <3>3, <3>4, Zenon DEF Gaps
    <3> QED
      BY <3>5, Zenon
  <2> QED
    BY <2>1, <2>2, Zenon
<1>2. Bad = {}
  <2> SUFFICES ASSUME Bad # {} PROVE FALSE
    BY Zenon
  <2>1. PICK m \in Bad : \A k \in Bad : m <= k
    <3>1. Bad \subseteq Nat
      BY Zenon
    <3> HIDE DEF Bad
    <3> QED
      BY <3>1, Least, Zenon
  <2> QED
    BY <1>1, <2>1, Zenon
<1> QED
  BY <1>2, Zenon

\* The space BuildGaps offers is needed by nobody that is in the way.
LEMMA GapsFree ==
  ASSUME FitType, NEW b, NEW spare, NEW g \in BuildGaps(b, spare)
  PROVE  g \in Gap /\ \A o \in Way(b, spare) : Outside(g, addr[o], addr[o] + Size(o))
<1>1. PICK f : f = (CHOOSE x : Gaps(x, Len(bufs), b, spare))
  BY Zenon
<1>2. Len(bufs) \in Nat
  BY DEF FitType, BuffersOk
<1>3. Gaps(f, Len(bufs), b, spare)
  BY <1>1, <1>2, GapsExist, Zenon
<1> DEFINE Good(k) == \A h \in f[k] : h \in Gap /\ \A o \in Way(b, spare) :
                        o <= k => Outside(h, addr[o], addr[o] + Size(o))
<1> DEFINE Bad == {k \in 0 .. Len(bufs) : ~Good(k)}
<1>4. ASSUME NEW o \in Way(b, spare)
      PROVE  o \in 1 .. Len(bufs) /\ addr[o] \in Nat /\ addr[o] + Size(o) \in Nat
  <2>1. o \in Indices /\ addr[o] # Unplaced
    BY <1>4, Zenon DEF Way, FitType
  <2>2. addr[o] \in Nat /\ Size(o) \in Nat
    BY <2>1, BufferFields, Zenon DEF FitType, Layouts
  <2> QED
    BY <2>1, <2>2 DEF Indices
<1>5. ASSUME NEW m \in Bad, \A k \in Bad : m <= k
      PROVE  FALSE
  <2>0. m \in Nat /\ m \in 0 .. Len(bufs) /\ f[m] = GapStep(f, m, b, spare)
    BY <1>2, <1>3 DEF Gaps
  <2>1. CASE m = 0
    <3>1. f[m] = {[lo |-> 0, hi |-> Limit]}
      BY <2>0, <2>1, Zenon DEF GapStep
    <3>2. [lo |-> 0, hi |-> Limit] \in Gap
      BY LimitAssumption DEF Gap
    <3>3. ASSUME NEW o \in Way(b, spare) PROVE ~(o <= m)
      BY <1>2, <1>4, <2>1
    <3> QED
      BY <3>1, <3>2, <3>3, Zenon
  <2>2. CASE m # 0
    <3>1. m - 1 \in 0 .. Len(bufs) /\ ~(m <= m - 1)
      BY <1>2, <2>0, <2>2
    <3>2. Good(m - 1)
      BY <1>5, <3>1, Zenon
    <3>3. CASE m \in Way(b, spare)
      <4>1. PICK lo, hi : lo = addr[m] /\ hi = addr[m] + Size(m)
        BY Zenon
      <4>2. lo \in Nat /\ hi \in Nat /\ f[m] = AllMinus(f[m - 1], lo, hi, Size(b))
        BY <1>4, <2>0, <2>2, <3>3, <4>1, Zenon DEF GapStep
      <4>3. ASSUME NEW h \in f[m]
            PROVE  h \in Gap /\ \A o \in Way(b, spare) :
                     o <= m => Outside(h, addr[o], addr[o] + Size(o))
        <5>0. f[m - 1] \in SUBSET Gap
          BY <3>2, Zenon
        <5>1. h \in Gap /\ Outside(h, lo, hi) /\ \E x \in f[m - 1] : x.lo <= h.lo /\ h.hi <= x.hi
          <6>1. PICK G \in SUBSET Gap : G = f[m - 1]
            BY <5>0, Zenon
          <6>2. lo \in Nat /\ hi \in Nat /\ h \in AllMinus(G, lo, hi, Size(b))
            BY <4>2, <4>3, <6>1, Zenon
          <6>3. h \in Gap /\ Outside(h, lo, hi) /\ \E x \in G : x.lo <= h.lo /\ h.hi <= x.hi
            BY <6>2, AllMinusIs
          <6> QED
            BY <6>1, <6>3, Zenon
        <5>2. PICK x \in f[m - 1] : x.lo <= h.lo /\ h.hi <= x.hi
          BY <5>1, Zenon
        <5>3. ASSUME NEW o \in Way(b, spare), o <= m
              PROVE  Outside(h, addr[o], addr[o] + Size(o))
          <6>1. CASE o = m
            BY <4>1, <5>1, <6>1, Zenon
          <6>2. CASE o # m
            <7>1. o <= m - 1
              BY <1>2, <1>4, <2>0, <5>3, <6>2
            <7>2. Outside(x, addr[o], addr[o] + Size(o)) /\ x \in Gap
              BY <3>2, <5>2, <7>1, Zenon
            <7>3. PICK s, t : s = addr[o] /\ t = addr[o] + Size(o)
              BY Zenon
            <7>4. s \in Nat /\ t \in Nat /\ Outside(x, s, t)
              BY <1>4, <7>2, <7>3, Zenon
            <7>5. Outside(h, s, t)
              BY <5>1, <5>2, <7>2, <7>4, LimitAssumption DEF Gap, Outside
            <7> QED
              BY <7>3, <7>5, Zenon
          <6> QED
            BY <6>1, <6>2, Zenon
        <5> QED
          BY <5>1, <5>3, Zenon
      <4> QED
        BY <4>3, Zenon
    <3>4. CASE m \notin Way(b, spare)
      <4>1. f[m] = f[m - 1]
        BY <2>0, <2>2, <3>4, Zenon DEF GapStep
      <4>2. ASSUME NEW o \in Way(b, spare), o <= m PROVE o <= m - 1
        <5>1. o # m
          BY <3>4, <4>2, Zenon
        <5> QED
          BY <1>2, <1>4, <2>0, <4>2, <5>1
      <4> QED
        BY <3>2, <4>1, <4>2, Zenon
    <3> QED
      BY <3>3, <3>4, Zenon
  <2> QED
    BY <2>1, <2>2, Zenon
<1>6. Bad = {}
  <2> SUFFICES ASSUME Bad # {} PROVE FALSE
    BY Zenon
  <2>1. PICK m \in Bad : \A k \in Bad : m <= k
    <3>1. Bad \subseteq Nat
      BY <1>2
    <3> HIDE DEF Bad
    <3> QED
      BY <3>1, Least, Zenon
  <2> QED
    BY <1>5, <2>1, Zenon
<1>7. Good(Len(bufs)) /\ g \in f[Len(bufs)]
  <2>1. Len(bufs) \in 0 .. Len(bufs)
    BY <1>2
  <2> QED
    BY <1>1, <1>6, <2>1, BuildGapsIs, Zenon
<1>8. ASSUME NEW o \in Way(b, spare) PROVE o <= Len(bufs)
  BY <1>2, <1>4
<1> QED
  BY <1>7, <1>8, Zenon

\* While the list is built nothing is placed.
LEMMA BuildingKeeps ==
  ASSUME BuffersOk, addr \in Layouts, \A b \in Indices : addr[b] = Unplaced, Building
  PROVE  /\ BuffersOk' /\ (addr \in Layouts)' /\ (\A b \in Indices : addr[b] = Unplaced)'
         /\ Sound(addr)' /\ solver' = "building" /\ Indices \subseteq Indices'
         /\ UNCHANGED <<group, solver>>
<1>1. PICK c \in Candidates, ps \in ParentLists : AddBuffer(c, ps)
  BY Zenon DEF Building
<1>2. PICK r : r = [uses |-> c.uses, read |-> c.read, size |-> c.size, first |-> c.first,
                    last |-> c.last, barred |-> c.barred, parents |-> ps]
  BY Zenon
<1>3. /\ bufs' = Append(bufs, r) /\ addr' = Append(addr, Unplaced) /\ (c.read => ps = <<>>)
      /\ UNCHANGED <<group, solver>> /\ solver = "building"
  BY <1>1, <1>2, Zenon DEF AddBuffer
<1>4. r \in Buffer /\ r.uses # {} /\ r.uses \subseteq r.first .. r.last - 1 /\ (r.read => r.parents = <<>>)
  <2>1. /\ c.size \in Nat \ {0} /\ c.read \in BOOLEAN /\ c.barred \in BOOLEAN
        /\ c.first \in Nat /\ c.last \in Nat /\ c.uses # {} /\ c.uses \subseteq c.first .. c.last - 1
        /\ ps \in Seq(Nat)
    BY CandidateAssumption, ParentsAssumption, Zenon
  <2>2. c.uses \in SUBSET Nat
    BY <2>1
  <2>3. r \in Buffer
    BY <1>2, <2>1, <2>2 DEF Buffer
  <2> QED
    BY <1>2, <1>3, <2>1, <2>3
<1>5. PICK n \in Nat : n = Len(bufs) /\ Indices = 1 .. n
  BY DEF BuffersOk, Indices
<1>6. /\ bufs' \in Seq(Buffer) /\ Len(bufs') = n + 1 /\ bufs'[n + 1] = r
      /\ \A b \in 1 .. n : bufs'[b] = bufs[b]
  BY <1>3, <1>4, <1>5 DEF BuffersOk
<1>7. Indices' = 1 .. n + 1
  BY <1>6 DEF Indices
<1>8. addr' \in [1 .. n + 1 -> Nat \cup {Unplaced}] /\ \A b \in 1 .. n + 1 : addr'[b] = Unplaced
  <2>1. addr \in Seq(Nat \cup {Unplaced}) /\ Len(addr) = n
    BY <1>5 DEF Layouts
  <2>2. /\ addr' \in Seq(Nat \cup {Unplaced}) /\ Len(addr') = n + 1 /\ addr'[n + 1] = Unplaced
        /\ \A b \in 1 .. n : addr'[b] = addr[b]
    BY <1>3, <2>1
  <2>3. ASSUME NEW b \in 1 .. n + 1 PROVE addr'[b] = Unplaced
    <3>1. b = n + 1 \/ b \in 1 .. n
      BY <1>5
    <3> QED
      BY <1>5, <2>2, <3>1, Zenon
  <2> QED
    BY <2>2, <2>3
<1>9. BuffersOk'
  <2>1. ASSUME NEW b \in 1 .. n + 1
        PROVE  /\ bufs'[b].uses # {} /\ bufs'[b].uses \subseteq bufs'[b].first .. bufs'[b].last - 1
               /\ bufs'[b].read => bufs'[b].parents = <<>>
    <3>1. CASE b = n + 1
      BY <1>4, <1>6, <3>1, Zenon
    <3>2. CASE b # n + 1
      <4>1. b \in 1 .. n
        BY <1>5, <3>2
      <4> QED
        BY <1>5, <1>6, <4>1, Zenon DEF BuffersOk
    <3> QED
      BY <3>1, <3>2, Zenon
  <2> QED
    BY <1>6, <1>7, <2>1, Zenon DEF BuffersOk
<1>10. (addr \in Layouts)' /\ (\A b \in Indices : addr[b] = Unplaced)' /\ Indices \subseteq Indices'
  BY <1>5, <1>7, <1>8 DEF Layouts
<1>11. Sound(addr)'
  BY <1>10, Zenon DEF Sound
<1> QED
  BY <1>3, <1>9, <1>10, <1>11, Zenon

\* Nothing that is said of the buffers depends on anything but the list.
LEMMA SameBuffers ==
  ASSUME bufs' = bufs
  PROVE  /\ BuffersOk' <=> BuffersOk
         /\ InPlaceOK' <=> InPlaceOK
         /\ Indices' = Indices /\ Layouts' = Layouts /\ Placeable' = Placeable
         /\ Sound(addr)' <=> Sound(addr')
<1>1. Indices' = Indices /\ Layouts' = Layouts
  BY Zenon DEF Indices, Layouts
<1>2. BuffersOk' <=> BuffersOk
  BY <1>1, Zenon DEF BuffersOk
<1>3. ASSUME NEW b \in Indices
      PROVE  /\ StartTime(b)' = StartTime(b) /\ EndTime(b)' = EndTime(b) /\ Size(b)' = Size(b)
             /\ Parents(b)' = Parents(b) /\ (ParentIsRead(b)' <=> ParentIsRead(b))
  BY <1>1, Zenon DEF StartTime, EndTime, Size, Parents, ParentIsRead
<1>4. \A b \in Indices : \A p \in Parents(b) : p \in Indices
  BY Zenon DEF Parents
<1>5. InPlaceOK' <=> InPlaceOK
  BY <1>1, <1>3, <1>4, Zenon DEF InPlaceOK
<1>6. Placeable' = Placeable
  BY <1>1, Zenon DEF Placeable, Size
<1>7. Sound(addr)' <=> Sound(addr')
  <2>1. ASSUME NEW b \in Indices, NEW c \in Indices
        PROVE  Clear(addr, b, c)' <=> Clear(addr', b, c)
    <3>1. OverlapsInTime(b, c)' <=> OverlapsInTime(b, c)
      BY <1>3, Zenon DEF OverlapsInTime
    <3>2. Meet(addr, b, c)' <=> Meet(addr', b, c)
      BY <1>3, Zenon DEF Meet
    <3>3. /\ Handed(addr, b, c)' <=> Handed(addr', b, c)
          /\ Handed(addr, c, b)' <=> Handed(addr', c, b)
      BY <1>3, Zenon DEF Handed
    <3> QED
      BY <3>1, <3>2, <3>3, Zenon DEF Clear
  <2>2. \A b \in Indices : Fits(addr, b)' <=> Fits(addr', b)
    BY <1>3, Zenon DEF Fits
  <2> QED
    BY <1>1, <2>1, <2>2, Zenon DEF Sound
<1> QED
  BY <1>1, <1>2, <1>5, <1>6, <1>7, Zenon

LEMMA PickGapIs ==
  ASSUME NEW G, NEW size, NEW g \in PickGap(G, size)
  PROVE  g \in G /\ AlignUp(g.lo) + size <= g.hi
  BY Zenon DEF PickGap

\* A buffer takes over the slot of a parent inside a gap.
LEMMA InPlaceClear ==
  ASSUME FitInv, InPlaceOK, NEW b \in Indices, addr[b] = Unplaced, NEW p \in Parents(b),
         addr[p] # Unplaced, NEW g \in BuildGaps(b, Parents(b)),
         g.lo <= addr[p], addr[p] + Size(p) <= g.hi,
         NEW B, B = [addr EXCEPT ![b] = addr[p]]
  PROVE  /\ addr[p] \in Nat /\ addr[p] % Alignment = 0 /\ addr[p] + Size(b) <= Limit
         /\ \A c \in Indices \ {b} : addr[c] # Unplaced => Clear(B, b, c)
<1>1. BuffersOk /\ addr \in Layouts /\ Sound(addr) /\ FitType
  BY Zenon DEF FitInv, FitType
<1>2. /\ p \in Indices /\ p # b /\ EndTime(p) = StartTime(b) + 1 /\ Size(b) <= Size(p)
      /\ \A q \in Parents(p) : StartTime(p) + 1 < EndTime(p)
  BY <1>1, Handoff, Zenon
<1>3. PICK a \in Nat : a = addr[p]
  BY <1>1, <1>2, Zenon DEF Layouts
<1>4. PICK sb \in Nat \ {0}, sp \in Nat \ {0} : sb = Size(b) /\ sp = Size(p)
  BY <1>1, <1>2, BufferFields, Zenon
<1>5. Fits(addr, p)
  BY <1>1, <1>2, Zenon DEF Sound
<1>6. a % Alignment = 0 /\ a + sb <= Limit
  <2>1. a % Alignment = 0 /\ a + sp <= Limit /\ sb <= sp
    BY <1>2, <1>3, <1>4, <1>5, Zenon DEF Fits
  <2> QED
    BY <1>3, <1>4, <2>1, LimitAssumption
<1>7. g \in Gap /\ \A o \in Way(b, Parents(b)) : Outside(g, addr[o], addr[o] + Size(o))
  BY <1>1, GapsFree, Zenon
<1>8. B[b] = a /\ \A c \in Indices \ {b} : B[c] = addr[c]
  BY <1>1, <1>3, Zenon DEF Layouts
<1>9. ASSUME NEW c \in Indices \ {b}, addr[c] # Unplaced PROVE Clear(B, b, c)
  <2> SUFFICES ASSUME OverlapsInTime(b, c), Meet(B, b, c) PROVE Handed(B, c, b)
    BY Zenon DEF Clear
  <2>1. PICK x \in Nat, sc \in Nat \ {0} : x = addr[c] /\ sc = Size(c)
    BY <1>1, <1>9, BufferFields, Zenon DEF Layouts
  <2>2. a < x + sc /\ x < a + sb
    BY <1>4, <1>8, <2>1, Zenon DEF Meet
  <2>3. CASE c = p
    BY <1>2, <1>3, <1>8, <2>3, Zenon DEF Handed
  <2>4. CASE c \in Parents(b) /\ c # p
    <3>1. /\ EndTime(c) = StartTime(b) + 1
          /\ \A q \in Parents(c) : StartTime(c) + 1 < EndTime(c)
      BY <1>1, <2>4, Handoff, Zenon
    <3>2. OverlapsInTime(p, c)
      BY <1>1, <1>2, <3>1, Lifetime, Zenon DEF OverlapsInTime
    <3>3. Meet(addr, p, c)
      <4>1. a < x + sc /\ x < a + sp
        BY <1>2, <1>4, <2>1, <2>2
      <4> QED
        BY <1>3, <1>4, <2>1, <4>1, Zenon DEF Meet
    <3>4. Handed(addr, p, c) \/ Handed(addr, c, p)
      BY <1>1, <1>2, <1>9, <2>4, <3>2, <3>3, Zenon DEF Sound, Clear
    <3>5. PICK tp \in Nat, tc \in Nat, t \in Nat :
            tp = StartTime(p) /\ tc = StartTime(c) /\ t = StartTime(b)
      BY <1>1, <1>2, Lifetime, Zenon
    <3>6. CASE Handed(addr, p, c)
      <4>1. t + 1 = tc + 1 /\ tc + 1 < t + 1
        BY <1>2, <3>1, <3>5, <3>6, Zenon DEF Handed
      <4> QED
        BY <3>5, <4>1
    <3>7. CASE Handed(addr, c, p)
      <4>1. t + 1 = tp + 1 /\ tp + 1 < t + 1
        BY <1>2, <3>1, <3>5, <3>7, Zenon DEF Handed
      <4> QED
        BY <3>5, <4>1
    <3> QED
      BY <3>4, <3>6, <3>7, Zenon
  <2>5. CASE c \notin Parents(b)
    <3>1. c \in Way(b, Parents(b))
      BY <1>1, <1>9, <2>5, Zenon DEF Way, OverlapsInTime, FitType
    <3>2. g.hi <= x \/ x + sc <= g.lo
      BY <1>7, <2>1, <3>1, Zenon DEF Outside
    <3>3. g.lo \in Nat /\ g.hi \in Nat /\ g.lo <= a /\ a + sp <= g.hi /\ sb <= sp
      BY <1>2, <1>3, <1>4, <1>7, LimitAssumption DEF Gap
    <3> QED
      BY <1>3, <1>4, <2>1, <2>2, <3>2, <3>3
  <2> QED
    BY <2>3, <2>4, <2>5, Zenon
<1> QED
  BY <1>3, <1>4, <1>6, <1>9, Zenon

\* A buffer goes to a gap of its own.
LEMMA OwnGapClear ==
  ASSUME FitInv, NEW b \in Indices, addr[b] = Unplaced, NEW g \in BuildGaps(b, {}),
         AlignUp(g.lo) + Size(b) <= g.hi, NEW B, B = [addr EXCEPT ![b] = AlignUp(g.lo)]
  PROVE  /\ AlignUp(g.lo) \in Nat /\ AlignUp(g.lo) % Alignment = 0 /\ AlignUp(g.lo) + Size(b) <= Limit
         /\ \A c \in Indices \ {b} : addr[c] # Unplaced => Clear(B, b, c)
<1>1. BuffersOk /\ addr \in Layouts /\ FitType
  BY Zenon DEF FitInv, FitType
<1>2. g \in Gap /\ \A o \in Way(b, {}) : Outside(g, addr[o], addr[o] + Size(o))
  BY <1>1, GapsFree, Zenon
<1>3. g.lo \in Nat /\ g.hi \in Nat /\ g.hi <= Limit /\ Limit \in Nat
  BY <1>2, LimitAssumption DEF Gap
<1>4. PICK a : a = AlignUp(g.lo) /\ a \in Nat /\ a >= g.lo /\ a % Alignment = 0
  BY <1>3, AlignUpIs, Zenon
<1>5. PICK sb \in Nat \ {0} : sb = Size(b)
  BY <1>1, BufferFields, Zenon
<1>6. a + sb <= g.hi
  BY <1>4, <1>5, Zenon
<1>7. a + sb <= Limit
  BY <1>3, <1>4, <1>5, <1>6
<1>8. B[b] = a /\ \A c \in Indices \ {b} : B[c] = addr[c]
  BY <1>1, <1>4, Zenon DEF Layouts
<1>9. ASSUME NEW c \in Indices \ {b}, addr[c] # Unplaced PROVE Clear(B, b, c)
  <2> SUFFICES ASSUME OverlapsInTime(b, c), Meet(B, b, c) PROVE FALSE
    BY Zenon DEF Clear
  <2>1. PICK x \in Nat, sc \in Nat \ {0} : x = addr[c] /\ sc = Size(c)
    BY <1>1, <1>9, BufferFields, Zenon DEF Layouts
  <2>2. a < x + sc /\ x < a + sb
    BY <1>5, <1>8, <2>1, Zenon DEF Meet
  <2>3. c \in Way(b, {})
    BY <1>1, <1>9, Zenon DEF Way, OverlapsInTime, FitType
  <2>4. g.hi <= x \/ x + sc <= g.lo
    BY <1>2, <2>1, <2>3, Zenon DEF Outside
  <2> QED
    BY <1>3, <1>4, <1>5, <1>6, <2>1, <2>2, <2>4
<1> QED
  BY <1>4, <1>5, <1>7, <1>9, Zenon

LEMMA PlaceNextKeeps ==
  ASSUME FitInv, PlaceNext
  PROVE  FitInv'
<1>1. PICK b \in Indices :
        LET inPlace == PickGap({g \in BuildGaps(b, Parents(b)) : ParentsIn(g, b) # {}}, Size(b))
            own == PickGap(FallbackGaps(b), Size(b))
            SlotIn(g) == addr[bufs[b].parents[Min(ParentsIn(g, b))]]
        IN  /\ NextBuffer(b) /\ done' = done \cup {b}
            /\ addr' = [addr EXCEPT ![b] =
                          IF inPlace # {} THEN SlotIn(CHOOSE g \in inPlace : TRUE)
                          ELSE IF own # {} THEN AlignUp((CHOOSE g \in own : TRUE).lo)
                          ELSE Unplaced]
  BY Zenon DEF PlaceNext
<1>2. bufs' = bufs /\ solver' = solver /\ solver \in {"first", "best"}
  BY Zenon DEF PlaceNext
<1>3. /\ b \notin done /\ BuffersOk /\ addr \in Layouts /\ Sound(addr) /\ InPlaceOK
      /\ done \in SUBSET Indices
      /\ \A c \in Indices : addr[c] # Unplaced => c \in done
  BY <1>1, <1>2, Zenon DEF NextBuffer, Ready, FitInv, FitType
<1>4. addr[b] = Unplaced
  BY <1>3, Zenon
<1> DEFINE inPlace == PickGap({g \in BuildGaps(b, Parents(b)) : ParentsIn(g, b) # {}}, Size(b))
           own == PickGap(FallbackGaps(b), Size(b))
<1>5. addr' \in Layouts /\ Sound(addr')
  <2>1. CASE inPlace # {}
    <3>1. PICK g \in inPlace : g = CHOOSE x \in inPlace : TRUE
      BY <2>1, Zenon
    <3>2. g \in BuildGaps(b, Parents(b)) /\ ParentsIn(g, b) # {}
      <4>1. g \in {x \in BuildGaps(b, Parents(b)) : ParentsIn(x, b) # {}}
        BY <3>1, PickGapIs, Zenon
      <4> QED
        BY <4>1, Zenon
    <3>3. PICK i : i = Min(ParentsIn(g, b)) /\ i \in ParentsIn(g, b)
      <4>1. ParentsIn(g, b) \subseteq DOMAIN bufs[b].parents
        BY Zenon DEF ParentsIn
      <4>2. DOMAIN bufs[b].parents \subseteq Nat
        <5>1. bufs[b].parents \in Seq(Nat)
          BY <1>3, BufferFields, Zenon
        <5> QED
          BY <5>1
      <4> QED
        BY <3>2, <4>1, <4>2, MinIs, Zenon
    <3>4. PICK p : p = bufs[b].parents[i]
      BY Zenon
    <3>5. /\ i \in DOMAIN bufs[b].parents /\ p \in done /\ addr[p] # Unplaced
          /\ g.lo <= addr[p] /\ addr[p] + Size(p) <= g.hi
      BY <3>3, <3>4, Zenon DEF ParentsIn
    <3>6. p \in Parents(b)
      <4>1. p \in Range(bufs[b].parents)
        BY <3>4, <3>5, Zenon DEF Range
      <4> QED
        BY <1>3, <3>5, <4>1, Zenon DEF Parents
    <3>7. addr' = [addr EXCEPT ![b] = addr[p]]
      BY <1>1, <2>1, <3>1, <3>3, <3>4, Zenon
    <3>8. PICK B : B = addr'
      BY Zenon
    <3>9. /\ addr[p] \in Nat /\ addr[p] % Alignment = 0 /\ addr[p] + Size(b) <= Limit
          /\ \A c \in Indices \ {b} : addr[c] # Unplaced => Clear(B, b, c)
      BY <1>3, <1>4, <3>2, <3>5, <3>6, <3>7, <3>8, InPlaceClear, Zenon
    <3>10. B \in Layouts /\ Sound(B)
      BY <1>3, <1>4, <3>7, <3>8, <3>9, PlaceOne, Zenon
    <3> QED
      BY <3>8, <3>10, Zenon
  <2>2. CASE inPlace = {} /\ own # {}
    <3>1. PICK g \in own : g = CHOOSE x \in own : TRUE
      BY <2>2, Zenon
    <3>2. g \in BuildGaps(b, {}) /\ AlignUp(g.lo) + Size(b) <= g.hi
      BY <3>1, PickGapIs, Zenon DEF FallbackGaps
    <3>3. PICK B : B = addr' /\ B = [addr EXCEPT ![b] = AlignUp(g.lo)]
      BY <1>1, <2>2, <3>1, Zenon
    <3>4. /\ AlignUp(g.lo) \in Nat /\ AlignUp(g.lo) % Alignment = 0 /\ AlignUp(g.lo) + Size(b) <= Limit
          /\ \A c \in Indices \ {b} : addr[c] # Unplaced => Clear(B, b, c)
      BY <1>4, <3>2, <3>3, OwnGapClear, Zenon
    <3>5. B \in Layouts /\ Sound(B)
      BY <1>3, <1>4, <3>3, <3>4, PlaceOne, Zenon
    <3> QED
      BY <3>3, <3>5, Zenon
  <2>3. CASE inPlace = {} /\ own = {}
    <3>1. addr' = [addr EXCEPT ![b] = addr[b]]
      BY <1>1, <1>4, <2>3, Zenon
    <3>2. addr' = addr
      BY <1>3, <3>1, Zenon DEF Layouts
    <3> QED
      BY <1>3, <3>2, Zenon
  <2> HIDE DEF inPlace, own
  <2> QED
    BY <2>1, <2>2, <2>3, Zenon
<1>6. \A c \in Indices : addr'[c] # Unplaced => c \in done'
  <2>1. \A c \in Indices \ {b} : addr'[c] = addr[c]
    BY <1>1, <1>3, Zenon DEF Layouts
  <2>2. done' = done \cup {b}
    BY <1>1, Zenon
  <2> QED
    BY <1>3, <2>1, <2>2, Zenon
<1>7. done' \in SUBSET Indices
  BY <1>1, <1>3, Zenon
<1>8. solver' # "building"
  BY <1>2
<1> QED
  BY <1>2, <1>3, <1>5, <1>6, <1>7, <1>8, SameBuffers, Zenon DEF FitInv, FitType

LEMMA FitStarts == PlanInit /\ FitInit => FitInv
<1> SUFFICES ASSUME PlanInit, FitInit PROVE FitInv
  BY Zenon
<1>1. bufs = <<>> /\ addr = <<>> /\ done = {} /\ solver = "building" /\ Indices = {}
  BY DEF PlanInit, FitInit, Indices
<1>2. BuffersOk
  BY <1>1 DEF BuffersOk
<1>3. addr \in Layouts
  BY <1>1 DEF Layouts
<1>4. Sound(addr)
  BY <1>1, Zenon DEF Sound
<1>5. solver \notin {"first", "best"}
  BY <1>1
<1> QED
  BY <1>1, <1>2, <1>3, <1>4, <1>5, Zenon DEF FitInv, FitType

LEMMA FitSteps ==
  FitInv /\ [FitNext \/ (Building /\ UNCHANGED done)]_<<planVars, done>> => FitInv'
<1> SUFFICES ASSUME FitInv, [FitNext \/ (Building /\ UNCHANGED done)]_<<planVars, done>>
             PROVE  FitInv'
  BY Zenon
<1>1. CASE Building /\ UNCHANGED done
  <2>1. solver = "building" /\ done = {}
    BY <1>1, Zenon DEF Building, AddBuffer, FitInv
  <2>2. BuffersOk /\ addr \in Layouts /\ \A b \in Indices : addr[b] = Unplaced
    BY <2>1, Zenon DEF FitInv, FitType
  <2>3. /\ BuffersOk' /\ (addr \in Layouts)' /\ (\A b \in Indices : addr[b] = Unplaced)'
        /\ Sound(addr)' /\ solver' = "building"
    BY <1>1, <2>2, BuildingKeeps, Zenon
  <2>4. solver' \notin {"first", "best"} /\ done' = {}
    BY <1>1, <2>1, <2>3
  <2> QED
    BY <2>3, <2>4, Zenon DEF FitInv, FitType
<1>2. CASE BeginFit
  <2>1. PICK s \in {"first", "best"} : StartPlan(s, <<>>)
    BY <1>2, Zenon DEF BeginFit
  <2>2. /\ UNCHANGED <<bufs, addr, done>> /\ solver' = (IF InPlaceOK THEN s ELSE "refused")
    BY <1>2, <2>1, Zenon DEF BeginFit, StartPlan
  <2>3. solver' # "building" /\ (solver' \in {"first", "best"} => InPlaceOK)
    BY <2>2
  <2> QED
    BY <2>2, <2>3, SameBuffers, Zenon DEF FitInv, FitType
<1>3. CASE UNCHANGED <<planVars, done>>
  <2>1. UNCHANGED <<bufs, addr, solver, done>>
    BY <1>3, Zenon DEF planVars
  <2> QED
    BY <2>1, SameBuffers, Zenon DEF FitInv, FitType
<1> QED
  BY <1>1, <1>2, <1>3, PlaceNextKeeps, Zenon DEF FitNext

\* First fit and best fit never place two buffers over one another that live at
\* the same time, but for the one step of a declared handoff: for any buffers,
\* lifetimes, sizes, parents, alignment and size of LX.
THEOREM FitNeverClobbers == FitSpec => []NoClobber
<1>1. FitInv => NoClobber
  BY SoundIs, Zenon DEF FitInv
<1> QED
  BY <1>1, FitStarts, FitSteps, PTL DEF FitSpec

-----------------------------------------------------------------------------
(* GreedySolver: one placement *)

\* u's slot has been handed on, and what now meets it comes later.
Chain(st, u, v) ==
  u \in st.reused /\ (EndTime(u) <= StartTime(v) \/ Handed(st.addr, u, v))
Chained(st) ==
  \A u, v \in st.usage : u # v /\ Meet(st.addr, u, v) => Chain(st, u, v) \/ Chain(st, v, u)
StateOk(st) ==
  /\ st.usage \in SUBSET Indices /\ st.addr \in Layouts /\ Sound(st.addr)
  /\ \A u \in st.usage : st.addr[u] # Unplaced
  /\ Chained(st)
Over(st, b) == \A d \in Indices : st.addr[d] # Unplaced /\ d \notin st.usage => EndTime(d) <= StartTime(b)

LEMMA InUse ==
  ASSUME BuffersOk, NEW st, StateOk(st), NEW u \in st.usage
  PROVE  /\ u \in Indices /\ st.addr[u] \in Nat /\ Size(u) \in Nat \ {0}
         /\ st.addr[u] + Size(u) \in 0 .. Limit
<1>1. u \in Indices /\ st.addr[u] # Unplaced /\ Fits(st.addr, u) /\ st.addr \in Layouts
  BY Zenon DEF StateOk, Sound
<1>2. st.addr[u] \in Nat /\ Size(u) \in Nat \ {0}
  BY <1>1, BufferFields, Zenon DEF Layouts
<1>3. st.addr[u] + Size(u) <= Limit
  BY <1>1, Zenon DEF Fits
<1> QED
  BY <1>1, <1>2, <1>3, LimitAssumption

\* A block that FindFreeBlock returns is aligned, inside LX and used by nobody.
LEMMA FreeBlock ==
  ASSUME BuffersOk, NEW st, StateOk(st), NEW size \in Nat \ {0}, NEW a, a = FindFreeBlock(st, size),
         a # Unplaced
  PROVE  /\ a \in Nat /\ a % Alignment = 0 /\ a + size <= Limit
         /\ \A u \in st.usage : a + size <= st.addr[u] \/ st.addr[u] + Size(u) <= a
<1>0. Limit \in Nat /\ Alignment \in Nat \ {0}
  BY LimitAssumption, Zenon
<1> DEFINE Lo(u) == st.addr[u]
           Hi(u) == st.addr[u] + Size(u)
           Highs == {Hi(u) : u \in st.usage}
           Lows == {Lo(u) : u \in st.usage}
           Above(e) == {Lo(v) : v \in {u \in st.usage : Lo(u) > e}}
           spanEnds == {e \in Highs : \A v \in st.usage : ~(Lo(v) <= e /\ e < Hi(v))}
           gaps == {e \in spanEnds : Above(e) # {} /\ AlignUp(e) + size <= Min(Above(e))}
<1>1. \A u \in st.usage : Lo(u) \in Nat /\ Hi(u) \in 0 .. Limit /\ Hi(u) \in Nat
  BY <1>0, InUse
<1>2. Highs \subseteq 0 .. Limit /\ Highs \subseteq Nat /\ Lows \subseteq Nat
  BY <1>1, Zenon
<1>3. /\ ~(Limit < size)
      /\ \/ (st.usage = {} \/ Min(Lows) >= size) /\ a = 0
         \/ st.usage # {} /\ a = AlignUp(Max(Highs)) /\ a + size <= Limit
         \/ gaps # {} /\ a = AlignUp(Min(gaps))
  BY ZenonT(60) DEF FindFreeBlock
<1>4. CASE (st.usage = {} \/ Min(Lows) >= size) /\ a = 0
  <2>1. a \in Nat /\ a % Alignment = 0 /\ a + size <= Limit
    BY <1>0, <1>3, <1>4
  <2>2. ASSUME NEW u \in st.usage PROVE a + size <= Lo(u)
    <3>1. Lows # {} /\ Lo(u) \in Lows
      BY Zenon
    <3>2. PICK m : m = Min(Lows) /\ m \in Nat /\ m <= Lo(u)
      <4> HIDE DEF Lows, Lo
      <4> QED
        BY <1>2, <3>1, MinIs, Zenon
    <3>3. m >= size
      BY <1>4, <3>2, Zenon
    <3>4. Lo(u) \in Nat
      BY <1>1, Zenon
    <3> HIDE DEF Lo
    <3> QED
      BY <1>4, <3>2, <3>3, <3>4
  <2> QED
    BY <2>1, <2>2, Zenon
<1>5. CASE st.usage # {} /\ a = AlignUp(Max(Highs)) /\ a + size <= Limit
  <2>1. Highs # {}
    BY <1>5, Zenon
  <2>2. PICK m : m = Max(Highs) /\ m \in Nat /\ \A y \in Highs : y <= m
    <3> HIDE DEF Highs
    <3> QED
      BY <1>0, <1>2, <2>1, MaxIs, Zenon
  <2>3. a \in Nat /\ a >= m /\ a % Alignment = 0
    BY <1>5, <2>2, AlignUpIs, Zenon
  <2>4. ASSUME NEW u \in st.usage PROVE Hi(u) <= a
    <3>1. Hi(u) <= m /\ Hi(u) \in Nat
      BY <1>1, <2>2, Zenon
    <3> HIDE DEF Hi
    <3> QED
      BY <2>2, <2>3, <3>1
  <2> QED
    BY <1>5, <2>3, <2>4, Zenon
<1>6. CASE gaps # {} /\ a = AlignUp(Min(gaps))
  <2>1. gaps \subseteq Nat
    BY <1>2, Zenon
  <2>2. PICK e : e = Min(gaps) /\ e \in gaps /\ e \in Nat
    <3> HIDE DEF gaps
    <3> QED
      BY <1>6, <2>1, MinIs, Zenon
  <2>3. a \in Nat /\ a >= e /\ a % Alignment = 0
    BY <1>6, <2>2, AlignUpIs, Zenon
  <2>4. /\ \A v \in st.usage : ~(Lo(v) <= e /\ e < Hi(v))
        /\ Above(e) # {} /\ AlignUp(e) + size <= Min(Above(e))
    BY <2>2, Zenon
  <2>5. Above(e) \subseteq Lows
    BY Zenon
  <2>6. PICK m : m = Min(Above(e)) /\ m \in Above(e) /\ m \in Nat /\ \A y \in Above(e) : m <= y
    <3>1. Above(e) \subseteq Nat
      BY <1>2, <2>5, Zenon
    <3> HIDE DEF Above
    <3> QED
      BY <2>4, <3>1, MinIs, Zenon
  <2>7. a + size <= m
    BY <1>6, <2>2, <2>4, <2>6, Zenon
  <2>8. a + size <= Limit
    <3>1. PICK v \in st.usage : m = Lo(v)
      BY <2>6, Zenon
    <3>2. m <= Limit
      <4>1. /\ st.addr[v] \in Nat /\ Size(v) \in Nat \ {0} /\ st.addr[v] + Size(v) \in 0 .. Limit
        BY InUse, Zenon
      <4> QED
        BY <1>0, <3>1, <4>1
    <3> QED
      BY <1>0, <2>3, <2>6, <2>7, <3>2
  <2>9. ASSUME NEW u \in st.usage PROVE a + size <= Lo(u) \/ Hi(u) <= a
    <3>1. Lo(u) \in Nat /\ Hi(u) \in Nat /\ ~(Lo(u) <= e /\ e < Hi(u)) /\ (Lo(u) > e => m <= Lo(u))
      BY <1>1, <2>4, <2>6, Zenon
    <3> HIDE DEF Lo, Hi
    <3> QED
      BY <2>2, <2>3, <2>6, <2>7, <3>1
  <2> QED
    BY <2>3, <2>8, <2>9, Zenon
<1> HIDE DEF gaps, Highs, Lows
<1> QED
  BY <1>3, <1>4, <1>5, <1>6, Zenon

\* A new placement next to those in use: what remains to be shown for it.
LEMMA NewPlacement ==
  ASSUME BuffersOk, NEW st, StateOk(st), NEW b \in Indices, st.addr[b] = Unplaced, Over(st, b),
         NEW a \in Nat, a % Alignment = 0, a + Size(b) <= Limit,
         NEW s2, s2.usage = st.usage \cup {b}, st.reused \subseteq s2.reused,
         s2.addr = [st.addr EXCEPT ![b] = a],
         \A c \in st.usage : Meet(s2.addr, b, c) =>
            /\ c \in s2.reused
            /\ EndTime(c) <= StartTime(b) \/ Handed(s2.addr, c, b)
  PROVE  StateOk(s2)
<1>1. PICK A, B : A = st.addr /\ B = s2.addr
  BY Zenon
<1>2. /\ st.usage \in SUBSET Indices /\ A \in Layouts /\ Sound(A)
      /\ (\A u \in st.usage : A[u] # Unplaced) /\ Chained(st)
  BY <1>1, Zenon DEF StateOk
<1>3. B = [A EXCEPT ![b] = a] /\ B[b] = a /\ \A c \in Indices \ {b} : B[c] = A[c]
  BY <1>1, <1>2, Zenon DEF Layouts
<1>4. ASSUME NEW c \in Indices \ {b}, A[c] # Unplaced PROVE Clear(B, b, c)
  <2>1. StartTime(b) \in Nat /\ EndTime(c) \in Nat
    BY Lifetime, Zenon
  <2>2. CASE EndTime(c) <= StartTime(b)
    <3>1. ~(StartTime(b) < EndTime(c))
      BY <2>1, <2>2
    <3> QED
      BY <3>1, Zenon DEF Clear, OverlapsInTime
  <2>3. CASE ~(EndTime(c) <= StartTime(b))
    <3>1. c \in st.usage
      BY <1>1, <1>4, <2>3, Zenon DEF Over
    <3>2. Meet(B, b, c) => Handed(B, c, b)
      BY <1>1, <2>3, <3>1, Zenon
    <3> QED
      BY <3>2, Zenon DEF Clear
  <2> QED
    BY <2>2, <2>3, Zenon
<1>5. B \in Layouts /\ Sound(B)
  BY <1>1, <1>2, <1>3, <1>4, PlaceOne, Zenon
<1>6. s2.usage \in SUBSET Indices /\ \A u \in s2.usage : B[u] # Unplaced
  <2>1. a # Unplaced
    BY UnplacedAssumption, Zenon
  <2> QED
    BY <1>2, <1>3, <2>1, Zenon
<1>7. ASSUME NEW u \in st.usage, Meet(B, b, u) PROVE Chain(s2, u, b)
  BY <1>1, <1>7, Zenon DEF Chain
<1>8. ASSUME NEW u \in st.usage \ {b}, NEW v \in st.usage \ {b}, Chain(st, u, v) PROVE Chain(s2, u, v)
  <2>1. B[u] = A[u] /\ B[v] = A[v] /\ u \in s2.reused
    BY <1>2, <1>3, <1>8, Zenon DEF Chain
  <2> QED
    BY <1>1, <1>8, <2>1, Zenon DEF Chain, Handed
<1>9. ASSUME NEW u \in s2.usage, NEW v \in s2.usage, u # v, Meet(B, u, v)
      PROVE  Chain(s2, u, v) \/ Chain(s2, v, u)
  <2>1. CASE u = b
    BY <1>7, <1>9, <2>1, Zenon
  <2>2. CASE v = b
    <3>1. Meet(B, b, u)
      BY <1>9, <2>2, Zenon DEF Meet
    <3> QED
      BY <1>7, <1>9, <2>2, <3>1, Zenon
  <2>3. CASE u # b /\ v # b
    <3>1. u \in st.usage \ {b} /\ v \in st.usage \ {b} /\ B[u] = A[u] /\ B[v] = A[v]
      BY <1>2, <1>3, <1>9, <2>3, Zenon
    <3>2. Meet(A, u, v)
      BY <1>9, <3>1, Zenon DEF Meet
    <3>3. Chain(st, u, v) \/ Chain(st, v, u)
      BY <1>1, <1>2, <1>9, <3>1, <3>2, Zenon DEF Chained
    <3> QED
      BY <1>8, <3>1, <3>3, Zenon
  <2> QED
    BY <2>1, <2>2, <2>3, Zenon
<1> QED
  BY <1>1, <1>5, <1>6, <1>9, Zenon DEF StateOk, Chained

\* A buffer that takes over the slot of p, which has not been handed on: what
\* else meets the slot handed it to p, or to one before p, and is dead.
LEMMA TakeOver ==
  ASSUME BuffersOk, InPlaceOK, NEW st, StateOk(st), NEW b \in Indices, st.addr[b] = Unplaced,
         Over(st, b), NEW p \in Parents(b), p \in st.usage, p \notin st.reused,
         NEW s2, s2.usage = st.usage \cup {b}, s2.reused = st.reused \cup {p},
         s2.addr = [st.addr EXCEPT ![b] = st.addr[p]]
  PROVE  StateOk(s2) /\ s2.addr[b] # Unplaced
<1>1. /\ p \in Indices /\ EndTime(p) = StartTime(b) + 1 /\ Size(b) <= Size(p)
      /\ \A q \in Parents(p) : StartTime(p) + 1 < EndTime(p)
  BY Handoff, Zenon
<1>2. PICK A, B : A = st.addr /\ B = s2.addr
  BY Zenon
<1>3. PICK a \in Nat : a = A[p]
  BY <1>2, InUse, Zenon
<1>4. PICK sb \in Nat \ {0}, sp \in Nat \ {0} : sb = Size(b) /\ sp = Size(p)
  BY <1>1, BufferFields, Zenon
<1>5. A \in Layouts /\ Fits(A, p) /\ Chained(st) /\ st.usage \in SUBSET Indices /\ A[p] # Unplaced
  BY <1>1, <1>2, Zenon DEF StateOk, Sound
<1>6. a % Alignment = 0 /\ a + sb <= Limit
  <2>1. a % Alignment = 0 /\ a + sp <= Limit /\ sb <= sp
    BY <1>1, <1>3, <1>4, <1>5, Zenon DEF Fits
  <2> QED
    BY <1>3, <1>4, <2>1, LimitAssumption
<1>7. /\ B = [A EXCEPT ![b] = a] /\ B[b] = a /\ p # b
      /\ \A c \in Indices \ {b} : B[c] = A[c]
  BY <1>2, <1>3, <1>5, Zenon DEF Layouts
<1>8. ASSUME NEW c \in st.usage, Meet(B, b, c)
      PROVE  c \in s2.reused /\ (EndTime(c) <= StartTime(b) \/ Handed(B, c, b))
  <2>1. CASE c = p
    BY <1>1, <1>3, <1>7, <2>1, Zenon DEF Handed
  <2>2. CASE c # p
    <3>1. c \in Indices /\ c # b /\ A[c] \in Nat /\ Size(c) \in Nat
      BY <1>2, InUse, Zenon DEF StateOk
    <3>2. Meet(A, p, c)
      <4>1. PICK x \in Nat, sc \in Nat : x = A[c] /\ sc = Size(c)
        BY <3>1, Zenon
      <4>2. a < x + sc /\ x < a + sb
        BY <1>4, <1>7, <1>8, <3>1, <4>1, Zenon DEF Meet
      <4>3. x < a + sp
        BY <1>1, <1>3, <1>4, <4>1, <4>2
      <4> QED
        BY <1>3, <1>4, <4>1, <4>2, <4>3, Zenon DEF Meet
    <3>3. Chain(st, c, p)
      BY <1>2, <1>5, <2>2, <3>2, Zenon DEF Chained, Chain
    <3>4. PICK e \in Nat, t \in Nat, tp \in Nat, ep \in Nat :
            e = EndTime(c) /\ t = StartTime(b) /\ tp = StartTime(p) /\ ep = EndTime(p) /\ tp < ep
      BY <1>1, <3>1, Lifetime, Zenon
    <3>5. e <= tp \/ (e = tp + 1 /\ tp + 1 < ep)
      BY <1>1, <3>3, <3>4, Zenon DEF Chain, Handed
    <3>6. e <= t
      <4>1. ep = t + 1
        BY <1>1, <3>4, Zenon
      <4> QED
        BY <3>4, <3>5, <4>1
    <3>7. c \in s2.reused
      BY <3>3, Zenon DEF Chain
    <3> QED
      BY <3>4, <3>6, <3>7, Zenon
  <2> QED
    BY <2>1, <2>2, Zenon
<1>9. st.reused \subseteq s2.reused /\ a + Size(b) <= Limit
  BY <1>4, <1>6, Zenon
<1>10. StateOk(s2)
  <2>1. s2.addr = [st.addr EXCEPT ![b] = a]
    BY <1>2, <1>3, Zenon
  <2>2. \A c \in st.usage : Meet(s2.addr, b, c) =>
           c \in s2.reused /\ (EndTime(c) <= StartTime(b) \/ Handed(s2.addr, c, b))
    BY <1>2, <1>8, Zenon
  <2> QED
    BY <1>6, <1>9, <2>1, <2>2, NewPlacement, ZenonT(60)
<1> QED
  BY <1>2, <1>3, <1>5, <1>7, <1>10, Zenon

\* TryAllocateOne for a buffer that is not placed.
LEMMA TryOne ==
  ASSUME BuffersOk, InPlaceOK, NEW st, StateOk(st), NEW b \in Indices, st.addr[b] = Unplaced,
         Over(st, b), NEW s2, s2 = TryAllocateOne(st, b)
  PROVE  /\ StateOk(s2) /\ s2.usage \in {st.usage, st.usage \cup {b}}
         /\ \A c \in Indices \ {b} : s2.addr[c] = st.addr[c]
         /\ s2.addr[b] # Unplaced => b \in s2.usage
<1>0. st.addr \in Layouts
  BY Zenon DEF StateOk
<1>1. CASE InPlaceSlots(st, b) # {}
  <2>1. PICK i : i = Min(InPlaceSlots(st, b)) /\ i \in InPlaceSlots(st, b)
    <3>1. InPlaceSlots(st, b) \subseteq DOMAIN bufs[b].parents
      BY Zenon DEF InPlaceSlots
    <3>2. DOMAIN bufs[b].parents \subseteq Nat
      <4>1. bufs[b].parents \in Seq(Nat)
        BY BufferFields, Zenon
      <4> QED
        BY <4>1
    <3> QED
      BY <1>1, <3>1, <3>2, MinIs, Zenon
  <2>2. PICK p : p = bufs[b].parents[i]
    BY Zenon
  <2>3. i \in DOMAIN bufs[b].parents /\ p \notin st.reused /\ p \in st.usage
    BY <2>1, <2>2, Zenon DEF InPlaceSlots
  <2>4. p \in Parents(b)
    <3>1. p \in Range(bufs[b].parents)
      BY <2>2, <2>3, Zenon DEF Range
    <3> QED
      BY <2>3, <3>1, Zenon DEF Parents, StateOk
  <2>5. s2 = [usage |-> st.usage \cup {b}, reused |-> st.reused \cup {p},
              addr |-> [st.addr EXCEPT ![b] = st.addr[p]]]
    BY <1>1, <2>1, <2>2, Zenon DEF TryAllocateOne
  <2>6. /\ s2.usage = st.usage \cup {b} /\ s2.reused = st.reused \cup {p}
        /\ s2.addr = [st.addr EXCEPT ![b] = st.addr[p]]
    BY <2>5
  <2>7. StateOk(s2)
    BY <2>3, <2>4, <2>6, TakeOver, Zenon
  <2> QED
    BY <1>0, <2>6, <2>7, Zenon DEF Layouts
<1>2. CASE InPlaceSlots(st, b) = {}
  <2>1. PICK block : block = FindFreeBlock(st, Size(b))
    BY Zenon
  <2>2. s2 = [usage |-> IF block = Unplaced THEN st.usage ELSE st.usage \cup {b},
              reused |-> st.reused, addr |-> [st.addr EXCEPT ![b] = block]]
    BY <1>2, <2>1, Zenon DEF TryAllocateOne
  <2>3. /\ s2.usage = (IF block = Unplaced THEN st.usage ELSE st.usage \cup {b})
        /\ s2.reused = st.reused /\ s2.addr = [st.addr EXCEPT ![b] = block]
    BY <2>2
  <2>4. CASE block = Unplaced
    <3>1. s2.usage = st.usage /\ s2.addr = [st.addr EXCEPT ![b] = st.addr[b]]
      BY <2>3, <2>4, Zenon
    <3>2. s2.addr = st.addr
      BY <1>0, <3>1, Zenon DEF Layouts
    <3> QED
      BY <2>3, <3>1, <3>2, Zenon DEF StateOk, Chained, Chain
  <2>5. CASE block # Unplaced
    <3>0. Size(b) \in Nat \ {0}
      BY BufferFields, Zenon
    <3>1. /\ block \in Nat /\ block % Alignment = 0 /\ block + Size(b) <= Limit
          /\ \A u \in st.usage : block + Size(b) <= st.addr[u] \/ st.addr[u] + Size(u) <= block
      BY <2>1, <2>5, <3>0, FreeBlock, Zenon
    <3>2. s2.usage = st.usage \cup {b}
      BY <2>3, <2>5, Zenon
    <3>3. s2.addr[b] = block /\ \A c \in Indices \ {b} : s2.addr[c] = st.addr[c]
      BY <1>0, <2>3, Zenon DEF Layouts
    <3>4. ASSUME NEW c \in st.usage PROVE ~Meet(s2.addr, b, c)
      <4>1. c \in Indices /\ st.addr[c] \in Nat /\ Size(c) \in Nat /\ c # b
        BY InUse, Zenon DEF StateOk
      <4>2. PICK x \in Nat, sc \in Nat, sb \in Nat : x = st.addr[c] /\ sc = Size(c) /\ sb = Size(b)
        BY <3>0, <4>1, Zenon
      <4>3. block + sb <= x \/ x + sc <= block
        BY <3>1, <4>2, Zenon
      <4>4. ~(block < x + sc /\ x < block + sb)
        BY <3>1, <4>2, <4>3
      <4> QED
        BY <3>3, <4>1, <4>2, <4>4, Zenon DEF Meet
    <3>5. StateOk(s2)
      BY <2>3, <3>1, <3>2, <3>4, NewPlacement, ZenonT(60)
    <3> QED
      BY <3>2, <3>3, <3>5, Zenon
  <2> QED
    BY <2>4, <2>5, Zenon
<1> QED
  BY <1>1, <1>2, Zenon
-----------------------------------------------------------------------------
(* GreedySolver: the members of a group, one after the other *)

AfterStep(f, k, ms) == IF k = 0 THEN State ELSE TryAllocateOne(f[k - 1], ms[k])
After(f, n, ms) == f = [k \in 0 .. n |-> AfterStep(f, k, ms)]

LEMMA AfterMembersIs ==
  ASSUME NEW ms
  PROVE  AfterMembers(ms) = (CHOOSE f : After(f, Len(ms), ms))[Len(ms)]
  BY Zenon DEF AfterMembers, After, AfterStep

LEMMA AfterExist ==
  ASSUME NEW ms, NEW n \in Nat
  PROVE  \E f : After(f, n, ms)
<1> DEFINE Bad == {m \in Nat : ~\E f : After(f, m, ms)}
<1>1. ASSUME NEW m \in Bad, \A k \in Bad : m <= k
      PROVE  FALSE
  <2>1. CASE m = 0
    <3>1. PICK f : f = [k \in 0 .. 0 |-> State]
      BY Zenon
    <3>2. \A k \in 0 .. 0 : AfterStep(f, k, ms) = State
      <4>1. \A k \in 0 .. 0 : k = 0
        OBVIOUS
      <4> QED
        BY <4>1, Zenon DEF AfterStep
    <3>3. After(f, 0, ms)
      BY <3>1, <3>2, Zenon DEF After
    <3> QED
      BY <2>1, <3>3, Zenon
  <2>2. CASE m # 0
    <3>1. m - 1 \in Nat /\ m - 1 \notin Bad
      BY <1>1, <2>2
    <3>2. PICK f : After(f, m - 1, ms)
      BY <3>1, Zenon
    <3>3. PICK h : h = [k \in 0 .. m |-> AfterStep(f, k, ms)]
      BY Zenon
    <3>4. ASSUME NEW k \in 0 .. m PROVE AfterStep(h, k, ms) = AfterStep(f, k, ms)
      <4>1. k # 0 => k - 1 \in 0 .. m - 1 /\ k - 1 \in 0 .. m
        BY <3>1
      <4>2. k # 0 => h[k - 1] = f[k - 1]
        BY <3>2, <3>3, <4>1, Zenon DEF After
      <4> QED
        BY <4>2, Zenon DEF AfterStep
    <3>5. After(h, m, ms)
      BY <3>3, <3>4, Zenon DEF After
    <3> QED
      BY <3>5, Zenon
  <2> QED
    BY <2>1, <2>2, Zenon
<1>2. Bad = {}
  <2> SUFFICES ASSUME Bad # {} PROVE FALSE
    BY Zenon
  <2>1. PICK m \in Bad : \A k \in Bad : m <= k
    <3>1. Bad \subseteq Nat
      BY Zenon
    <3> HIDE DEF Bad
    <3> QED
      BY <3>1, Least, Zenon
  <2> QED
    BY <1>1, <2>1, Zenon
<1> QED
  BY <1>2, Zenon

\* Members that are not placed yet, and that nothing dead can disturb.
Fresh(ms) ==
  /\ ms \in Seq(Indices) /\ \A i, j \in 1 .. Len(ms) : ms[i] = ms[j] => i = j
  /\ \A i \in 1 .. Len(ms) : addr[ms[i]] = Unplaced /\ Over(State, ms[i])
Reached(r, others) ==
  /\ StateOk(r)
  /\ \A c \in Indices : c \notin others => r.addr[c] = addr[c]
  /\ \A c \in Indices : r.addr[c] # Unplaced /\ c \notin r.usage => addr[c] # Unplaced /\ c \notin usage

LEMMA Members ==
  ASSUME BuffersOk, InPlaceOK, StateOk(State), NEW ms, Fresh(ms)
  PROVE  Reached(AfterMembers(ms), Range(ms))
<1>0. PICK n \in Nat : n = Len(ms) /\ DOMAIN ms = 1 .. n
  BY DEF Fresh
<1>1. PICK f : f = (CHOOSE x : After(x, n, ms))
  BY Zenon
<1>2. After(f, n, ms) /\ AfterMembers(ms) = f[n]
  BY <1>0, <1>1, AfterExist, AfterMembersIs, Zenon
<1> DEFINE Some(k) == {ms[i] : i \in 1 .. k}
           Good(k) == Reached(f[k], Some(k))
           Bad == {k \in 0 .. n : ~Good(k)}
<1>3. State.addr = addr /\ State.usage = usage
  BY DEF State
<1>4. ASSUME NEW m \in Bad, \A k \in Bad : m <= k
      PROVE  FALSE
  <2>0. m \in Nat /\ m \in 0 .. n /\ f[m] = AfterStep(f, m, ms) /\ ~Good(m)
    BY <1>2 DEF After
  <2>1. CASE m = 0
    <3>1. f[m] = State
      BY <2>0, <2>1, Zenon DEF AfterStep
    <3> QED
      BY <1>3, <2>0, <3>1, Zenon DEF Reached
  <2>2. CASE m # 0
    <3>1. m - 1 \in 0 .. n /\ ~(m <= m - 1) /\ m \in 1 .. n /\ \A i \in 1 .. m - 1 : i \in 1 .. n /\ i # m
      BY <2>0, <2>2
    <3>2. Good(m - 1)
      BY <1>4, <3>1, Zenon
    <3>3. PICK st, b : st = f[m - 1] /\ b = ms[m]
      BY Zenon
    <3>4. f[m] = TryAllocateOne(st, b) /\ b \in Indices /\ addr[b] = Unplaced /\ Over(State, b)
      <4>1. ms \in Seq(Indices) /\ m \in 1 .. Len(ms)
        BY <1>0, <3>1, Zenon DEF Fresh
      <4>2. ms[m] \in Indices
        BY <4>1
      <4> QED
        BY <1>0, <2>0, <2>2, <3>1, <3>3, <4>2, Zenon DEF AfterStep, Fresh
    <3>5. /\ StateOk(st) /\ \A c \in Indices : c \notin Some(m - 1) => st.addr[c] = addr[c]
          /\ \A c \in Indices : st.addr[c] # Unplaced /\ c \notin st.usage => addr[c] # Unplaced /\ c \notin usage
      BY <3>2, <3>3, Zenon DEF Reached
    <3>6. b \notin Some(m - 1)
      BY <1>0, <3>1, <3>3, Zenon DEF Fresh
    <3>7. st.addr[b] = Unplaced /\ Over(st, b)
      BY <1>3, <3>4, <3>5, <3>6, Zenon DEF Over
    <3>8. PICK s2 : s2 = f[m]
      BY Zenon
    <3>9. /\ StateOk(s2) /\ s2.usage \in {st.usage, st.usage \cup {b}}
          /\ \A c \in Indices \ {b} : s2.addr[c] = st.addr[c]
          /\ s2.addr[b] # Unplaced => b \in s2.usage
      <4>1. StateOk(st) /\ s2 = TryAllocateOne(st, b)
        BY <3>4, <3>5, <3>8, Zenon
      <4> HIDE DEF Some, Good, Bad
      <4> QED
        BY <3>4, <3>7, <4>1, TryOne, SMTT(30)
    <3>10. ASSUME NEW c \in Indices, c \notin Some(m) PROVE s2.addr[c] = addr[c]
      <4>0. m \in Nat \ {0}
        BY <2>0, <2>2, Zenon
      <4>1. 1 .. m - 1 \subseteq 1 .. m /\ m \in 1 .. m
        BY <4>0
      <4>2. c # b /\ c \notin Some(m - 1)
        BY <3>3, <3>10, <4>1, Zenon
      <4> QED
        BY <3>5, <3>9, <4>2, Zenon
    <3>11. ASSUME NEW c \in Indices, s2.addr[c] # Unplaced, c \notin s2.usage
           PROVE  addr[c] # Unplaced /\ c \notin usage
      <4>1. c # b /\ s2.addr[c] = st.addr[c] /\ c \notin st.usage
        BY <3>9, <3>11, Zenon
      <4> QED
        BY <3>5, <3>11, <4>1, Zenon
    <3>12. Reached(s2, Some(m))
      BY <3>9, <3>10, <3>11, Zenon DEF Reached
    <3> QED
      BY <2>0, <3>8, <3>12, Zenon
  <2> QED
    BY <2>1, <2>2, Zenon
<1>5. Bad = {}
  <2> SUFFICES ASSUME Bad # {} PROVE FALSE
    BY Zenon
  <2>1. PICK m \in Bad : \A k \in Bad : m <= k
    <3>1. Bad \subseteq Nat
      BY <1>0
    <3> HIDE DEF Bad
    <3> QED
      BY <3>1, Least, Zenon
  <2> QED
    BY <1>4, <2>1, Zenon
<1>6. Reached(f[n], Some(n))
  <2>1. n \in 0 .. n
    BY <1>0
  <2> QED
    BY <1>5, <2>1, Zenon
<1>7. Some(n) = Range(ms)
  BY <1>0, Zenon DEF Range
<1> QED
  BY <1>2, <1>6, <1>7, Zenon
-----------------------------------------------------------------------------
(* GreedySolver: the walk *)

\* The walk has yet to meet b.
Awaited(b) == b \in starting \/ StartTime(b) \in ticks
Past(b, S) == \A t \in S : EndTime(b) <= t
DeadFor(b, S) == \A c \in S : EndTime(b) <= StartTime(c)

\* What was dropped is dead for everything the walk has yet to meet, and a group
\* that is not placed and not rejected has yet to be met, each member of it.
GreedyInv ==
  /\ BuffersOk /\ StateOk(State)
  /\ group \in Seq(Indices) /\ IsInjective(group)
  /\ ticks \in SUBSET Nat /\ starting \in SUBSET Placeable
  /\ \A d \in Indices : addr[d] # Unplaced /\ d \notin usage => Past(d, ticks) /\ DeadFor(d, starting)
  /\ solver = "building" => /\ usage = {} /\ ticks = {} /\ group = <<>>
                            /\ \A b \in Indices : addr[b] = Unplaced
  /\ solver # "greedy" => starting = {}
  /\ solver = "greedy" => InPlaceOK
  /\ rejected \in {{}, Range(group)}
  /\ \A m, k \in Range(group) :
       rejected = {} /\ addr[m] = Unplaced => k \in Placeable /\ addr[k] = Unplaced /\ Awaited(k)
  /\ PairedTogether

LEMMA SameState ==
  ASSUME bufs' = bufs
  PROVE  StateOk(State)' <=> StateOk(State')
<1>1. Indices' = Indices /\ Layouts' = Layouts
  BY SameBuffers, Zenon
<1>2. ASSUME NEW b \in Indices
      PROVE  /\ StartTime(b)' = StartTime(b) /\ EndTime(b)' = EndTime(b) /\ Size(b)' = Size(b)
             /\ Parents(b)' = Parents(b)
  BY <1>1, Zenon DEF StartTime, EndTime, Size, Parents
<1>3. ASSUME NEW u \in Indices, NEW v \in Indices
      PROVE  /\ Meet(State.addr, u, v)' <=> Meet(State'.addr, u, v)
             /\ Handed(State.addr, u, v)' <=> Handed(State'.addr, u, v)
             /\ OverlapsInTime(u, v)' <=> OverlapsInTime(u, v)
  BY <1>2, Zenon DEF Meet, Handed, OverlapsInTime
<1>4. ASSUME NEW u \in Indices, NEW v \in Indices
      PROVE  /\ Chain(State, u, v)' <=> Chain(State', u, v)
             /\ Clear(State.addr, u, v)' <=> Clear(State'.addr, u, v)
             /\ Fits(State.addr, u)' <=> Fits(State'.addr, u)
  BY <1>2, <1>3, Zenon DEF Chain, Clear, Fits
<1>6. Sound(State.addr)' <=> Sound(State'.addr)
  BY <1>1, <1>4, Zenon DEF Sound
<1>5. State'.usage \in SUBSET Indices => (Chained(State)' <=> Chained(State'))
  BY <1>3, <1>4, Zenon DEF Chained
<1> QED
  BY <1>1, <1>5, <1>6, Zenon DEF StateOk

\* A state that agrees with a sound one, but for buffers that were dropped.
LEMMA Dropped ==
  ASSUME NEW st, StateOk(st), NEW r, r.addr = st.addr, r.reused = st.reused, r.usage \subseteq st.usage
  PROVE  StateOk(r)
<1>1. Chained(r)
  BY Zenon DEF StateOk, Chained, Chain
<1> QED
  BY <1>1, Zenon DEF StateOk

LEMMA GroupIs ==
  ASSUME GreedyInv
  PROVE  /\ Range(group) \subseteq Indices /\ addr \in Layouts /\ usage \in SUBSET Indices
         /\ Placeable \subseteq Indices
<1>1. Range(group) \subseteq Indices
  <2>1. group \in Seq(Indices)
    BY Zenon DEF GreedyInv
  <2>2. \A i \in DOMAIN group : group[i] \in Indices
    BY <2>1
  <2> QED
    BY <2>2, Zenon DEF Range
<1>2. StateOk(State) /\ State.addr = addr /\ State.usage = usage
  BY DEF GreedyInv, State
<1> QED
  BY <1>1, <1>2, Zenon DEF StateOk, Placeable

LEMMA BeginGreedyKeeps ==
  ASSUME GreedyInv, BeginGreedy
  PROVE  GreedyInv'
<1>1. PICK g \in {<<>>} \cup (Indices \X Indices) : StartPlan("greedy", g)
  BY Zenon DEF BeginGreedy
<1>2. /\ UNCHANGED <<bufs, addr>> /\ group' = g /\ Range(g) \subseteq Indices /\ IsInjective(g)
      /\ solver = "building" /\ solver' = (IF InPlaceOK THEN "greedy" ELSE "refused")
  BY <1>1, Zenon DEF StartPlan
<1>3. /\ UNCHANGED <<usage, reused, starting>>
      /\ ticks' = UNION {{StartTime(b), EndTime(b)} : b \in Placeable}
      /\ rejected' = IF Range(g) \subseteq Placeable THEN {} ELSE Range(g)
  BY <1>2, Zenon DEF BeginGreedy
<1>4. /\ usage = {} /\ starting = {} /\ \A b \in Indices : addr[b] = Unplaced
  <2>1. solver # "greedy"
    BY <1>2
  <2> QED
    BY <1>2, <2>1, Zenon DEF GreedyInv
<1>5. BuffersOk' /\ Indices' = Indices /\ Placeable' = Placeable /\ (InPlaceOK' <=> InPlaceOK)
  BY <1>2, SameBuffers, Zenon DEF GreedyInv
<1>6. StateOk(State)'
  BY <1>2, <1>3, SameState, Zenon DEF GreedyInv, State
<1>7. g \in Seq(Indices)
  <2>1. CASE g \in Indices \X Indices
    <3>1. PICK a \in Indices, b \in Indices : g = <<a, b>>
      BY <2>1
    <3> QED
      BY <3>1
  <2>2. CASE g = <<>>
    BY <2>2
  <2> QED
    BY <1>1, <2>1, <2>2, Zenon
<1>8. ticks' \in SUBSET Nat
  <2>1. \A b \in Placeable : StartTime(b) \in Nat /\ EndTime(b) \in Nat
    BY Lifetime, Zenon DEF GreedyInv, Placeable
  <2> QED
    BY <1>3, <2>1, Zenon
<1>9. solver' # "building" /\ (solver' = "greedy" => InPlaceOK)
  BY <1>2
<1>10. \A b \in Indices : StartTime(b)' = StartTime(b)
  BY <1>2, Zenon DEF StartTime
<1>11. ASSUME NEW k \in Range(g), rejected' = {} PROVE k \in Placeable /\ Awaited(k)'
  <2>1. k \in Placeable
    BY <1>3, <1>11, Zenon
  <2>2. StartTime(k) \in ticks'
    <3>1. {StartTime(k), EndTime(k)} \in {{StartTime(b), EndTime(b)} : b \in Placeable}
      BY <2>1, Zenon
    <3>2. StartTime(k) \in {StartTime(k), EndTime(k)}
      BY Zenon
    <3> QED
      BY <1>3, <3>1, <3>2
  <2> QED
    BY <1>2, <1>10, <1>11, <2>1, <2>2, Zenon DEF Awaited
<1>12. /\ (\A m, k \in Range(group) :
             rejected = {} /\ addr[m] = Unplaced => k \in Placeable /\ addr[k] = Unplaced /\ Awaited(k))'
       /\ PairedTogether'
  BY <1>2, <1>4, <1>5, <1>11, Zenon DEF PairedTogether
<1>13. (\A d \in Indices : addr[d] # Unplaced /\ d \notin usage => Past(d, ticks) /\ DeadFor(d, starting))'
  BY <1>2, <1>4, <1>5, Zenon
<1>14. rejected' \in {{}, Range(group)'} /\ starting' = {}
  BY <1>2, <1>3, <1>4, Zenon
<1>15. (group \in Seq(Indices))' /\ IsInjective(group)'
  BY <1>2, <1>5, <1>7, Zenon
<1> QED
  BY <1>5, <1>6, <1>8, <1>9, <1>12, <1>13, <1>14, <1>15, Zenon DEF GreedyInv

LEMMA TickKeeps ==
  ASSUME GreedyInv, Tick
  PROVE  GreedyInv'
<1>1. PICK t : /\ t = Min(ticks) /\ ticks' = ticks \ {t}
               /\ usage' = usage \ {b \in Placeable : EndTime(b) = t}
               /\ starting' = {b \in Placeable : StartTime(b) = t}
  BY Zenon DEF Tick
<1>2. UNCHANGED <<bufs, addr, group, solver, reused, rejected>> /\ solver = "greedy" /\ starting = {} /\ ticks # {}
  BY Zenon DEF Tick, planVars
<1>3. t \in Nat /\ t \in ticks /\ \A x \in ticks : t <= x
  BY <1>1, <1>2, MinIs, Zenon DEF GreedyInv
<1>4. BuffersOk' /\ Indices' = Indices /\ Placeable' = Placeable /\ (InPlaceOK' <=> InPlaceOK)
  BY <1>2, SameBuffers, Zenon DEF GreedyInv
<1>5. StateOk(State)'
  <2>1. PICK st, r : st = State /\ r = State'
    BY Zenon
  <2>2. r.addr = st.addr /\ r.reused = st.reused /\ r.usage = usage' /\ st.usage = usage
    BY <1>2, <2>1 DEF State
  <2>3. StateOk(r)
    BY <1>1, <2>1, <2>2, Dropped, Zenon DEF GreedyInv
  <2> QED
    BY <1>2, <2>1, <2>3, SameState, Zenon
<1>6. \A b \in Indices : StartTime(b)' = StartTime(b) /\ EndTime(b)' = EndTime(b)
  BY <1>2, Zenon DEF StartTime, EndTime
<1>7. ASSUME NEW d \in Indices, addr[d] # Unplaced, d \notin usage'
      PROVE  Past(d, ticks)' /\ DeadFor(d, starting)'
  <2>1. EndTime(d) \in Nat /\ \A x \in ticks : EndTime(d) <= x
    <3>1. EndTime(d) \in Nat
      BY Lifetime, Zenon DEF GreedyInv
    <3>2. CASE d \in usage
      <4>1. EndTime(d) = t
        BY <1>1, <1>7, <3>2, Zenon
      <4> QED
        BY <1>3, <3>1, <4>1, Zenon
    <3>3. CASE d \notin usage
      BY <1>7, <3>1, <3>3, Zenon DEF GreedyInv, Past
    <3> QED
      BY <3>2, <3>3, Zenon
  <2>2. Past(d, ticks)'
    BY <1>1, <1>6, <2>1, Zenon DEF Past
  <2>3. ASSUME NEW c \in starting' PROVE EndTime(d)' <= StartTime(c)'
    <3>1. c \in Indices /\ StartTime(c) = t
      BY <1>1, <2>3, Zenon DEF Placeable
    <3> QED
      BY <1>3, <1>6, <2>1, <3>1, Zenon
  <2> QED
    BY <2>2, <2>3, Zenon DEF DeadFor
<1>8. ASSUME NEW k \in Range(group), k \in Placeable, Awaited(k) PROVE Awaited(k)'
  <2>1. k \in Indices /\ StartTime(k) \in ticks
    BY <1>2, <1>8, GroupIs, Zenon DEF Awaited
  <2>2. StartTime(k) = t \/ StartTime(k) \in ticks'
    BY <1>1, <2>1, Zenon
  <2>3. StartTime(k) = t => k \in starting'
    BY <1>1, <1>8, Zenon
  <2> QED
    BY <1>6, <2>1, <2>2, <2>3, Zenon DEF Awaited
<1>9. (\A m, k \in Range(group) :
         rejected = {} /\ addr[m] = Unplaced => k \in Placeable /\ addr[k] = Unplaced /\ Awaited(k))'
  BY <1>2, <1>4, <1>8, Zenon DEF GreedyInv
<1>10. PairedTogether' /\ (group \in Seq(Indices))' /\ IsInjective(group)'
       /\ rejected' \in {{}, Range(group)'}
  BY <1>2, <1>4, Zenon DEF GreedyInv, PairedTogether
<1>11. ticks' \in SUBSET Nat /\ starting' \in SUBSET Placeable'
  BY <1>1, <1>4, Zenon DEF GreedyInv
<1>12. solver' # "building" /\ solver' = "greedy" /\ InPlaceOK'
  BY <1>2, <1>4 DEF GreedyInv
<1>13. (\A d \in Indices : addr[d] # Unplaced /\ d \notin usage => Past(d, ticks) /\ DeadFor(d, starting))'
  BY <1>2, <1>4, <1>7, Zenon
<1> QED
  BY <1>4, <1>5, <1>9, <1>10, <1>11, <1>12, <1>13, Zenon DEF GreedyInv

\* The members TryAllocate hands to PlaceAll.
LEMMA MembersFresh ==
  ASSUME GreedyInv, NEW b \in starting, addr[b] = Unplaced, b \notin rejected,
         NEW ms, ms = IF b \in Range(group) THEN group ELSE <<b>>
  PROVE  Fresh(ms) /\ b \in Range(ms)
<1>1. b \in Indices /\ State.addr = addr /\ State.usage = usage
  BY DEF GreedyInv, Placeable, State
<1>2. ASSUME NEW m \in Indices, Awaited(m) PROVE Over(State, m)
  BY <1>1, <1>2, Zenon DEF Over, GreedyInv, Past, DeadFor, Awaited
<1>3. CASE b \in Range(group)
  <2>1. ms = group /\ ms \in Seq(Indices) /\ IsInjective(ms) /\ rejected = {}
    BY <1>3, Zenon DEF GreedyInv
  <2>2. ASSUME NEW i \in 1 .. Len(ms) PROVE addr[ms[i]] = Unplaced /\ Over(State, ms[i])
    <3>1. i \in DOMAIN ms
      BY <2>1
    <3>2. ms[i] \in Range(group)
      BY <2>1, <3>1, Zenon DEF Range
    <3>3. addr[ms[i]] = Unplaced /\ Awaited(ms[i]) /\ ms[i] \in Indices
      BY <1>3, <2>1, <3>2, GroupIs, Zenon DEF GreedyInv
    <3> QED
      BY <1>2, <3>3, Zenon
  <2>3. \A i, j \in 1 .. Len(ms) : ms[i] = ms[j] => i = j
    <3>0. \A s \in Seq(Indices) : DOMAIN s = 1 .. Len(s)
      OBVIOUS
    <3>1. DOMAIN ms = 1 .. Len(ms)
      BY <2>1, <3>0, Zenon
    <3> QED
      BY <2>1, <3>1, Zenon DEF IsInjective
  <2> QED
    BY <1>3, <2>1, <2>2, <2>3, Zenon DEF Fresh
<1>4. CASE b \notin Range(group)
  <2>1. ms = <<b>>
    BY <1>4, Zenon
  <2>2. ms \in Seq(Indices) /\ Len(ms) = 1 /\ ms[1] = b /\ DOMAIN ms = {1}
    <3>1. b \in Indices
      BY <1>1, Zenon
    <3>2. <<b>> \in Seq(Indices) /\ Len(<<b>>) = 1 /\ <<b>>[1] = b
      BY <3>1
    <3>3. DOMAIN <<b>> = 1 .. 1 /\ 1 .. 1 = {1}
      OBVIOUS
    <3> QED
      BY <2>1, <3>2, <3>3, Zenon
  <2>3. \A i \in 1 .. Len(ms) : i = 1
    <3>1. \A i \in 1 .. 1 : i = 1
      OBVIOUS
    <3> QED
      BY <2>2, <3>1, Zenon
  <2>4. Over(State, b)
    BY <1>1, <1>2, Zenon DEF Awaited
  <2> QED
    BY <2>2, <2>3, <2>4, Zenon DEF Fresh, Range
<1> QED
  BY <1>3, <1>4, Zenon

LEMMA TryAllocateKeeps ==
  ASSUME GreedyInv, TryAllocate
  PROVE  GreedyInv'
<1>0. starting # {} /\ starting \subseteq Nat /\ Placeable \subseteq Indices
  <2>1. Indices \subseteq Nat
    BY DEF Indices
  <2> QED
    BY <2>1, Zenon DEF TryAllocate, GreedyInv, Placeable
<1>1. PICK b : b = Min(starting) /\ b \in starting
  BY <1>0, MinIs, Zenon
<1>2. PICK ms, after : /\ ms = (IF b \in Range(group) THEN group ELSE <<b>>)
                       /\ after = PlaceAll(ms)
  BY Zenon
<1>3. /\ starting' = starting \ {b} /\ UNCHANGED <<ticks, bufs, group, solver>>
      /\ IF addr[b] # Unplaced \/ b \in rejected
         THEN UNCHANGED <<usage, reused, rejected, addr>>
         ELSE /\ usage' = after.usage /\ reused' = after.reused /\ addr' = after.addr
              /\ rejected' = IF PlacedAll(after, ms) THEN rejected
                             ELSE rejected \cup (Range(ms) \cap Range(group))
  BY <1>1, <1>2, Zenon DEF TryAllocate
<1>4. BuffersOk' /\ Indices' = Indices /\ Placeable' = Placeable /\ (InPlaceOK' <=> InPlaceOK)
  BY <1>3, SameBuffers, Zenon DEF GreedyInv
<1>5. \A d \in Indices : StartTime(d)' = StartTime(d) /\ EndTime(d)' = EndTime(d)
  BY <1>3, Zenon DEF StartTime, EndTime
<1>6. solver = "greedy" /\ InPlaceOK
  BY <1>0, Zenon DEF GreedyInv
<1>7. /\ ticks' \in SUBSET Nat /\ starting' \in SUBSET Placeable'
      /\ (group \in Seq(Indices))' /\ IsInjective(group)' /\ solver' = "greedy" /\ InPlaceOK'
      /\ solver' # "building"
  <2>1. "greedy" # "building"
    OBVIOUS
  <2> QED
    BY <1>3, <1>4, <1>6, <2>1, Zenon DEF GreedyInv
<1>8. ASSUME NEW k \in Range(group), k # b, Awaited(k) PROVE Awaited(k)'
  BY <1>3, <1>5, <1>8, GroupIs, Zenon DEF Awaited
<1>9. ASSUME NEW d \in Indices, addr[d] # Unplaced, d \notin usage
      PROVE  Past(d, ticks)' /\ DeadFor(d, starting)'
  <2>1. Past(d, ticks) /\ DeadFor(d, starting)
    BY <1>9, Zenon DEF GreedyInv
  <2>2. \A c \in starting' : c \in starting /\ c \in Indices
    BY <1>0, <1>3, Zenon DEF GreedyInv
  <2> QED
    BY <1>3, <1>5, <2>1, <2>2, Zenon DEF Past, DeadFor
<1> DEFINE Rest ==
      /\ \A m, k \in Range(group) :
           rejected = {} /\ addr[m] = Unplaced => k \in Placeable /\ addr[k] = Unplaced /\ Awaited(k)
      /\ rejected \in {{}, Range(group)} /\ PairedTogether
<1>10. Rest /\ StateOk(State)
  BY Zenon DEF GreedyInv
<1>11. ASSUME StateOk(State'), Rest',
              \A d \in Indices : addr'[d] # Unplaced /\ d \notin usage' => addr[d] # Unplaced /\ d \notin usage
       PROVE  GreedyInv'
  <2>1. StateOk(State)'
    BY <1>3, <1>11, SameState, Zenon
  <2>2. (\A d \in Indices : addr[d] # Unplaced /\ d \notin usage => Past(d, ticks) /\ DeadFor(d, starting))'
    BY <1>4, <1>9, <1>11, Zenon
  <2> QED
    BY <1>4, <1>7, <1>11, <2>1, <2>2, Zenon DEF GreedyInv
<1>12. ASSUME b \notin Range(group),
              \A m \in Range(group) : addr'[m] = addr[m], rejected' = rejected
       PROVE  Rest'
  <2>1. \A k \in Range(group) : Awaited(k) => Awaited(k)'
    BY <1>8, <1>12, Zenon
  <2> QED
    BY <1>3, <1>4, <1>10, <1>12, <2>1, Zenon DEF PairedTogether
<1>13. CASE addr[b] # Unplaced \/ b \in rejected
  <2>1. UNCHANGED <<usage, reused, rejected, addr>>
    BY <1>3, <1>13, Zenon
  <2>2. State' = State
    BY <2>1, Zenon DEF State
  <2>3. Rest'
    <3>1. CASE b \notin Range(group)
      BY <1>12, <2>1, <3>1, Zenon
    <3>2. CASE b \in Range(group)
      <4>1. ASSUME NEW m \in Range(group), rejected = {}, addr[m] = Unplaced PROVE FALSE
        BY <1>10, <1>13, <3>2, <4>1, Zenon
      <4> QED
        BY <1>3, <1>10, <2>1, <4>1, Zenon DEF PairedTogether
    <3> QED
      BY <3>1, <3>2, Zenon
  <2> HIDE DEF Rest
  <2> QED
    BY <1>10, <1>11, <2>1, <2>2, <2>3, Zenon
<1>14. CASE addr[b] = Unplaced /\ b \notin rejected
  <2>1. /\ usage' = after.usage /\ reused' = after.reused /\ addr' = after.addr
        /\ rejected' = IF PlacedAll(after, ms) THEN rejected
                       ELSE rejected \cup (Range(ms) \cap Range(group))
    BY <1>3, <1>14, Zenon
  <2>2. Fresh(ms) /\ b \in Range(ms)
    BY <1>1, <1>2, <1>14, MembersFresh, Zenon
  <2>3. State.addr = addr /\ State.usage = usage /\ State.reused = reused
    BY DEF State
  <2>4. State'.addr = addr' /\ State'.usage = usage' /\ State'.reused = reused'
    BY DEF State
  <2>5. b \in Range(group) => rejected = {} /\ ms = group
    BY <1>2, <1>10, <1>14, Zenon
  <2>6. b \notin Range(group) => Range(ms) = {b}
    <3>1. Range(<<b>>) = {b}
      BY DEF Range
    <3> QED
      BY <1>2, <3>1, Zenon
  <2>7. CASE PlacedAll(AfterMembers(ms), ms)
    <3>1. after = AfterMembers(ms) /\ PlacedAll(after, ms)
      BY <1>2, <2>7, Zenon DEF PlaceAll
    <3>2. Reached(after, Range(ms))
      BY <1>6, <1>10, <2>2, <3>1, Members, Zenon DEF GreedyInv
    <3>3. StateOk(State')
      <4>1. PICK r : r = State'
        BY Zenon
      <4>2. r.addr = after.addr /\ r.reused = after.reused /\ r.usage \subseteq after.usage
        BY <2>1, <2>4, <4>1, Zenon
      <4>3. StateOk(r)
        BY <3>2, <4>2, Dropped, Zenon DEF Reached
      <4> QED
        BY <4>1, <4>3, Zenon
    <3>4. rejected' = rejected
      BY <2>1, <3>1, Zenon
    <3>5. Rest'
      <4>1. CASE b \notin Range(group)
        <5>1. \A m \in Range(group) : addr'[m] = addr[m]
          BY <2>1, <2>6, <3>2, <4>1, GroupIs, Zenon DEF Reached
        <5> QED
          BY <1>12, <3>4, <4>1, <5>1, Zenon
      <4>2. CASE b \in Range(group)
        <5>1. \A m \in Range(group) : addr'[m] # Unplaced
          BY <2>1, <2>5, <3>1, <4>2, Zenon DEF PlacedAll
        <5> QED
          BY <1>3, <1>10, <3>4, <5>1, Zenon DEF PairedTogether
      <4> QED
        BY <4>1, <4>2, Zenon
    <3>6. \A d \in Indices : addr'[d] # Unplaced /\ d \notin usage' => addr[d] # Unplaced /\ d \notin usage
      BY <2>1, <3>2, Zenon DEF Reached
    <3> HIDE DEF Rest
    <3> QED
      BY <1>11, <3>3, <3>5, <3>6, Zenon
  <2>8. CASE ~PlacedAll(AfterMembers(ms), ms)
    <3>1. after = State
      BY <1>2, <2>8, Zenon DEF PlaceAll
    <3>2. ~PlacedAll(after, ms)
      BY <1>14, <2>2, <2>3, <3>1, Zenon DEF PlacedAll
    <3>3. /\ addr' = addr /\ usage' = usage /\ reused' = reused
          /\ rejected' = rejected \cup (Range(ms) \cap Range(group))
      BY <2>1, <2>3, <3>1, <3>2, Zenon
    <3>4. State' = State
      BY <3>3, Zenon DEF State
    <3>5. Rest'
      <4>1. CASE b \notin Range(group)
        <5>1. rejected' = rejected
          BY <2>6, <3>3, <4>1
        <5> QED
          BY <1>12, <3>3, <4>1, <5>1, Zenon
      <4>2. CASE b \in Range(group)
        <5>1. rejected' = Range(group) /\ rejected' # {}
          BY <2>5, <3>3, <4>2
        <5> QED
          BY <1>3, <1>10, <3>3, <5>1, Zenon DEF PairedTogether
      <4> QED
        BY <4>1, <4>2, Zenon
    <3> HIDE DEF Rest
    <3> QED
      BY <1>10, <1>11, <3>3, <3>4, <3>5, Zenon
  <2> QED
    BY <2>7, <2>8, Zenon
<1> QED
  BY <1>13, <1>14, Zenon

LEMMA GreedyStarts == PlanInit /\ GreedyInit => GreedyInv
<1> SUFFICES ASSUME PlanInit, GreedyInit PROVE GreedyInv
  BY Zenon
<1>1. /\ bufs = <<>> /\ addr = <<>> /\ group = <<>> /\ solver = "building" /\ Indices = {}
      /\ usage = {} /\ rejected = {} /\ ticks = {} /\ starting = {}
  BY DEF PlanInit, GreedyInit, Indices
<1>2. BuffersOk
  BY <1>1 DEF BuffersOk
<1>3. addr \in Layouts
  BY <1>1 DEF Layouts
<1>4. State.addr = addr /\ State.usage = {}
  BY <1>1 DEF State
<1>5. StateOk(State)
  BY <1>1, <1>3, <1>4, Zenon DEF StateOk, Sound, Chained
<1>6. Range(group) = {} /\ group \in Seq(Indices) /\ IsInjective(group)
  BY <1>1 DEF Range, IsInjective
<1>7. solver # "greedy" /\ starting \in SUBSET Placeable /\ ticks \in SUBSET Nat
  BY <1>1
<1>8. PairedTogether /\ rejected \in {{}, Range(group)}
  BY <1>1, <1>6, Zenon DEF PairedTogether
<1> QED
  BY <1>1, <1>2, <1>5, <1>6, <1>7, <1>8, Zenon DEF GreedyInv

LEMMA GreedySteps ==
  ASSUME GreedyInv,
         [GreedyNext \/ (Building /\ UNCHANGED greedyVars)]_<<planVars, greedyVars>>
  PROVE  GreedyInv'
<1>1. CASE Building /\ UNCHANGED greedyVars
  <2>1. UNCHANGED <<usage, reused, rejected, ticks, starting>> /\ solver = "building"
    BY <1>1, Zenon DEF greedyVars, Building, AddBuffer
  <2>2. solver # "greedy"
    BY <2>1
  <2>3. /\ usage = {} /\ ticks = {} /\ starting = {} /\ group = <<>> /\ BuffersOk
        /\ \A b \in Indices : addr[b] = Unplaced
    BY <2>1, <2>2, Zenon DEF GreedyInv
  <2>4. addr \in Layouts
    BY GroupIs, Zenon
  <2>5. /\ BuffersOk' /\ (addr \in Layouts)' /\ (\A b \in Indices : addr[b] = Unplaced)'
        /\ Sound(addr)' /\ solver' = "building" /\ Indices \subseteq Indices' /\ UNCHANGED <<group, solver>>
    BY <1>1, <2>3, <2>4, BuildingKeeps, Zenon
  <2>6. State.addr' = addr' /\ State.usage' = {}
    BY <2>1, <2>3 DEF State
  <2>7. StateOk(State)'
    BY <2>5, <2>6, Zenon DEF StateOk, Sound, Chained
  <2>8. (group \in Seq(Indices))' /\ IsInjective(group)'
    BY <2>5 DEF GreedyInv
  <2>9. PairedTogether' /\ rejected' \in {{}, Range(group)'}
    <3>1. Range(group)' \subseteq Indices' /\ rejected' = rejected /\ Range(group)' = Range(group)
      BY <2>1, <2>5, GroupIs, Zenon
    <3> QED
      BY <2>5, <3>1, Zenon DEF PairedTogether, GreedyInv
  <2>10. Range(group)' = {}
    BY <2>3, <2>5 DEF Range
  <2> QED
    BY <2>1, <2>2, <2>3, <2>5, <2>7, <2>8, <2>9, <2>10, Zenon DEF GreedyInv
<1>2. CASE UNCHANGED <<planVars, greedyVars>>
  <2>1. UNCHANGED <<bufs, addr, group, solver, usage, reused, rejected, ticks, starting>>
    BY <1>2, Zenon DEF planVars, greedyVars
  <2>2. State' = State
    BY <2>1, Zenon DEF State
  <2>3. StateOk(State)'
    BY <2>1, <2>2, SameState, Zenon DEF GreedyInv
  <2>4. BuffersOk' /\ Indices' = Indices /\ Placeable' = Placeable /\ (InPlaceOK' <=> InPlaceOK)
    BY <2>1, SameBuffers, Zenon DEF GreedyInv
  <2>5. \A d \in Indices : StartTime(d)' = StartTime(d) /\ EndTime(d)' = EndTime(d)
    BY <2>1, Zenon DEF StartTime, EndTime
  <2>6. \A k \in Range(group) : Awaited(k)' <=> Awaited(k)
    BY <2>1, <2>5, GroupIs, Zenon DEF Awaited
  <2>7. \A d \in Indices : (Past(d, ticks)' <=> Past(d, ticks)) /\ (DeadFor(d, starting)' <=> DeadFor(d, starting))
    <3>1. \A c \in starting : c \in Indices
      BY GroupIs, Zenon DEF GreedyInv
    <3> QED
      BY <2>1, <2>5, <3>1, Zenon DEF Past, DeadFor
  <2> QED
    BY <2>1, <2>3, <2>4, <2>6, <2>7, Zenon DEF GreedyInv, PairedTogether
<1> QED
  BY <1>1, <1>2, BeginGreedyKeeps, TickKeeps, TryAllocateKeeps, Zenon DEF GreedyNext

\* The greedy walk keeps the same promise, with groups that are placed whole
\* before some of their members are alive.
THEOREM GreedyNeverClobbers == GreedySpec => []NoClobber
<1>1. GreedyInv => NoClobber
  <2> SUFFICES ASSUME GreedyInv PROVE NoClobber
    BY Zenon
  <2>1. StateOk(State) /\ State.addr = addr
    BY DEF GreedyInv, State
  <2> QED
    BY <2>1, SoundIs, Zenon DEF StateOk
<1> QED
  BY <1>1, GreedyStarts, GreedySteps, PTL DEF GreedySpec

\* And a paired group is in LX whole or not at all, although a member may fail
\* to fit after others were placed.
THEOREM GroupsTogether == GreedySpec => []PairedTogether
<1>1. GreedyInv => PairedTogether
  BY Zenon DEF GreedyInv
<1> QED
  BY <1>1, GreedyStarts, GreedySteps, PTL DEF GreedySpec
==================================================================================
