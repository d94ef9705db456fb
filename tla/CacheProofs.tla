------------------------------- MODULE CacheProofs -------------------------------
(***************************************************************************)
(* Proofs about PinnedAllocator, for any number of buffers at any          *)
(* addresses, of threads and DMAs, and about KernelCache, for any          *)
(* processes, scripts and keys.  A wrapper returns from wait with a runner *)
(* for each kernel, also while the cache is cleared.  The directories are  *)
(* proved complete while nobody clears the cache and dbo-opt does not exit *)
(* 0 without init_binary.bin.                                              *)
(***************************************************************************)
EXTENDS PinnedAllocator, KernelCache, TLAPS

-----------------------------------------------------------------------------
(* PinnedAllocator *)

\* The operating system never maps two buffers over each other.
MappedDisjoint ==
    \A b, c \in mapped : b # c => ~Overlap(b, c)

\* A buffer whose state is alive is mapped and not free.
ReferencedIsOwned ==
    \A b \in Buffers : Referenced(b) => b \in mapped /\ b \notin cached

\* Nobody but t works on t's buffer.
Alone(t) == \A u \in Threads \ {t} : local[u] # local[t]

\* What a thread knows about the buffer it works on, at each point of a call.
ThreadInv ==
    \A t \in Threads :
        /\ pc[t] # "threw"
        /\ pc[t] = "acquired" => /\ local[t] \notin allocations
                                 /\ \A d \in Dmas : dma[d] # local[t]
                                 /\ Alone(t)
        /\ pc[t] = "dropping" => /\ local[t] \in allocations
                                 /\ local[t] \notin tensors
                                 /\ Alone(t)
        /\ pc[t] = "erased" => local[t] \notin allocations /\ Alone(t)
        /\ pc[t] = "retained" => local[t] \in tensors

IInv ==
    /\ TypeOK
    /\ MappedDisjoint
    /\ ReferencedIsOwned
    /\ tensors \subseteq allocations
    /\ ThreadInv

-----------------------------------------------------------------------------
\* Membership in a span, as findContaining computes it.
LEMMA SpanMember ==
    ASSUME NEW b \in Buffers, NEW a \in Nat
    PROVE  a \in Span(b) <=> Base[b] <= a /\ a - Base[b] < Capacity[b]
BY LayoutAssumption DEF Span

\* findContaining is exact: on registered buffers that do not overlap, the
\* neighbour below upper_bound is the only buffer that can hold the address.
LEMMA LookupIsExact ==
    ASSUME NEW regs \in SUBSET Buffers,
           \A b, c \in regs : b # c => ~Overlap(b, c),
           NEW a \in Nat
    PROVE  findContaining(a, regs) = {b \in regs : a \in Span(b)}
<1>1. ASSUME NEW b \in findContaining(a, regs)
      PROVE  b \in regs /\ a \in Span(b)
  BY SpanMember DEF findContaining, UpperNeighbour
<1>2. ASSUME NEW b \in regs, a \in Span(b)
      PROVE  b \in findContaining(a, regs)
  <2>1. Base[b] <= a /\ a - Base[b] < Capacity[b]
    BY <1>2, SpanMember
  <2>2. ASSUME NEW c \in regs, Base[c] <= a
        PROVE  Base[c] <= Base[b]
    <3>1. SUFFICES ASSUME Base[b] < Base[c] PROVE FALSE
      BY LayoutAssumption
    <3>2. Base[c] \in Span(b) /\ Base[c] \in Span(c)
      BY <2>1, <2>2, <3>1, SpanMember, LayoutAssumption
    <3>3. b # c
      BY <3>1, LayoutAssumption
    <3> QED
      BY <3>2, <3>3 DEF Overlap
  <2> QED
    BY <2>1, <2>2 DEF findContaining, UpperNeighbour
<1> QED
  BY <1>1, <1>2

-----------------------------------------------------------------------------
LEMMA InitIInv == Init => IInv
BY NoBufferAssumption
  , Zenon DEF Init, IInv, TypeOK, MappedDisjoint, ReferencedIsOwned, Referenced, ThreadInv

\* Every step of the allocator, of a copy and of flex preserves the invariant.
LEMMA NextIInv == IInv /\ [Next]_vars => IInv'
<1> SUFFICES ASSUME IInv, [Next]_vars PROVE IInv'
  OBVIOUS
<1> USE NoBufferAssumption
<1>1. ASSUME NEW t \in Threads, NEW b \in Buffers, AllocateAcquire(t, b)
      PROVE  IInv'
  <2>1. b \notin allocations /\ (\A d \in Dmas : dma[d] # b) /\ (\A u \in Threads : local[u] # b)
    BY <1>1 DEF IInv, TypeOK, ReferencedIsOwned, Referenced, ThreadInv, AllocateAcquire, CacheAcquire
  <2>2. TypeOK'
    BY <1>1 DEF IInv, TypeOK, AllocateAcquire, CacheAcquire, Goto
  <2>3. MappedDisjoint'
    BY <1>1 DEF IInv, TypeOK, MappedDisjoint, AllocateAcquire, CacheAcquire, Overlap
  <2>4. ReferencedIsOwned'
    BY <1>1, <2>1 DEF IInv, TypeOK, ReferencedIsOwned, Referenced, AllocateAcquire, CacheAcquire, Goto
  <2>5. ThreadInv'
    BY <1>1, <2>1 DEF IInv, TypeOK, ThreadInv, Alone, AllocateAcquire, Goto
  <2> QED
    BY <1>1, <2>2, <2>3, <2>4, <2>5 DEF IInv, AllocateAcquire
<1>2. ASSUME NEW t \in Threads, AllocateRegister(t)
      PROVE  IInv'
  <2>2. TypeOK'
    BY <1>2 DEF IInv, TypeOK, ThreadInv, AllocateRegister, Goto
  <2>4. ReferencedIsOwned'
    BY <1>2 DEF IInv, TypeOK, ReferencedIsOwned, Referenced, ThreadInv, AllocateRegister, Goto
  <2>5. ThreadInv'
    BY <1>2 DEF IInv, TypeOK, ThreadInv, Alone, AllocateRegister, Goto
  <2> QED
    BY <1>2, <2>2, <2>4, <2>5 DEF IInv, MappedDisjoint, AllocateRegister
<1>3. ASSUME NEW t \in Threads, NEW b \in Buffers, StorageDies(t, b)
      PROVE  IInv'
  <2>1. \A u \in Threads : local[u] # b
    BY <1>3 DEF IInv, TypeOK, ThreadInv, StorageDies
  <2>2. TypeOK'
    BY <1>3 DEF IInv, TypeOK, StorageDies, Goto
  <2>4. ReferencedIsOwned'
    BY <1>3 DEF IInv, TypeOK, ReferencedIsOwned, Referenced, StorageDies, Goto
  <2>5. ThreadInv'
    BY <1>3, <2>1 DEF IInv, TypeOK, ThreadInv, Alone, StorageDies, Goto
  <2> QED
    BY <1>3, <2>2, <2>4, <2>5 DEF IInv, MappedDisjoint, StorageDies
<1>4. ASSUME NEW t \in Threads, DeallocateErase(t)
      PROVE  IInv'
  <2>2. TypeOK'
    BY <1>4 DEF IInv, TypeOK, ThreadInv, DeallocateErase, Goto
  <2>4. ReferencedIsOwned'
    BY <1>4 DEF IInv, TypeOK, ReferencedIsOwned, Referenced, ThreadInv, DeallocateErase, Goto
  <2>5. ThreadInv'
    BY <1>4 DEF IInv, TypeOK, ThreadInv, Alone, DeallocateErase, Goto
  <2> QED
    BY <1>4, <2>2, <2>4, <2>5 DEF IInv, ThreadInv, MappedDisjoint, DeallocateErase
<1>5. ASSUME NEW t \in Threads, DeallocateReturn(t) \/ LaunchThrows(t)
      PROVE  IInv'
  <2>1. PICK x \in Buffers : x = local[t] /\ DropReference(x)
    BY <1>5 DEF IInv, TypeOK, DeallocateReturn, LaunchThrows
  <2>2. TypeOK'
    BY <1>5, <2>1 DEF IInv, TypeOK, ReferencedIsOwned, Referenced, DeallocateReturn, LaunchThrows, Goto, DropReference, Destroy
  <2>3. MappedDisjoint'
    BY <2>1 DEF IInv, MappedDisjoint, DropReference, Destroy
  <2>4. ReferencedIsOwned'
    BY <1>5, <2>1 DEF IInv, TypeOK, ReferencedIsOwned, Referenced, DeallocateReturn, LaunchThrows, Goto, DropReference, Destroy
  <2>5. ThreadInv'
    BY <1>5 DEF IInv, TypeOK, ThreadInv, Alone, DeallocateReturn, LaunchThrows, Goto
  <2> QED
    BY <1>5, <2>2, <2>3, <2>4, <2>5 DEF IInv, DeallocateReturn, LaunchThrows
<1>6. ASSUME NEW t \in Threads, NEW c \in tensors, NEW a \in Span(c), Retain(t, a)
      PROVE  IInv'
  <2>1. a \in Nat /\ c \in Buffers
    BY LayoutAssumption DEF IInv, TypeOK, Span
  <2>2. PICK b \in findContaining(a, allocations) : Goto(t, "retained", b)
    BY <1>6 DEF Retain
  <2>3. allocations \subseteq Buffers /\ \A x, y \in allocations : x # y => ~Overlap(x, y)
    BY DEF IInv, TypeOK, MappedDisjoint, ReferencedIsOwned, Referenced
  <2>4. b = c
    BY <2>1, <2>2, <2>3, LookupIsExact DEF IInv, Overlap
  <2>5. TypeOK'
    BY <1>6, <2>1, <2>2, <2>4 DEF IInv, TypeOK, Retain, Goto
  <2>6. ReferencedIsOwned'
    BY <1>6, <2>2, <2>4 DEF IInv, TypeOK, ReferencedIsOwned, Referenced, Retain, Goto
  <2>7. ThreadInv'
    BY <1>6, <2>2, <2>4 DEF IInv, TypeOK, ThreadInv, Alone, Retain, Goto
  <2> QED
    BY <1>6, <2>5, <2>6, <2>7 DEF IInv, MappedDisjoint, Retain
<1>7. ASSUME NEW t \in Threads, NEW d \in Dmas, Launch(t, d)
      PROVE  IInv'
  <2>2. TypeOK'
    BY <1>7 DEF IInv, TypeOK, Launch, Goto
  <2>4. ReferencedIsOwned'
    BY <1>7 DEF IInv, TypeOK, ReferencedIsOwned, Referenced, Launch, Goto
  <2>5. ThreadInv'
    BY <1>7 DEF IInv, TypeOK, ThreadInv, Alone, Launch, Goto
  <2> QED
    BY <1>7, <2>2, <2>4, <2>5 DEF IInv, MappedDisjoint, Launch
<1>8. ASSUME NEW d \in Dmas, DmaCompletes(d)
      PROVE  IInv'
  <2>1. PICK x \in Buffers : x = dma[d] /\ DropReference(x)
    BY <1>8 DEF IInv, TypeOK, DmaCompletes
  <2>2. TypeOK'
    BY <1>8, <2>1 DEF IInv, TypeOK, ReferencedIsOwned, Referenced, DmaCompletes, DropReference, Destroy
  <2>3. MappedDisjoint'
    BY <2>1 DEF IInv, MappedDisjoint, DropReference, Destroy
  <2>4. ReferencedIsOwned'
    BY <1>8, <2>1 DEF IInv, TypeOK, ReferencedIsOwned, Referenced, DmaCompletes, DropReference, Destroy
  <2>5. ThreadInv'
    BY <1>8 DEF IInv, TypeOK, ThreadInv, Alone, DmaCompletes
  <2> QED
    BY <1>8, <2>2, <2>3, <2>4, <2>5 DEF IInv, DmaCompletes
<1>9. ASSUME EmptyCache PROVE IInv'
  BY <1>9 DEF IInv, TypeOK, MappedDisjoint, ReferencedIsOwned, Referenced, ThreadInv, Alone, EmptyCache
<1>10. ASSUME UNCHANGED vars PROVE IInv'
  BY <1>10 DEF vars, IInv, TypeOK, MappedDisjoint, ReferencedIsOwned, Referenced, ThreadInv, Alone
<1> QED
  BY <1>1, <1>2, <1>3, <1>4, <1>5, <1>6, <1>7, <1>8, <1>9, <1>10 DEF Next

\* The invariant the other theorems rest on.
THEOREM InductiveInvariant == Spec => []IInv
BY InitIInv, NextIInv, PTL DEF Spec

\* The variables keep their types through allocate, deallocate and copies.
THEOREM TypeCorrect == Spec => []TypeOK
BY InductiveInvariant, PTL DEF IInv

\* A pinned buffer under a live tensor or a DMA in flight is never unmapped
\* nor offered for reuse, whatever the number of threads and copies: the
\* claim record_event makes for having no event queue.
THEOREM DmaKeepsBuffer == Spec => []NoReuseInFlight
<1>1. IInv => NoReuseInFlight
  BY DEF IInv, TypeOK, ReferencedIsOwned, Referenced, NoReuseInFlight, InUse
<1> QED
  BY <1>1, InductiveInvariant, PTL

\* A buffer that allocate acquired outside the lock belongs to nobody else:
\* the "cache returned an active allocation" throw is unreachable.
THEOREM NeverActiveAllocation == Spec => []FreshOnAcquire
<1>1. IInv => FreshOnAcquire
  BY DEF IInv, TypeOK, ThreadInv, Alone, FreshOnAcquire, InUse
<1> QED
  BY <1>1, InductiveInvariant, PTL

\* retain and isPinnedPtr find a registered buffer for an address exactly when
\* the address lies inside it.
THEOREM LookupCorrect == Spec => []LookupExact
<1>1. IInv => LookupExact
  <2> SUFFICES ASSUME IInv,
                      NEW a \in UNION {Span(b) \cup {Base[b] + Capacity[b]} : b \in Buffers}
               PROVE  findContaining(a, allocations) = {b \in allocations : a \in Span(b)}
    BY DEF LookupExact
  <2>1. a \in Nat
    BY LayoutAssumption DEF Span
  <2>2. allocations \subseteq Buffers /\ \A x, y \in allocations : x # y => ~Overlap(x, y)
    BY DEF IInv, TypeOK, MappedDisjoint, ReferencedIsOwned, Referenced
  <2> QED
    BY <2>1, <2>2, LookupIsExact
<1> QED
  BY <1>1, InductiveInvariant, PTL

-----------------------------------------------------------------------------
\* The ownership status of a buffer, as the refinement mapping gives it.
StatusOf == [b \in Buffers |-> IF b \in cached THEN "free"
                               ELSE IF b \in mapped THEN "owned" ELSE "unmapped"]

\* Every step of the allocator is a step of exclusive ownership, or none.
LEMMA StepRefines ==
    ASSUME IInv, [Next]_vars
    PROVE  [Ownership!Next]_(Ownership!avars)
<1> USE NoBufferAssumption DEF Ownership!avars
<1> USE DEF IInv, TypeOK
<1>1. ASSUME NEW t \in Threads, NEW b \in Buffers, AllocateAcquire(t, b)
      PROVE  Ownership!Acquire(b)
  BY <1>1, ZenonT(60) DEF AllocateAcquire, CacheAcquire, Ownership!Acquire
<1>2. ASSUME NEW t \in Threads, AllocateRegister(t)
      PROVE  \E b \in Buffers : Ownership!HandOut(b)
  <2>1. local[t] \in Buffers /\ Ownership!Unused(local[t])
    BY <1>2 DEF AllocateRegister, ThreadInv, Ownership!Unused
  <2>2. StatusOf[local[t]] = "owned"
    BY <1>2, <2>1 DEF AllocateRegister, ReferencedIsOwned, Referenced, StatusOf
  <2> QED
    BY <1>2, <2>1, <2>2 DEF AllocateRegister, ThreadInv, StatusOf, Ownership!HandOut
<1>3. ASSUME NEW t \in Threads, NEW b \in Buffers, StorageDies(t, b)
      PROVE  Ownership!DropTensor(b)
  BY <1>3 DEF StorageDies, Ownership!DropTensor
<1>4. ASSUME NEW t \in Threads, DeallocateErase(t)
      PROVE  UNCHANGED Ownership!avars
  BY <1>4 DEF DeallocateErase
<1>5. ASSUME NEW t \in Threads, DeallocateReturn(t) \/ LaunchThrows(t)
      PROVE  UNCHANGED Ownership!avars \/ \E b \in Buffers : Ownership!GiveUp(b)
  <2>1. PICK x \in Buffers : x = local[t] /\ DropReference(x)
    BY <1>5 DEF DeallocateReturn, LaunchThrows
  <2>2. CASE Referenced(x)'
    BY <1>5, <2>1, <2>2 DEF DeallocateReturn, LaunchThrows, DropReference
  <2>3. CASE ~Referenced(x)'
    <3>1. x \in mapped /\ x \notin cached
      BY <1>5, <2>1 DEF DeallocateReturn, LaunchThrows, ReferencedIsOwned, Referenced
    <3>2. Ownership!Unused(x)
      BY <1>5, <2>3 DEF DeallocateReturn, LaunchThrows, Referenced, Ownership!Unused
    <3>3. \E s \in {"free", "unmapped"} : StatusOf' = [StatusOf EXCEPT ![x] = s]
      <4>1. CASE cached' = cached \cup {x} /\ UNCHANGED mapped
        BY <3>1, <4>1, Zenon DEF StatusOf
      <4>2. CASE mapped' = mapped \ {x} /\ UNCHANGED cached
        BY <3>1, <4>2, ZenonT(60) DEF StatusOf
      <4> QED
        BY <2>1, <2>3, <4>1, <4>2 DEF DropReference, Destroy
    <3>4. Ownership!GiveUp(x)
      BY <1>5, <3>1, <3>2, <3>3, Zenon DEF DeallocateReturn, LaunchThrows, StatusOf, Ownership!GiveUp
    <3> QED
      BY <3>4
  <2> QED
    BY <2>2, <2>3
<1>6. ASSUME NEW t \in Threads, NEW a, Retain(t, a)
      PROVE  UNCHANGED Ownership!avars
  BY <1>6 DEF Retain
<1>7. ASSUME NEW t \in Threads, NEW d \in Dmas, Launch(t, d)
      PROVE  \E b \in Buffers : Ownership!StartDma(b, d)
  BY <1>7, Zenon DEF Launch, ThreadInv, Ownership!StartDma
<1>8. ASSUME NEW d \in Dmas, DmaCompletes(d)
      PROVE  Ownership!EndDma(d)
  <2>1. PICK x \in Buffers : x = dma[d] /\ DropReference(x)
    BY <1>8 DEF DmaCompletes
  <2>2. CASE Referenced(x)'
    BY <1>8, <2>1, <2>2 DEF DmaCompletes, DropReference, Ownership!EndDma
  <2>3. CASE ~Referenced(x)'
    <3>1. x \in mapped /\ x \notin cached
      BY <1>8, <2>1 DEF ReferencedIsOwned, Referenced
    <3>2. x \notin tensors' /\ \A e \in Dmas : dma'[e] # x
      BY <1>8, <2>3 DEF DmaCompletes, Referenced
    <3>3. \E s \in {"free", "unmapped"} : StatusOf' = [StatusOf EXCEPT ![x] = s]
      <4>1. CASE cached' = cached \cup {x} /\ UNCHANGED mapped
        BY <3>1, <4>1, Zenon DEF StatusOf
      <4>2. CASE mapped' = mapped \ {x} /\ UNCHANGED cached
        BY <3>1, <4>2, Zenon DEF StatusOf
      <4> QED
        BY <2>1, <2>3, <4>1, <4>2 DEF DropReference, Destroy
    <3> QED
      BY <1>8, <2>1, <3>2, <3>3, Zenon DEF DmaCompletes, StatusOf, Ownership!EndDma, Ownership!Unused
  <2> QED
    BY <2>2, <2>3
<1>9. ASSUME EmptyCache PROVE Ownership!Trim
  BY <1>9 DEF EmptyCache, Ownership!Trim
<1>10. ASSUME UNCHANGED vars PROVE UNCHANGED Ownership!avars
  BY <1>10 DEF vars
<1> QED
  BY <1>1, <1>2, <1>3, <1>4, <1>5, <1>6, <1>7, <1>8, <1>9, <1>10 DEF Next, Ownership!Next

\* SpyrePinnedAllocator with its locks, reference counts and address lookup
\* implements exclusive ownership of buffers by one tensor and its DMAs.
THEOREM Refinement == Spec => ImplementsOwnership
<1>1. Init => Ownership!Init
  BY DEF Init, Ownership!Init
<1>2. IInv /\ [Next]_vars => [Ownership!Next]_(Ownership!avars)
  BY StepRefines
<1> QED
  BY <1>1, <1>2, InductiveInvariant, PTL DEF Spec, ImplementsOwnership, Ownership!Spec

-----------------------------------------------------------------------------
(* KernelCache *)

Early == {"new", "hit", "allocated", "bundled", "inline", "pending"}
Committing == {"compiled", "renaming", "lost", "merged"}
JobStates == Early \cup Committing \cup {"runner", "failed"}
Phases == {"calling", "waiting", "draining", "returned", "raised", "crashed"}

ControlType ==
    /\ job \in [Jobs -> JobStates]
    /\ phase \in [Procs -> Phases]
    /\ at \in [Procs -> Nat \ {0}]

\* A wrapper that has met no exception has no failed kernel, and a runner for
\* each kernel that wait has passed.
RunnersSoFar(p) ==
    /\ phase[p] \in {"calling", "waiting"} =>
          \A i \in DOMAIN Script[p] : job[Script[p][i]] # "failed"
    /\ phase[p] = "waiting" =>
          \A i \in DOMAIN Script[p] : i < at[p] => job[Script[p][i]] = "runner"
    /\ phase[p] = "returned" =>
          \A i \in DOMAIN Script[p] : job[Script[p][i]] = "runner"

ReturnInv == ControlType /\ \A p \in Procs : RunnersSoFar(p)

-----------------------------------------------------------------------------
\* The kernels of a script are jobs, numbered from one.
LEMMA ScriptJobs ==
    \A q \in Procs : \A i \in DOMAIN Script[q] : Script[q][i] \in Jobs /\ i \in Nat \ {0}
<1>1. \A q \in Procs : Script[q] \in Seq(Jobs)
  BY ScriptAssumption, Zenon
<1>2. ASSUME NEW s \in Seq(Jobs), NEW i \in DOMAIN s PROVE s[i] \in Jobs /\ i \in Nat \ {0}
  OBVIOUS
<1> QED
  BY <1>1, <1>2, Zenon

\* What a wrapper works on is a job of its script.
LEMMA CurrentJob ==
    ASSUME ControlType, NEW p \in Procs, at[p] <= Len(Script[p])
    PROVE  Current(p) \in Jobs /\ at[p] \in DOMAIN Script[p]
<1>1. Script[p] \in Seq(Jobs) /\ at[p] \in Nat \ {0}
  BY ScriptAssumption, Zenon DEF ControlType
<1> QED
  BY <1>1 DEF Current

\* A step that changes one job of a wrapper, and not one that is resolved,
\* leaves the other wrappers' runners and failures as they are.
LEMMA OtherWrappers ==
    ASSUME ReturnInv, NEW p \in Procs, at[p] <= Len(Script[p]),
           job[Current(p)] \notin {"runner", "failed"},
           NEW s \in JobStates, SetJob(Current(p), s),
           NEW q \in Procs, q # p, phase'[q] = phase[q], at'[q] = at[q]
    PROVE  RunnersSoFar(q)'
<1>1. Current(p) \in Jobs /\ at[p] \in DOMAIN Script[p]
  BY CurrentJob DEF ReturnInv
<1>2. \A i \in DOMAIN Script[q] : Script[q][i] # Current(p) /\ Script[q][i] \in Jobs
  BY <1>1, ScriptAssumption, ScriptJobs, ZenonT(60) DEF Current
<1>3. \A i \in DOMAIN Script[q] : job'[Script[q][i]] = job[Script[q][i]]
  BY <1>2 DEF SetJob, ReturnInv, ControlType
<1> QED
  BY <1>3 DEF RunnersSoFar, ReturnInv

\* So a step within one call keeps the invariant, unless it ends in a failure,
\* if the wrapper moves on from a runner only.
LEMMA CallStep ==
    ASSUME ReturnInv, NEW p \in Procs, at[p] <= Len(Script[p]),
           job[Current(p)] \notin {"runner", "failed"},
           NEW s \in JobStates \ {"failed"}, SetJob(Current(p), s),
           UNCHANGED phase,
           \/ UNCHANGED at
           \/ Advance(p) /\ (phase[p] = "waiting" => s = "runner"),
           phase[p] # "returned"
    PROVE  ReturnInv'
<1>1. Current(p) \in Jobs /\ at[p] \in DOMAIN Script[p]
  BY CurrentJob DEF ReturnInv
<1>2. ControlType'
  BY <1>1 DEF ReturnInv, ControlType, SetJob, Advance
<1>3. ASSUME NEW q \in Procs, q # p PROVE RunnersSoFar(q)'
  <2>1. phase'[q] = phase[q] /\ at'[q] = at[q]
    BY <1>3 DEF Advance, ReturnInv, ControlType
  <2> QED
    BY <1>3, <2>1, OtherWrappers
<1>4. RunnersSoFar(p)'
  <2>1. ASSUME NEW i \in DOMAIN Script[p]
        PROVE  /\ Script[p][i] \in Jobs
               /\ job'[Script[p][i]] = IF Script[p][i] = Current(p) THEN s ELSE job[Script[p][i]]
    BY ScriptJobs, ZenonT(60) DEF SetJob, ReturnInv, ControlType
  <2>2. phase[p] \in {"calling", "waiting"} =>
          \A i \in DOMAIN Script[p] : job'[Script[p][i]] # "failed"
    BY <2>1 DEF ReturnInv, RunnersSoFar
  <2>3. ASSUME phase[p] = "waiting", NEW i \in DOMAIN Script[p], i < at'[p]
        PROVE  job'[Script[p][i]] = "runner"
    <3>1. CASE i < at[p]
      BY <3>1, <2>1, <2>3 DEF ReturnInv, RunnersSoFar
    <3>2. CASE ~(i < at[p])
      <4>1. at[p] \in Nat /\ i \in Nat /\ (at'[p] = at[p] \/ at'[p] = at[p] + 1)
        BY ScriptJobs DEF ReturnInv, ControlType, Advance
      <4>2. i = at[p] /\ at'[p] # at[p]
        BY <4>1, <3>2, <2>3
      <4> QED
        BY <4>2, <2>1, <2>3 DEF Current
    <3> QED
      BY <3>1, <3>2
  <2> QED
    BY <2>2, <2>3 DEF RunnersSoFar
<1> QED
  BY <1>2, <1>3, <1>4 DEF ReturnInv

\* A step that fails a kernel leaves the wrapper raised or draining.
LEMMA FailureStep ==
    ASSUME ReturnInv, NEW p \in Procs, at[p] <= Len(Script[p]),
           job[Current(p)] \notin {"runner", "failed"},
           SetJob(Current(p), "failed"),
           \/ SetPhase(p, "raised") \/ SetPhase(p, "draining")
           \/ phase[p] = "draining" /\ Advance(p) /\ UNCHANGED phase
    PROVE  ReturnInv'
<1>1. Current(p) \in Jobs
  BY CurrentJob DEF ReturnInv
<1>2. ControlType'
  BY <1>1 DEF ReturnInv, ControlType, SetJob, Advance, SetPhase, JobStates, Phases
<1>3. ASSUME NEW q \in Procs, q # p PROVE RunnersSoFar(q)'
  <2>1. phase'[q] = phase[q] /\ at'[q] = at[q]
    BY <1>3 DEF Advance, SetPhase, ReturnInv, ControlType
  <2> QED
    BY <1>3, <2>1, OtherWrappers DEF JobStates
<1>4. RunnersSoFar(p)'
  <2>1. phase'[p] \in {"raised", "draining"}
    BY DEF SetPhase, ReturnInv, ControlType
  <2> QED
    BY <2>1 DEF RunnersSoFar
<1> QED
  BY <1>2, <1>3, <1>4 DEF ReturnInv

\* A step of one wrapper that changes no job keeps the invariant if that
\* wrapper's part of it holds after it.
LEMMA ControlStep ==
    ASSUME ReturnInv, NEW p \in Procs, UNCHANGED job,
           phase' \in [Procs -> Phases], at' \in [Procs -> Nat \ {0}],
           \A q \in Procs \ {p} : phase'[q] = phase[q] /\ at'[q] = at[q],
           RunnersSoFar(p)'
    PROVE  ReturnInv'
<1>1. ControlType'
  BY DEF ReturnInv, ControlType
<1>2. ASSUME NEW q \in Procs \ {p} PROVE RunnersSoFar(q)'
  BY <1>2 DEF ReturnInv, RunnersSoFar
<1> QED
  BY <1>1, <1>2 DEF ReturnInv

LEMMA SdscReturns == ASSUME ReturnInv, NEW p \in Procs, Sdsc(p) PROVE ReturnInv'
<1>1. CASE LookupHit(p) \/ LookupMiss(p) \/ GenerateBundle(p) \/ CompileInline(p) \/ InlineDone(p)
  BY <1>1, CallStep DEF LookupHit, LookupMiss, GenerateBundle, CompileInline, InlineDone, Running,
     JobStates, Early, Committing
<1>2. CASE SubmitToPool(p)
  BY <1>2, CallStep DEF SubmitToPool, Running, JobStates, Early
<1>3. CASE UseHit(p)
  <2>1. Running(p, "calling") /\ job[Current(p)] = "hit"
    BY <1>3 DEF UseHit
  <2>2. \/ SetJob(Current(p), "runner") /\ Advance(p) /\ UNCHANGED phase
        \/ SetJob(Current(p), "failed") /\ SetPhase(p, "raised")
    BY <1>3 DEF UseHit
  <2> QED
    BY <2>1, <2>2, CallStep, FailureStep DEF Running, JobStates
<1>4. CASE CallRaises(p)
  BY <1>4, FailureStep DEF CallRaises, Running
<1> QED
  BY <1>1, <1>2, <1>3, <1>4 DEF Sdsc

LEMMA CommitReturns == ASSUME ReturnInv, NEW p \in Procs, Commit(p) PROVE ReturnInv'
<1>1. CASE CommitCheck(p) \/ CommitMerge(p)
  BY <1>1, CallStep DEF CommitCheck, CommitMerge, Busy, JobStates, Committing
<1>2. CASE CommitRename(p)
  <2>1. Busy(p) /\ job[Current(p)] = "renaming" /\ UNCHANGED phase
    BY <1>2 DEF CommitRename
  <2>2. \/ SetJob(Current(p), "runner") /\ Advance(p)
        \/ SetJob(Current(p), "lost") /\ UNCHANGED at
    BY <1>2, ZenonT(60) DEF CommitRename
  <2> QED
    BY <2>1, <2>2, CallStep DEF Busy, JobStates, Committing
<1>3. CASE CommitDiscard(p)
  BY <1>3, CallStep DEF CommitDiscard, Busy, JobStates
<1> QED
  BY <1>1, <1>2, <1>3 DEF Commit

LEMMA WaitReturns == ASSUME ReturnInv, NEW p \in Procs, Wait(p) PROVE ReturnInv'
<1>0. phase[p] \in Phases /\ at[p] \in Nat \ {0} /\ RunnersSoFar(p)
  BY DEF ReturnInv, ControlType
<1>1. CASE StartWait(p)
  <2>1. /\ phase' = [phase EXCEPT ![p] = "waiting"] /\ at' = [at EXCEPT ![p] = 1]
        /\ UNCHANGED job /\ phase[p] = "calling"
    BY <1>1 DEF StartWait, SetPhase
  <2>2. \A i \in DOMAIN Script[p] : ~(i < 1)
    BY ScriptJobs
  <2>3. RunnersSoFar(p)'
    BY <1>0, <2>1, <2>2 DEF RunnersSoFar, ReturnInv, ControlType
  <2>4. /\ phase' \in [Procs -> Phases] /\ at' \in [Procs -> Nat \ {0}]
        /\ \A q \in Procs \ {p} : phase'[q] = phase[q] /\ at'[q] = at[q]
    BY <1>0, <2>1 DEF ReturnInv, ControlType, Phases
  <2> QED
    BY <2>1, <2>3, <2>4, ControlStep
<1>2. CASE SkipResolved(p)
  <2>1. /\ phase' = [phase EXCEPT ![p] = phase[p]] /\ at' = [at EXCEPT ![p] = at[p] + 1]
        /\ UNCHANGED job /\ phase[p] \in {"waiting", "draining"}
        /\ job[Current(p)] \in {"runner", "failed"} /\ at[p] <= Len(Script[p])
    BY <1>2 DEF SkipResolved, Advance, Resolving, ReturnInv, ControlType
  <2>2. phase'[p] = phase[p] /\ at'[p] = at[p] + 1
    BY <2>1 DEF ReturnInv, ControlType
  <2>3. at[p] \in DOMAIN Script[p]
    BY <2>1, CurrentJob DEF ReturnInv
  <2>4. phase[p] = "waiting" => job[Current(p)] = "runner"
    BY <2>1, <2>3, <1>0 DEF RunnersSoFar, Current
  <2>5. \A i \in DOMAIN Script[p] : i < at[p] + 1 => i < at[p] \/ i = at[p]
    BY <1>0, ScriptJobs
  <2>6. RunnersSoFar(p)'
    BY <1>0, <2>1, <2>2, <2>4, <2>5 DEF RunnersSoFar, Current
  <2>7. /\ phase' \in [Procs -> Phases] /\ at' \in [Procs -> Nat \ {0}]
        /\ \A q \in Procs \ {p} : phase'[q] = phase[q] /\ at'[q] = at[q]
    BY <1>0, <2>1 DEF ReturnInv, ControlType, Phases
  <2> QED
    BY <2>1, <2>6, <2>7, ControlStep
<1>3. CASE ResolveSuccess(p)
  BY <1>3, CallStep DEF ResolveSuccess, Resolving, JobStates, Committing
<1>4. CASE ResolveFailure(p)
  BY <1>4, FailureStep DEF ResolveFailure, Resolving, AfterException
<1>5. CASE ResolveTimeout(p)
  <2>1. /\ UNCHANGED job
        /\ \E n \in Nat \ {0} : phase' = [phase EXCEPT ![p] = "draining"] /\ at' = [at EXCEPT ![p] = n]
    BY <1>5, <1>0 DEF ResolveTimeout, Resolving, AfterException, SetPhase, Advance, ReturnInv, ControlType
  <2>2. RunnersSoFar(p)'
    BY <2>1 DEF RunnersSoFar, ReturnInv, ControlType
  <2>3. /\ phase' \in [Procs -> Phases] /\ at' \in [Procs -> Nat \ {0}]
        /\ \A q \in Procs \ {p} : phase'[q] = phase[q] /\ at'[q] = at[q]
    BY <1>0, <2>1 DEF ReturnInv, ControlType, Phases
  <2> QED
    BY <2>1, <2>2, <2>3, ControlStep
<1>6. CASE EndWait(p)
  <2>1. /\ phase' = [phase EXCEPT ![p] = IF phase[p] = "waiting" THEN "returned" ELSE "raised"]
        /\ at' = [at EXCEPT ![p] = 1] /\ UNCHANGED job /\ at[p] = Len(Script[p]) + 1
    BY <1>6 DEF EndWait, SetPhase
  <2>2. \A i \in DOMAIN Script[p] : i < at[p]
    <3>1. Script[p] \in Seq(Jobs)
      BY ScriptAssumption, Zenon
    <3> QED
      BY <3>1, <2>1
  <2>3. RunnersSoFar(p)'
    BY <1>0, <2>1, <2>2 DEF RunnersSoFar, ReturnInv, ControlType
  <2>4. /\ phase' \in [Procs -> Phases] /\ at' \in [Procs -> Nat \ {0}]
        /\ \A q \in Procs \ {p} : phase'[q] = phase[q] /\ at'[q] = at[q]
    BY <1>0, <2>1 DEF ReturnInv, ControlType, Phases
  <2> QED
    BY <2>1, <2>3, <2>4, ControlStep
<1> QED
  BY <1>1, <1>2, <1>3, <1>4, <1>5, <1>6 DEF Wait

LEMMA NextReturns == ReturnInv /\ [CacheNext]_cacheVars => ReturnInv'
<1> SUFFICES ASSUME ReturnInv, [CacheNext]_cacheVars PROVE ReturnInv'
  OBVIOUS
<1>1. CASE UNCHANGED <<job, phase, at>>
  BY <1>1 DEF ReturnInv, ControlType, RunnersSoFar
<1>2. ASSUME NEW p \in Procs, Crash(p) PROVE ReturnInv'
  <2>1. phase' = [phase EXCEPT ![p] = "crashed"] /\ UNCHANGED <<job, at>>
    BY <1>2 DEF Crash
  <2>2. RunnersSoFar(p)'
    BY <2>1 DEF RunnersSoFar, ReturnInv, ControlType
  <2>3. /\ phase' \in [Procs -> Phases] /\ at' \in [Procs -> Nat \ {0}]
        /\ \A q \in Procs \ {p} : phase'[q] = phase[q] /\ at'[q] = at[q]
    BY <2>1 DEF ReturnInv, ControlType, Phases
  <2> QED
    BY <2>1, <2>2, <2>3, ControlStep
<1>3. CASE \E j \in Jobs : Worker(j)
  BY <1>1, <1>3 DEF Worker, WorkerWrites, WorkerSucceeds, WorkerFails
<1>4. CASE Clear
  BY <1>1, <1>4 DEF Clear, ClearStart, ClearEnd, ClearCommitted, ClearTmp
<1> QED
  BY <1>1, <1>2, <1>3, <1>4, SdscReturns, CommitReturns, WaitReturns DEF CacheNext, cacheVars

LEMMA InitReturns == CacheInit => ReturnInv
<1> SUFFICES ASSUME CacheInit PROVE ReturnInv
  OBVIOUS
<1>1. ControlType
  BY DEF CacheInit, ControlType, JobStates, Early, Phases
<1>2. ASSUME NEW p \in Procs, NEW i \in DOMAIN Script[p] PROVE Script[p][i] \in Jobs
  BY <1>2, ScriptJobs, Zenon
<1>3. ASSUME NEW p \in Procs PROVE RunnersSoFar(p)
  BY <1>2 DEF CacheInit, RunnersSoFar
<1> QED
  BY <1>1, <1>3 DEF ReturnInv

\* wait raises whenever some kernel failed, also while another process clears
\* the cache: a wrapper that went on has a runner for each of its kernels.
THEOREM ReturnsRunnersAlways == CacheSpec => []ReturnsRunners
<1>1. CacheInit => ReturnInv
  BY InitReturns, ZenonT(60)
<1>2. ReturnInv => ReturnsRunners
  BY DEF ReturnInv, RunnersSoFar, ReturnsRunners
<1> QED
  BY <1>1, <1>2, NextReturns, PTL DEF CacheSpec

-----------------------------------------------------------------------------
(* The directories of the cache. *)


DirType ==
    /\ committed \in [Keys -> (SUBSET Artifacts) \cup {NoDir}]
    /\ names \in [Keys -> SUBSET Jobs]
    /\ tmp \in [Jobs -> (SUBSET Artifacts) \cup {NoDir}]
    /\ tmpNames \in [Jobs -> SUBSET Jobs]
    /\ worker \in [Jobs -> {"none", "running", "ok", "failed"}]
    /\ clear = "no"

\* A job in each of its states: its worker, its temporary directory and the
\* directory of its key.
JobOk(j) ==
    /\ job[j] \in {"new", "hit", "allocated", "bundled"} => worker[j] = "none"
    /\ worker[j] = "running" => job[j] \in {"inline", "pending"}
    /\ job[j] \in {"allocated", "bundled", "inline", "pending"} \cup Committing =>
          tmp[j] # NoDir /\ tmpNames[j] = {j}
    /\ job[j] \in {"new", "hit", "runner", "failed"} => tmp[j] = NoDir
    /\ job[j] \in {"bundled", "inline", "pending"} => Frontend \subseteq tmp[j]
    /\ \/ job[j] \in Committing
       \/ job[j] \in {"inline", "pending"} /\ worker[j] = "ok"
       => Required \subseteq tmp[j]
    /\ job[j] # "failed" => j \notin failed
    /\ job[j] \in {"hit", "lost", "merged", "runner"} => committed[KeyOf[j]] # NoDir
    /\ job[j] \in {"merged", "runner"} => j \in names[KeyOf[j]]

KeyOk(k) ==
    /\ committed[k] # NoDir => Required \subseteq committed[k]
    /\ committed[k] = NoDir => names[k] = {}

\* What wait or the drain has passed is resolved or timed out.
PassedResolved(p) ==
    phase[p] \in {"waiting", "draining"} =>
        \A i \in DOMAIN Script[p] : i < at[p] =>
            job[Script[p][i]] \in {"runner", "failed"} \/ Script[p][i] \in timedOut

DirInv == DirType /\ (\A j \in Jobs : JobOk(j)) /\ (\A k \in Keys : KeyOk(k))
CacheInv == ReturnInv /\ DirInv /\ \A p \in Procs : PassedResolved(p)

\* A step on one job leaves what concerns the others alone: directories of keys
\* do not go away, and no name is taken out of them.
OnlyJob(j) ==
    /\ \A i \in Jobs \ {j} :
          /\ job'[i] = job[i] /\ worker'[i] = worker[i]
          /\ tmp'[i] = tmp[i] /\ tmpNames'[i] = tmpNames[i]
          /\ i \in failed' => i \in failed
    /\ \A k \in Keys : committed[k] # NoDir => committed'[k] # NoDir
    /\ \A k \in Keys : names[k] \subseteq names'[k]

LEMMA OtherJobs ==
    ASSUME CacheInv, NEW j \in Jobs, OnlyJob(j), NEW i \in Jobs, i # j
    PROVE  JobOk(i)'
<1>1. KeyOf[i] \in Keys
  BY ScriptAssumption, Zenon
<1> QED
  BY <1>1 DEF CacheInv, DirInv, JobOk, OnlyJob

\* The union of a directory and artifacts is a directory.
LEMMA DirGrows ==
    ASSUME NEW d \in (SUBSET Artifacts) \cup {NoDir}, d # NoDir, NEW a \in SUBSET Artifacts
    PROVE  d \cup a \in SUBSET Artifacts /\ d \cup a # NoDir
<1> DEFINE e == d \cup a
<1>1. e \in SUBSET Artifacts
  OBVIOUS
<1> HIDE DEF e
<1>2. e # NoDir
  BY <1>1, NoDirAssumption
<1> QED
  BY <1>1, <1>2 DEF e

\* A step of a job and its worker that touches no directory.
LEMMA StateStep ==
    ASSUME CacheInv, NEW j \in Jobs, NEW s \in JobStates, SetJob(j, s),
           NEW w \in {"none", "running", "ok", "failed"}, worker' = [worker EXCEPT ![j] = w],
           UNCHANGED <<dirs, clear>>, JobOk(j)'
    PROVE  DirInv'
<1>1. OnlyJob(j)
  BY DEF OnlyJob, SetJob, dirs, CacheInv, DirInv, DirType, ReturnInv, ControlType
<1>2. DirType'
  BY DEF dirs, CacheInv, DirInv, DirType
<1>3. \A k \in Keys : KeyOk(k)'
  BY DEF dirs, CacheInv, DirInv, KeyOk
<1> QED
  BY <1>1, <1>2, <1>3, OtherJobs DEF DirInv

\* A step of a job that changes its temporary directory.
LEMMA TmpStep ==
    ASSUME CacheInv, NEW j \in Jobs, NEW s \in JobStates, SetJob(j, s),
           NEW d \in (SUBSET Artifacts) \cup {NoDir}, tmp' = [tmp EXCEPT ![j] = d],
           NEW n \in SUBSET Jobs, tmpNames' = [tmpNames EXCEPT ![j] = n],
           failed' \in {failed, failed \cup {j}},
           UNCHANGED <<committed, names, worker, clear>>, JobOk(j)'
    PROVE  DirInv'
<1>1. OnlyJob(j)
  BY DEF OnlyJob, SetJob, CacheInv, DirInv, DirType, ReturnInv, ControlType
<1>2. DirType'
  BY ZenonT(60) DEF CacheInv, DirInv, DirType
<1>3. \A k \in Keys : KeyOk(k)'
  BY ZenonT(60) DEF CacheInv, DirInv, KeyOk
<1> QED
  BY <1>1, <1>2, <1>3, OtherJobs DEF DirInv

\* A step of a job that adds names to the directory of its key.
LEMMA NameStep ==
    ASSUME CacheInv, NEW j \in Jobs, NEW s \in JobStates, SetJob(j, s),
           NEW n \in SUBSET Jobs, RecordNames(KeyOf[j], n),
           UNCHANGED <<committed, tmp, tmpNames, failed, worker, clear>>, JobOk(j)'
    PROVE  DirInv'
<1>0. KeyOf[j] \in Keys
  BY ScriptAssumption, Zenon
<1>1. OnlyJob(j)
  BY DEF OnlyJob, SetJob, RecordNames, CacheInv, DirInv, DirType, ReturnInv, ControlType
<1>2. DirType'
  BY <1>0 DEF CacheInv, DirInv, DirType, RecordNames
<1>3. \A k \in Keys : KeyOk(k)'
  BY <1>0 DEF CacheInv, DirInv, DirType, KeyOk, RecordNames
<1> QED
  BY <1>1, <1>2, <1>3, OtherJobs DEF DirInv

\* Moving the directory of a job aside once its worker has ended.
LEMMA MoveDirs ==
    ASSUME CacheInv, NEW j \in Jobs, worker[j] # "running", MoveToFailed(j),
           SetJob(j, "failed"), UNCHANGED <<worker, clear>>
    PROVE  DirInv'
<1>n. PICK none \in SUBSET Jobs : none = {}
  BY Zenon
<1>1. /\ tmp' = [tmp EXCEPT ![j] = NoDir] /\ tmpNames' = [tmpNames EXCEPT ![j] = none]
      /\ failed' \in {failed, failed \cup {j}} /\ UNCHANGED <<committed, names>>
  BY <1>n, ZenonT(60) DEF MoveToFailed
<1>2. JobOk(j)'
  BY <1>1, ZenonT(60) DEF JobOk, SetJob, Committing, CacheInv, DirInv, DirType, ReturnInv, ControlType
<1> QED
  BY <1>1, <1>2, TmpStep, Zenon DEF JobStates

\* The steps of sdsc keep the invariant on directories.
LEMMA SdscDirs ==
    ASSUME CacheInv, NEW p \in Procs, at[p] <= Len(Script[p]), Sdsc(p)
    PROVE  DirInv'
<1>j. PICK j \in Jobs : j = Current(p)
  BY CurrentJob DEF CacheInv, ReturnInv
<1>k. PICK k \in Keys : k = KeyOf[j]
  BY ScriptAssumption, Zenon
<1>0. /\ JobOk(j) /\ KeyOk(k) /\ DirType /\ job \in [Jobs -> JobStates]
      /\ worker[j] \in {"none", "running", "ok", "failed"}
      /\ tmp[j] \in (SUBSET Artifacts) \cup {NoDir} /\ tmpNames[j] \in SUBSET Jobs
      /\ committed[k] \in (SUBSET Artifacts) \cup {NoDir} /\ names[k] \in SUBSET Jobs
  BY DEF CacheInv, ReturnInv, ControlType, DirInv, DirType
<1>1. CASE LookupHit(p)
  <2>1. /\ job[j] = "new" /\ IsHit(k) /\ SetJob(j, "hit")
        /\ worker' = [worker EXCEPT ![j] = worker[j]] /\ UNCHANGED <<dirs, clear>>
    BY <1>0, <1>j, <1>k, <1>1, ZenonT(60) DEF LookupHit, DirType
  <2>2. JobOk(j)'
    BY <1>0, <1>k, <2>1 DEF JobOk, SetJob, dirs, Committing, IsHit, DirType
  <2> QED
    BY <1>0, <2>1, <2>2, StateStep, Zenon DEF JobStates, Early, Committing
<1>2. CASE SubmitToPool(p)
  <2>1. /\ job[j] = "bundled" /\ SetJob(j, "pending")
        /\ worker' = [worker EXCEPT ![j] = "running"] /\ UNCHANGED <<dirs, clear>>
    BY <1>0, <1>j, <1>k, <1>2, ZenonT(60) DEF SubmitToPool, DirType
  <2>2. JobOk(j)'
    BY <1>0, <1>k, <2>1 DEF JobOk, SetJob, dirs, Committing, DirType
  <2> QED
    BY <1>0, <2>1, <2>2, StateStep, Zenon DEF JobStates, Early, Committing
<1>3. CASE CompileInline(p)
  <2>1. /\ job[j] = "bundled" /\ SetJob(j, "inline")
        /\ worker' = [worker EXCEPT ![j] = "running"] /\ UNCHANGED <<dirs, clear>>
    BY <1>0, <1>j, <1>k, <1>3, ZenonT(60) DEF CompileInline, DirType
  <2>2. JobOk(j)'
    BY <1>0, <1>k, <2>1 DEF JobOk, SetJob, dirs, Committing, DirType
  <2> QED
    BY <1>0, <2>1, <2>2, StateStep, Zenon DEF JobStates, Early, Committing
<1>4. CASE InlineDone(p)
  <2>1. /\ job[j] = "inline" /\ worker[j] = "ok" /\ SetJob(j, "compiled")
        /\ worker' = [worker EXCEPT ![j] = worker[j]] /\ UNCHANGED <<dirs, clear>>
    BY <1>0, <1>j, <1>k, <1>4, ZenonT(60) DEF InlineDone, DirType
  <2>2. JobOk(j)'
    BY <1>0, <1>k, <2>1 DEF JobOk, SetJob, dirs, Committing, DirType
  <2> QED
    BY <1>0, <2>1, <2>2, StateStep, Zenon DEF JobStates, Early, Committing
<1>5. CASE UseHit(p)
  <2>1. job[j] = "hit" /\ committed[k] # NoDir /\ "symbol_kinds.json" \in committed[k]
    BY <1>0, <1>j, <1>k, <1>5, ZenonT(60) DEF UseHit, JobOk, KeyOk, Required, Artifacts, Frontend
  <2>n. PICK n \in SUBSET Jobs : n = {j}
    BY ZenonT(60)
  <2>2. /\ SetJob(j, "runner") /\ RecordNames(KeyOf[j], n)
        /\ UNCHANGED <<committed, tmp, tmpNames, failed, worker, clear>>
    BY <2>n, <2>1, <1>j, <1>k, <1>5, ZenonT(60) DEF UseHit
  <2>3. JobOk(j)'
    BY <1>0, <1>k, <2>n, <2>1, <2>2 DEF JobOk, SetJob, RecordNames, Committing, DirType
  <2> QED
    BY <1>0, <2>2, <2>3, NameStep, ZenonT(60) DEF JobStates
<1>6. CASE LookupMiss(p)
  <2>n. PICK n \in SUBSET Jobs, d \in (SUBSET Artifacts) \cup {NoDir} : n = {j} /\ d = {}
    BY ZenonT(60)
  <2>1. /\ job[j] = "new" /\ SetJob(j, "allocated")
        /\ tmp' = [tmp EXCEPT ![j] = d] /\ tmpNames' = [tmpNames EXCEPT ![j] = n]
        /\ UNCHANGED <<committed, names, failed, worker, clear>>
    BY <2>n, <1>j, <1>6, ZenonT(60) DEF LookupMiss
  <2>2. {} # NoDir
    BY NoDirAssumption, ZenonT(60)
  <2>3. JobOk(j)'
    BY <1>0, <1>k, <2>n, <2>1, <2>2 DEF JobOk, SetJob, Committing, DirType
  <2> QED
    BY <1>0, <2>1, <2>3, TmpStep, Zenon DEF JobStates, Early
<1>7. CASE GenerateBundle(p)
  <2>1. /\ job[j] = "allocated" /\ tmp[j] # NoDir /\ SetJob(j, "bundled")
        /\ tmp' = [tmp EXCEPT ![j] = tmp[j] \cup Frontend]
        /\ tmpNames' = [tmpNames EXCEPT ![j] = tmpNames[j]]
        /\ UNCHANGED <<committed, names, failed, worker, clear>>
    BY <1>0, <1>j, <1>7 DEF GenerateBundle, DirType
  <2>2. tmp[j] \cup Frontend \in SUBSET Artifacts /\ tmp[j] \cup Frontend # NoDir
    BY <1>0, <2>1, DirGrows, ZenonT(60) DEF Artifacts
  <2>3. JobOk(j)'
    BY <1>0, <1>k, <2>1, <2>2 DEF JobOk, SetJob, Committing, DirType
  <2> QED
    BY <1>0, <2>1, <2>2, <2>3, TmpStep, Zenon DEF JobStates, Early
<1>8. CASE CallRaises(p)
  <2>1. /\ worker[j] # "running" /\ job[j] \in {"allocated", "bundled", "inline"}
        /\ MoveToFailed(j) /\ SetJob(j, "failed") /\ UNCHANGED <<worker, clear>>
    BY <1>0, <1>j, <1>8, ZenonT(60) DEF CallRaises, JobOk
  <2> QED
    BY <1>0, <2>1, MoveDirs, ZenonT(60)
<1> QED
  BY <1>1, <1>2, <1>3, <1>4, <1>5, <1>6, <1>7, <1>8, ZenonT(60) DEF Sdsc

\* The steps of commit_compile_dir do: only the first rename makes the directory
\* of a key, with all of its artifacts, and whoever loses adds its name.
LEMMA CommitDirs ==
    ASSUME CacheInv, NEW p \in Procs, at[p] <= Len(Script[p]), Commit(p)
    PROVE  DirInv'
<1>j. PICK j \in Jobs : j = Current(p)
  BY CurrentJob DEF CacheInv, ReturnInv
<1>k. PICK k \in Keys : k = KeyOf[j]
  BY ScriptAssumption, Zenon
<1>0. /\ JobOk(j) /\ KeyOk(k) /\ DirType /\ job \in [Jobs -> JobStates]
      /\ worker[j] \in {"none", "running", "ok", "failed"}
      /\ tmp[j] \in (SUBSET Artifacts) \cup {NoDir} /\ tmpNames[j] \in SUBSET Jobs
      /\ committed[k] \in (SUBSET Artifacts) \cup {NoDir} /\ names[k] \in SUBSET Jobs
  BY DEF CacheInv, ReturnInv, ControlType, DirInv, DirType
<1>1. CASE CommitCheck(p)
  <2>1. /\ job[j] = "compiled"
        /\ worker' = [worker EXCEPT ![j] = worker[j]] /\ UNCHANGED <<dirs, clear>>
    BY <1>0, <1>j, <1>k, <1>1 DEF CommitCheck, DirType
  <2>2. PICK s \in {"lost", "renaming"} : SetJob(j, s) /\ (s = "lost" => committed[k] # NoDir)
    BY <1>0, <1>j, <1>k, <1>1, ZenonT(60) DEF CommitCheck
  <2>3. JobOk(j)'
    BY <1>0, <1>k, <2>1, <2>2 DEF JobOk, SetJob, dirs, Committing, DirType
  <2> QED
    BY <1>0, <2>1, <2>2, <2>3, StateStep, Zenon DEF JobStates, Committing
<1>2. CASE CommitRename(p)
  <2>1. job[j] = "renaming" /\ tmp[j] # NoDir /\ Required \subseteq tmp[j] /\ tmpNames[j] = {j}
    BY <1>0, <1>j, <1>2, ZenonT(60) DEF CommitRename, JobOk, Committing
  <2>2. committed[k] = {} => committed[k] = NoDir
    BY <1>0 DEF KeyOk, Required, Artifacts, Frontend
  <2>3. CASE committed[k] = NoDir
    <3>1. names[k] = {}
      BY <1>0, <2>3, ZenonT(60) DEF KeyOk
    <3>2. /\ committed' = [committed EXCEPT ![k] = tmp[j]] /\ names' = [names EXCEPT ![k] = {j}]
          /\ tmp' = [tmp EXCEPT ![j] = NoDir] /\ tmpNames' = [tmpNames EXCEPT ![j] = {}]
          /\ SetJob(j, "runner") /\ UNCHANGED <<failed, worker, clear>>
      BY <1>j, <1>k, <1>2, <2>1, <2>3, <3>1 DEF CommitRename
    <3>3. OnlyJob(j)
      BY <1>0, <2>1, <2>3, <3>1, <3>2 DEF OnlyJob, SetJob, DirType
    <3>4. DirType'
      BY <1>0, <3>2 DEF DirType
    <3>5. \A l \in Keys : KeyOk(l)'
      BY <1>0, <2>1, <3>2, ZenonT(60) DEF KeyOk, CacheInv, DirInv, DirType
    <3>6. JobOk(j)'
      BY <1>0, <1>k, <2>1, <3>2 DEF JobOk, SetJob, Committing, DirType
    <3> QED
      BY <3>3, <3>4, <3>5, <3>6, OtherJobs DEF DirInv
  <2>4. CASE committed[k] # NoDir
    <3>1. /\ SetJob(j, "lost") /\ UNCHANGED <<dirs, clear>>
          /\ worker' = [worker EXCEPT ![j] = worker[j]]
      BY <1>0, <1>j, <1>k, <1>2, <2>2, <2>4, ZenonT(60) DEF CommitRename, dirs, DirType
    <3>2. JobOk(j)'
      BY <1>0, <1>k, <2>1, <2>4, <3>1 DEF JobOk, SetJob, dirs, Committing, DirType
    <3> QED
      BY <1>0, <3>1, <3>2, StateStep, ZenonT(60) DEF JobStates, Committing
  <2> QED
    BY <2>3, <2>4, ZenonT(60)
<1>3. CASE CommitMerge(p)
  <2>1. /\ job[j] = "lost" /\ SetJob(j, "merged") /\ RecordNames(KeyOf[j], tmpNames[j])
        /\ UNCHANGED <<committed, tmp, tmpNames, failed, worker, clear>>
    BY <1>j, <1>3, ZenonT(60) DEF CommitMerge
  <2>2. JobOk(j)'
    BY <1>0, <1>k, <2>1 DEF JobOk, SetJob, RecordNames, Committing, DirType
  <2> QED
    BY <1>0, <2>1, <2>2, NameStep, Zenon DEF JobStates, Committing
<1>4. CASE CommitDiscard(p)
  <2>n. PICK none \in SUBSET Jobs : none = {}
    OBVIOUS
  <2>1. /\ job[j] = "merged" /\ SetJob(j, "runner")
        /\ tmp' = [tmp EXCEPT ![j] = NoDir] /\ tmpNames' = [tmpNames EXCEPT ![j] = none]
        /\ UNCHANGED <<committed, names, failed, worker, clear>>
    BY <2>n, <1>j, <1>4, ZenonT(60) DEF CommitDiscard
  <2>2. JobOk(j)'
    BY <1>0, <1>k, <2>1 DEF JobOk, SetJob, Committing, DirType
  <2> QED
    BY <1>0, <2>1, <2>2, TmpStep, Zenon DEF JobStates
<1> QED
  BY <1>1, <1>2, <1>3, <1>4 DEF Commit

\* The steps of wait do.
LEMMA WaitDirs ==
    ASSUME CacheInv, NEW p \in Procs, Wait(p)
    PROVE  DirInv'
<1>1. CASE StartWait(p) \/ SkipResolved(p) \/ ResolveTimeout(p) \/ EndWait(p)
  <2>1. UNCHANGED <<committed, names, tmp, tmpNames, failed, job, worker, clear>>
    BY <1>1, Zenon DEF StartWait, SkipResolved, ResolveTimeout, EndWait, dirs
  <2> QED
    BY <2>1, ZenonT(60) DEF CacheInv, DirInv, DirType, JobOk, KeyOk
<1>2. CASE ResolveSuccess(p)
  <2>1. PICK j \in Jobs : j = Current(p)
    BY <1>2, CurrentJob DEF ResolveSuccess, Resolving, CacheInv, ReturnInv
  <2>2. JobOk(j) /\ DirType /\ job \in [Jobs -> JobStates]
    BY DEF CacheInv, DirInv, ReturnInv, ControlType
  <2>3. /\ job[j] = "pending" /\ worker[j] = "ok" /\ SetJob(j, "compiled")
        /\ worker' = [worker EXCEPT ![j] = "ok"] /\ UNCHANGED <<dirs, clear>>
    BY <1>2, <2>1, <2>2, ZenonT(60) DEF ResolveSuccess, DirType
  <2>4. JobOk(j)'
    BY <2>2, <2>3 DEF JobOk, SetJob, dirs, Committing, DirType
  <2> QED
    BY <2>3, <2>4, StateStep, Zenon DEF JobStates, Committing
<1>3. CASE ResolveFailure(p)
  <2>1. PICK j \in Jobs : j = Current(p)
    BY <1>3, CurrentJob DEF ResolveFailure, Resolving, CacheInv, ReturnInv
  <2> QED
    BY <1>3, <2>1, MoveDirs, ZenonT(60) DEF ResolveFailure
<1> QED
  BY <1>1, <1>2, <1>3, ZenonT(60) DEF Wait

\* So do those of the backend compiler, which reports success on a directory
\* that has all artifacts only.
LEMMA WorkerDirs ==
    ASSUME CacheInv, ~PartialOutput, NEW j \in Jobs, Worker(j)
    PROVE  DirInv'
<1>0. JobOk(j) /\ DirType /\ job \in [Jobs -> JobStates] /\ job[j] \in JobStates
  BY DEF CacheInv, DirInv, ReturnInv, ControlType
<1>1. ASSUME NEW a \in Backend, WorkerWrites(j, a) PROVE DirInv'
  <2>1. tmp[j] \in (SUBSET Artifacts) \cup {NoDir} /\ {a} \in SUBSET Artifacts
    BY <1>0 DEF DirType, Artifacts
  <2>2. /\ worker[j] = "running" /\ tmp[j] # NoDir
        /\ tmp' = [tmp EXCEPT ![j] = tmp[j] \cup {a}]
        /\ UNCHANGED <<committed, names, tmpNames, failed, job, worker, clear>>
    BY <1>1 DEF WorkerWrites
  <2>3. PICK d \in (SUBSET Artifacts) \cup {NoDir} : d = tmp[j] \cup {a} /\ d # NoDir
    <3>1. tmp[j] \cup {a} \in SUBSET Artifacts /\ tmp[j] \cup {a} # NoDir
      BY <2>1, <2>2, DirGrows, ZenonT(60)
    <3> QED
      BY <3>1, Zenon
  <2>4. JobOk(j)'
    BY <1>0, <2>2, <2>3 DEF JobOk, Committing, DirType
  <2>5. SetJob(j, job[j]) /\ tmpNames[j] \in SUBSET Jobs
    BY <1>0, <2>2 DEF SetJob, DirType
  <2>6. tmpNames' = [tmpNames EXCEPT ![j] = tmpNames[j]] /\ tmp' = [tmp EXCEPT ![j] = d]
    BY <1>0, <2>2, <2>3 DEF DirType
  <2>7. failed' \in {failed, failed \cup {j}} /\ UNCHANGED <<committed, names, worker, clear>>
    BY <2>2
  <2> QED
    BY <1>0, <2>4, <2>5, <2>6, <2>7, TmpStep, Zenon
<1>2. CASE WorkerSucceeds(j) \/ WorkerFails(j)
  <2>1. SetJob(j, job[j]) /\ UNCHANGED <<dirs, clear>> /\ worker[j] = "running"
    BY <1>0, <1>2 DEF SetJob, WorkerSucceeds, WorkerFails
  <2>2. PICK w \in {"ok", "failed"} :
          worker' = [worker EXCEPT ![j] = w] /\ (w = "ok" => Backend \subseteq tmp[j])
    BY <1>2, ZenonT(60) DEF WorkerSucceeds, WorkerFails, Backend
  <2>3. JobOk(j)'
    BY <1>0, <2>1, <2>2, ZenonT(60) DEF JobOk, dirs, SetJob, Committing, DirType, Required, Artifacts
  <2> QED
    BY <1>0, <2>1, <2>2, <2>3, StateStep, Zenon
<1> QED
  BY <1>1, <1>2 DEF Worker

\* A resolved job stays as it is, and a job that timed out stays one: a wrapper
\* keeps what it has passed, and adds the job it moves on from.
LEMMA PassedStep ==
    ASSUME CacheInv, NEW p \in Procs,
           \A j \in Jobs : job[j] \in {"runner", "failed"} => job'[j] = job[j],
           timedOut \subseteq timedOut',
           \A q \in Procs \ {p} : phase'[q] = phase[q] /\ at'[q] = at[q],
           \/ phase'[p] \notin {"waiting", "draining"}
           \/ at'[p] = 1
           \/ /\ phase'[p] = phase[p]
              /\ \/ at'[p] = at[p]
                 \/ /\ at'[p] = at[p] + 1
                    /\ job'[Current(p)] \in {"runner", "failed"} \/ Current(p) \in timedOut'
    PROVE  \A q \in Procs : PassedResolved(q)'
<1>1. \A q \in Procs : \A i \in DOMAIN Script[q] : Script[q][i] \in Jobs /\ i \in Nat \ {0}
  BY ScriptJobs, ZenonT(60)
<1>2. \A q \in Procs : PassedResolved(q)
  BY DEF CacheInv
<1>3. ASSUME NEW q \in Procs \ {p} PROVE PassedResolved(q)'
  BY <1>1, <1>2, <1>3 DEF PassedResolved
<1>4. PassedResolved(p)'
  <2> SUFFICES ASSUME phase'[p] \in {"waiting", "draining"},
                      NEW i \in DOMAIN Script[p], i < at'[p]
               PROVE  job'[Script[p][i]] \in {"runner", "failed"} \/ Script[p][i] \in timedOut'
    BY ZenonT(60) DEF PassedResolved
  <2>1. at[p] \in Nat /\ i \in Nat \ {0} /\ Script[p][i] \in Jobs
    BY <1>1, ZenonT(60) DEF CacheInv, ReturnInv, ControlType
  <2>2. CASE phase'[p] = phase[p] /\ i < at[p]
    BY <2>1, <2>2, <1>2 DEF PassedResolved
  <2>3. CASE ~(phase'[p] = phase[p] /\ i < at[p])
    <3>1. ~(i < 1)
      BY <2>1
    <3>2. phase'[p] = phase[p] /\ at'[p] = at[p] + 1 /\ i = at[p]
      BY <2>1, <2>3, <3>1
    <3> QED
      BY <2>1, <3>2 DEF Current
  <2> QED
    BY <2>2, <2>3
<1> QED
  BY <1>3, <1>4

\* Within a call of sdsc nothing has been passed.
LEMMA SdscPassed ==
    ASSUME CacheInv, NEW p \in Procs, Sdsc(p)
    PROVE  \A q \in Procs : PassedResolved(q)'
<1>0. job \in [Jobs -> JobStates] /\ phase \in [Procs -> Phases] /\ at \in [Procs -> Nat \ {0}]
  BY Zenon DEF CacheInv, ReturnInv, ControlType
<1>1. /\ phase[p] = "calling" /\ job[Current(p)] \notin {"runner", "failed"}
      /\ timedOut' = timedOut /\ \E s \in JobStates : SetJob(Current(p), s)
  BY ZenonT(30) DEF Sdsc, LookupHit, UseHit, LookupMiss, GenerateBundle, SubmitToPool, CompileInline,
     InlineDone, CallRaises, MoveToFailed, Running, dirs, JobStates, Early, Committing
<1>2. (UNCHANGED phase \/ SetPhase(p, "raised")) /\ (UNCHANGED at \/ Advance(p) \/ SetPhase(p, "raised"))
  BY Zenon DEF Sdsc, LookupHit, UseHit, LookupMiss, GenerateBundle, SubmitToPool, CompileInline,
     InlineDone, CallRaises
<1>3. \A j \in Jobs : job[j] \in {"runner", "failed"} => job'[j] = job[j]
  BY <1>0, <1>1 DEF SetJob
<1>4. \A q \in Procs \ {p} : phase'[q] = phase[q] /\ at'[q] = at[q]
  BY <1>0, <1>2 DEF SetPhase, Advance
<1>5. phase'[p] \notin {"waiting", "draining"}
  BY <1>0, <1>1, <1>2 DEF SetPhase
<1> QED
  BY <1>1, <1>3, <1>4, <1>5, PassedStep

\* A commit moves on from a runner.
LEMMA CommitPassed ==
    ASSUME CacheInv, NEW p \in Procs, at[p] <= Len(Script[p]), Commit(p)
    PROVE  \A q \in Procs : PassedResolved(q)'
<1>0. /\ job \in [Jobs -> JobStates] /\ phase \in [Procs -> Phases]
      /\ at \in [Procs -> Nat \ {0}] /\ Current(p) \in Jobs
  BY CurrentJob, ZenonT(30) DEF CacheInv, ReturnInv, ControlType
<1>1. /\ UNCHANGED <<phase, timedOut>> /\ job[Current(p)] \notin {"runner", "failed"}
      /\ \/ UNCHANGED at /\ \E s \in JobStates : SetJob(Current(p), s)
         \/ Advance(p) /\ SetJob(Current(p), "runner")
  BY ZenonT(30) DEF Commit, CommitCheck, CommitRename, CommitMerge, CommitDiscard, dirs, JobStates,
     Committing
<1>2. \A j \in Jobs : job[j] \in {"runner", "failed"} => job'[j] = job[j]
  BY <1>0, <1>1 DEF SetJob
<1>3. \A q \in Procs \ {p} : phase'[q] = phase[q] /\ at'[q] = at[q]
  BY <1>0, <1>1 DEF Advance
<1>4. phase'[p] = phase[p] /\ (at'[p] = at[p] \/ (at'[p] = at[p] + 1 /\ job'[Current(p)] = "runner"))
  BY <1>0, <1>1, ZenonT(60) DEF Advance, SetJob
<1> QED
  BY <1>1, <1>2, <1>3, <1>4, PassedStep, Zenon

\* wait moves on from what is resolved or has timed out.
LEMMA WaitPassed ==
    ASSUME CacheInv, NEW p \in Procs, Wait(p)
    PROVE  \A q \in Procs : PassedResolved(q)'
<1>0. job \in [Jobs -> JobStates] /\ phase \in [Procs -> Phases] /\ at \in [Procs -> Nat \ {0}]
  BY Zenon DEF CacheInv, ReturnInv, ControlType
<1>1. at[p] <= Len(Script[p]) => Current(p) \in Jobs
  BY CurrentJob, Zenon DEF CacheInv, ReturnInv
<1>2. timedOut \subseteq timedOut'
  BY ZenonT(60) DEF Wait, StartWait, SkipResolved, ResolveSuccess, ResolveFailure, ResolveTimeout, EndWait,
     MoveToFailed, dirs
<1>3. \A j \in Jobs : job[j] \in {"runner", "failed"} => job'[j] = job[j]
  BY <1>0, ZenonT(60) DEF Wait, StartWait, SkipResolved, ResolveSuccess, ResolveFailure, ResolveTimeout, EndWait,
     SetJob
<1>4. \/ \E ph \in Phases : SetPhase(p, ph)
      \/ UNCHANGED <<phase, at>>
      \/ /\ Advance(p) /\ UNCHANGED phase
         /\ job'[Current(p)] \in {"runner", "failed"} \/ Current(p) \in timedOut'
  <2>1. CASE StartWait(p) \/ ResolveSuccess(p) \/ EndWait(p)
    BY <2>1, ZenonT(60) DEF StartWait, ResolveSuccess, EndWait, Phases
  <2>2. CASE SkipResolved(p)
    BY <2>2 DEF SkipResolved
  <2>3. CASE ResolveFailure(p)
    BY <2>3, <1>0, <1>1, ZenonT(60) DEF ResolveFailure, Resolving, AfterException, SetJob, Phases
  <2>4. CASE ResolveTimeout(p)
    BY <2>4, ZenonT(60) DEF ResolveTimeout, AfterException, Phases
  <2> QED
    BY <2>1, <2>2, <2>3, <2>4, ZenonT(60) DEF Wait
<1>5. \A q \in Procs \ {p} : phase'[q] = phase[q] /\ at'[q] = at[q]
  BY <1>0, <1>4 DEF Advance, SetPhase
<1>6. \/ at'[p] = 1
      \/ /\ phase'[p] = phase[p]
         /\ \/ at'[p] = at[p]
            \/ /\ at'[p] = at[p] + 1
               /\ job'[Current(p)] \in {"runner", "failed"} \/ Current(p) \in timedOut'
  BY <1>0, <1>4 DEF Advance, SetPhase
<1> QED
  BY <1>2, <1>3, <1>5, <1>6, PassedStep

-----------------------------------------------------------------------------
LEMMA CacheSteps ==
    ASSUME ~Clearing, ~PartialOutput, CacheInv, [CacheNext]_cacheVars
    PROVE  CacheInv'
<1>0. ReturnInv'
  BY NextReturns, ZenonT(60) DEF CacheInv
<1>1. CASE UNCHANGED cacheVars
  BY <1>0, <1>1, ZenonT(60) DEF cacheVars, CacheInv, DirInv, DirType, JobOk, KeyOk, PassedResolved
<1>2. ASSUME NEW p \in Procs, Sdsc(p) PROVE CacheInv'
  <2>1. at[p] <= Len(Script[p])
    BY <1>2, Zenon DEF Sdsc, LookupHit, UseHit, LookupMiss, GenerateBundle, SubmitToPool, CompileInline,
       InlineDone, CallRaises, Running
  <2> QED
    BY <1>0, <1>2, <2>1, SdscDirs, SdscPassed DEF CacheInv
<1>3. ASSUME NEW p \in Procs, Commit(p) PROVE CacheInv'
  <2>1. at[p] <= Len(Script[p])
    BY <1>3, Zenon DEF Commit, CommitCheck, CommitRename, CommitMerge, CommitDiscard, Busy
  <2> QED
    BY <1>0, <1>3, <2>1, CommitDirs, CommitPassed DEF CacheInv
<1>4. ASSUME NEW p \in Procs, Wait(p) PROVE CacheInv'
  BY <1>0, <1>4, WaitDirs, WaitPassed DEF CacheInv
<1>5. ASSUME NEW p \in Procs, Crash(p) PROVE CacheInv'
  <2>1. /\ UNCHANGED <<committed, names, tmp, tmpNames, failed, timedOut, job, worker, at, clear>>
        /\ phase' = [phase EXCEPT ![p] = "crashed"]
    BY <1>5, ZenonT(30) DEF Crash, dirs
  <2>2. DirInv'
    <3>1. DirType'
      BY <2>1, ZenonT(30) DEF CacheInv, DirInv, DirType
    <3>2. ASSUME NEW j \in Jobs PROVE JobOk(j)'
      BY <2>1, ZenonT(30) DEF CacheInv, DirInv, JobOk
    <3>3. ASSUME NEW k \in Keys PROVE KeyOk(k)'
      BY <2>1, ZenonT(60) DEF CacheInv, DirInv, KeyOk
    <3> QED
      BY <3>1, <3>2, <3>3, Zenon DEF DirInv
  <2>3. \A q \in Procs : PassedResolved(q)'
    BY <2>1 DEF CacheInv, ReturnInv, ControlType, PassedResolved
  <2> QED
    BY <1>0, <2>2, <2>3 DEF CacheInv
<1>6. ASSUME NEW j \in Jobs, Worker(j) PROVE CacheInv'
  <2>1. UNCHANGED <<job, timedOut, phase, at>>
    BY <1>6, ZenonT(60) DEF Worker, WorkerWrites, WorkerSucceeds, WorkerFails, dirs
  <2>2. \A q \in Procs : PassedResolved(q)'
    BY <2>1 DEF CacheInv, PassedResolved
  <2> QED
    BY <1>0, <1>6, <2>2, WorkerDirs DEF CacheInv
<1>7. ~Clear
  BY DEF Clear, ClearStart, ClearEnd, ClearCommitted, ClearTmp, CacheInv, DirInv, DirType
<1> QED
  BY <1>1, <1>2, <1>3, <1>4, <1>5, <1>6, <1>7 DEF CacheNext

LEMMA CacheStarts == CacheInit => CacheInv
<1> SUFFICES ASSUME CacheInit PROVE CacheInv
  OBVIOUS
<1>1. ReturnInv
  BY InitReturns
<1>2. DirType
  BY DEF CacheInit, DirType
<1>3. ASSUME NEW j \in Jobs PROVE JobOk(j)
  BY DEF CacheInit, JobOk, Committing
<1>4. ASSUME NEW k \in Keys PROVE KeyOk(k)
  BY DEF CacheInit, KeyOk
<1>5. ASSUME NEW p \in Procs PROVE PassedResolved(p)
  BY DEF CacheInit, PassedResolved
<1> QED
  BY <1>1, <1>2, <1>3, <1>4, <1>5 DEF CacheInv, DirInv

LEMMA CacheInvariant ==
    ASSUME ~Clearing, ~PartialOutput
    PROVE  CacheSpec => []CacheInv
<1>1. CacheInv /\ [CacheNext]_cacheVars => CacheInv'
  BY CacheSteps
<1> QED
  BY <1>1, CacheStarts, PTL DEF CacheSpec

\* Publication is atomic for any number of racing and dying processes: a
\* committed directory holds every required artifact, and a runner points at one.
THEOREM CompleteEntriesAlways ==
    ASSUME ~Clearing, ~PartialOutput
    PROVE  CacheSpec => []CompleteEntries
<1>1. CacheInv => CompleteEntries
  BY ZenonT(60) DEF CacheInv, DirInv, KeyOk, JobOk, CompleteEntries
<1> QED
  BY <1>1, CacheInvariant, PTL

\* No commit, discard or move takes the directory away from under a running
\* backend compiler, whatever happened to its parent.
THEOREM WorkerUndisturbedAlways ==
    ASSUME ~Clearing, ~PartialOutput
    PROVE  CacheSpec => []WorkerUndisturbed
<1>1. CacheInv => WorkerUndisturbed
  BY DEF CacheInv, DirInv, JobOk, WorkerUndisturbed
<1> QED
  BY <1>1, CacheInvariant, PTL

\* Whoever wins the race for a key, each kernel with a runner is listed in the
\* directory it uses.
THEOREM NameKeptAlways ==
    ASSUME ~Clearing, ~PartialOutput
    PROVE  CacheSpec => []NameKept
<1>1. CacheInv => NameKept
  BY ZenonT(60) DEF CacheInv, DirInv, JobOk, NameKept
<1> QED
  BY <1>1, CacheInvariant, PTL

\* When wait ends, each future is committed or its directory moved aside,
\* except where the worker timeout struck.
THEOREM WaitSettlesAllAlways ==
    ASSUME ~Clearing, ~PartialOutput
    PROVE  CacheSpec => []WaitSettlesAll
<1>1. CacheInv => WaitSettlesAll
  <2> SUFFICES ASSUME CacheInv, NEW p \in Procs, phase[p] \in {"waiting", "draining"},
                      at[p] = Len(Script[p]) + 1, NEW i \in DOMAIN Script[p]
               PROVE  \/ job[Script[p][i]] \in {"runner", "failed"} /\ tmp[Script[p][i]] = NoDir
                      \/ Script[p][i] \in timedOut
    BY DEF WaitSettlesAll
  <2>1. i < at[p] /\ Script[p][i] \in Jobs
    <3>1. ASSUME NEW s \in Seq(Jobs), NEW n \in DOMAIN s PROVE n < Len(s) + 1
      OBVIOUS
    <3>2. Script[p] \in Seq(Jobs)
      BY ScriptAssumption, Zenon
    <3>3. i < Len(Script[p]) + 1
      BY <3>1, <3>2, ZenonT(60)
    <3> QED
      BY <3>3, ScriptJobs, Zenon
  <2>2. job[Script[p][i]] \in {"runner", "failed"} \/ Script[p][i] \in timedOut
    BY <2>1 DEF CacheInv, PassedResolved
  <2> QED
    BY <2>1, <2>2 DEF CacheInv, DirInv, JobOk
<1> QED
  BY <1>1, CacheInvariant, PTL
==================================================================================
