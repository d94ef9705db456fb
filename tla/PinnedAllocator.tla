---------------------------- MODULE PinnedAllocator ----------------------------
(***************************************************************************)
(* SpyrePinnedAllocator (csrc/spyre_pinned_allocator.cpp): page-locked     *)
(* host buffers handed out to tensors, and the asynchronous copies of      *)
(* SpyreStream::copyAsyncImpl (csrc/spyre_stream.cpp) that keep a buffer   *)
(* alive past its tensor.                                                  *)
(*                                                                         *)
(* Every acquired buffer is owned by one PinnedAllocationState, a          *)
(* reference counted object.  The references are allocations_ (the map     *)
(* from base address to state), the local variables of a thread that is    *)
(* inside allocate, deallocate or copyAsyncImpl, and the host_lifetime     *)
(* token of each DMA in flight.  The destructor of the state gives the     *)
(* buffer back to flex's staging cache, from where allocate may take it    *)
(* again.                                                                  *)
(***************************************************************************)
EXTENDS Naturals

CONSTANTS Buffers,   \* the pinned buffers flex can map
          Threads,   \* host threads calling the allocator
          Dmas,      \* slots for copies in flight: the bound on them
          Base,      \* host address of a buffer (PinnedBuffer::hmva)
          Capacity,  \* bytes of a buffer
          NoBuffer   \* the null pointer

ASSUME LayoutAssumption ==
    /\ Base \in [Buffers -> Nat]
    /\ Capacity \in [Buffers -> Nat \ {0}]

ASSUME NoBufferAssumption == NoBuffer \notin Buffers

VARIABLES mapped,       \* buffers that are mapped (external: flex)
          cached,       \* free buffers in the staging cache (external: flex)
          allocations,  \* keys of allocations_
          caches,       \* TRUE once caches_ knows the staging cache
          tensors,      \* buffers whose DataPtr is owned by a live storage
          pc,           \* where each thread is in its allocator call
          local,        \* the buffer that call works on
          dma           \* the buffer each DMA slot's host_lifetime retains

vars == <<mapped, cached, allocations, caches, tensors, pc, local, dma>>

\* The host addresses a buffer occupies.
Span(b) == Base[b] .. (Base[b] + Capacity[b] - 1)

Overlap(a, b) == Span(a) \cap Span(b) # {}

(***************************************************************************)
(* findContaining: the registered base just below upper_bound(address),    *)
(* accepted when the address lies within that buffer's capacity.           *)
(***************************************************************************)
UpperNeighbour(address, regs) ==
    {b \in regs : /\ Base[b] <= address
                  /\ \A c \in regs : Base[c] <= address => Base[c] <= Base[b]}

\* Mutant: one byte past the end still counts as inside.
findContaining_OffByOne(address, regs) ==
    {b \in UpperNeighbour(address, regs) : address - Base[b] <= Capacity[b]}

findContaining(address, regs) ==
    {b \in UpperNeighbour(address, regs) : address - Base[b] < Capacity[b]}

\* Mutant: the DMA carries no host_lifetime token.
Referenced_NoToken(b) ==
    \/ b \in allocations
    \/ \E t \in Threads : pc[t] \in {"acquired", "erased", "retained"} /\ local[t] = b

\* Some shared_ptr to the state that owns b is alive.
Referenced(b) ==
    \/ b \in allocations
    \/ \E t \in Threads : pc[t] \in {"acquired", "erased", "retained"} /\ local[t] = b
    \/ \E d \in Dmas : dma[d] = b

-----------------------------------------------------------------------------
Init ==
    /\ mapped = {} /\ cached = {} /\ allocations = {} /\ tensors = {}
    /\ caches = FALSE
    /\ pc = [t \in Threads |-> "idle"]
    /\ local = [t \in Threads |-> NoBuffer]
    /\ dma = [d \in Dmas |-> NoBuffer]

Goto(t, where, b) ==
    /\ pc' = [pc EXCEPT ![t] = where]
    /\ local' = [local EXCEPT ![t] = b]

\* PinnedStagingCache::acquire: a cached buffer, or a newly mapped one.
CacheAcquire(b) ==
    \/ /\ b \in cached
       /\ cached' = cached \ {b}
       /\ UNCHANGED mapped
    \/ /\ b \notin mapped
       /\ \A c \in mapped : ~Overlap(b, c)
       /\ mapped' = mapped \cup {b}
       /\ UNCHANGED cached

\* ~PinnedAllocationState: the buffer returns to the cache; when release
\* throws, it is unmapped and freed instead.
Destroy(b) ==
    \/ /\ cached' = cached \cup {b}
       /\ UNCHANGED mapped
    \/ /\ mapped' = mapped \ {b}
       /\ UNCHANGED cached

\* A shared_ptr to b's state goes away; the last one runs the destructor.
\* The step's other conjuncts have fixed what still refers to the state.
DropReference(b) ==
    IF Referenced(b)' THEN UNCHANGED <<mapped, cached>> ELSE Destroy(b)

-----------------------------------------------------------------------------
\* allocate, up to the construction of the state: no lock is held.
AllocateAcquire(t, b) ==
    /\ pc[t] = "idle"
    /\ CacheAcquire(b)
    /\ Goto(t, "acquired", b)
    /\ UNCHANGED <<allocations, caches, tensors, dma>>

\* allocate, the critical section: emplace throws on an address that is
\* already registered (the new state then dies and releases the buffer),
\* otherwise the DataPtr goes to the caller's storage.
AllocateRegister(t) ==
    LET b == local[t]
        inserted == b \notin allocations
    IN  /\ pc[t] = "acquired"
        /\ allocations' = allocations \cup {b}
        /\ caches' = (caches \/ inserted)
        /\ tensors' = IF inserted THEN tensors \cup {b} ELSE tensors
        /\ cached' = IF inserted THEN cached ELSE cached \cup {b}
        /\ Goto(t, IF inserted THEN "idle" ELSE "threw", NoBuffer)
        /\ UNCHANGED <<mapped, dma>>

\* Mutant: the buffer returns to the cache before the map forgets it.
StorageDies_EarlyRelease(t, b) ==
    /\ pc[t] = "idle"
    /\ b \in tensors
    /\ \A u \in Threads : ~(pc[u] = "retained" /\ local[u] = b)
    /\ tensors' = tensors \ {b}
    /\ Goto(t, "dropping", b)
    /\ cached' = cached \cup {b}
    /\ UNCHANGED <<mapped, allocations, caches, dma>>

\* The last reference to the storage goes away and its deleter, deallocate,
\* is entered.  A thread inside a copy holds its tensor.
StorageDies(t, b) ==
    /\ pc[t] = "idle"
    /\ b \in tensors
    /\ \A u \in Threads : ~(pc[u] = "retained" /\ local[u] = b)
    /\ tensors' = tensors \ {b}
    /\ Goto(t, "dropping", b)
    /\ UNCHANGED <<mapped, cached, allocations, caches, dma>>

\* deallocate, the critical section: the state moves out of the map, or the
\* call returns when the map does not know the address.
DeallocateErase(t) ==
    LET known == local[t] \in allocations IN
    /\ pc[t] = "dropping"
    /\ allocations' = allocations \ {local[t]}
    /\ Goto(t, IF known THEN "erased" ELSE "idle", IF known THEN local[t] ELSE NoBuffer)
    /\ UNCHANGED <<mapped, cached, caches, tensors, dma>>

\* deallocate, after the lock: the local shared_ptr goes out of scope.
DeallocateReturn(t) ==
    /\ pc[t] = "erased"
    /\ Goto(t, "idle", NoBuffer)
    /\ UNCHANGED <<allocations, caches, tensors, dma>>
    /\ \E b \in {local[t]} : DropReference(b)

\* copyAsyncImpl: retain looks the address of a live pinned storage up, under
\* the allocator's lock, and copies the shared_ptr it finds.
Retain(t, address) ==
    \E b \in findContaining(address, allocations) :
        /\ pc[t] = "idle"
        /\ \E c \in tensors : address \in Span(c)
        /\ Goto(t, "retained", b)
        /\ UNCHANGED <<mapped, cached, allocations, caches, tensors, dma>>

\* copyAsyncImpl: the launch; the DMA takes the state as its host_lifetime.
Launch(t, d) ==
    /\ pc[t] = "retained"
    /\ dma[d] = NoBuffer
    /\ dma' = [dma EXCEPT ![d] = local[t]]
    /\ Goto(t, "idle", NoBuffer)
    /\ UNCHANGED <<mapped, cached, allocations, caches, tensors>>

\* copyAsyncImpl: the capacity check or launchOperation throws.
LaunchThrows(t) ==
    /\ pc[t] = "retained"
    /\ Goto(t, "idle", NoBuffer)
    /\ UNCHANGED <<allocations, caches, tensors, dma>>
    /\ \E b \in {local[t]} : DropReference(b)

\* Mutant: the token is forgotten instead of dropped.
DmaCompletes_Leaks(d) ==
    /\ dma[d] # NoBuffer
    /\ dma' = [dma EXCEPT ![d] = NoBuffer]
    /\ UNCHANGED <<mapped, cached, allocations, caches, tensors, pc, local>>

\* flex finishes a DMA and drops its host_lifetime token.
DmaCompletes(d) ==
    /\ dma[d] # NoBuffer
    /\ dma' = [dma EXCEPT ![d] = NoBuffer]
    /\ UNCHANGED <<allocations, caches, tensors, pc, local>>
    /\ \E b \in {dma[d]} : DropReference(b)

\* empty_cache: every cache that caches_ knows unmaps its free buffers.
EmptyCache ==
    /\ caches
    /\ mapped' = mapped \ cached
    /\ cached' = {}
    /\ UNCHANGED <<allocations, caches, tensors, pc, local, dma>>

Next ==
    \/ \E t \in Threads, b \in Buffers : AllocateAcquire(t, b) \/ StorageDies(t, b)
    \/ \E t \in Threads : \/ AllocateRegister(t) \/ DeallocateErase(t)
                          \/ DeallocateReturn(t) \/ LaunchThrows(t)
    \/ \E t \in Threads, b \in tensors : \E a \in Span(b) : Retain(t, a)
    \/ \E t \in Threads, d \in Dmas : Launch(t, d)
    \/ \E d \in Dmas : DmaCompletes(d)
    \/ EmptyCache

\* A call that was entered returns, and flex completes what was launched.
Fairness ==
    /\ \A t \in Threads : /\ WF_vars(AllocateRegister(t))
                          /\ WF_vars(DeallocateErase(t))
                          /\ WF_vars(DeallocateReturn(t))
                          /\ WF_vars(LaunchThrows(t) \/ \E d \in Dmas : Launch(t, d))
    /\ \A d \in Dmas : WF_vars(DmaCompletes(d))

Spec == Init /\ [][Next]_vars

FairSpec == Spec /\ Fairness

-----------------------------------------------------------------------------
\* The variables have their types; a thread works on a buffer exactly while
\* it is inside an allocator call.
TypeOK ==
    /\ mapped \subseteq Buffers /\ cached \subseteq mapped
    /\ allocations \subseteq Buffers /\ tensors \subseteq Buffers
    /\ caches \in BOOLEAN
    /\ pc \in [Threads -> {"idle", "acquired", "dropping", "erased", "retained", "threw"}]
    /\ local \in [Threads -> Buffers \cup {NoBuffer}]
    /\ dma \in [Dmas -> Buffers \cup {NoBuffer}]
    /\ \A t \in Threads : local[t] = NoBuffer <=> pc[t] \in {"idle", "threw"}

\* record_event's claim that "in-flight DMAs keep their pinned buffers alive
\* without an event queue": a buffer that a tensor, a copy being launched or
\* a DMA in flight uses is mapped and is not in the cache for reuse.
InUse(b) ==
    \/ b \in tensors
    \/ \E t \in Threads : pc[t] = "retained" /\ local[t] = b
    \/ \E d \in Dmas : dma[d] = b

NoReuseInFlight == \A b \in Buffers : InUse(b) => b \in mapped /\ b \notin cached

\* acquire runs outside the lock, so another thread may still be returning the
\* same buffer: yet a buffer that allocate has acquired is not registered, in
\* use or being freed by anybody else, and the emplace in allocate never
\* throws "cache returned an active allocation".
FreshOnAcquire ==
    \A t \in Threads :
        /\ pc[t] # "threw"
        /\ pc[t] = "acquired" =>
            /\ local[t] \notin allocations
            /\ ~InUse(local[t])
            /\ \A u \in Threads \ {t} : local[u] # local[t]

\* retain and isPinnedPtr recognise an address exactly when it lies in a
\* registered buffer, and find that buffer: an address inside a live pinned
\* tensor finds this tensor's buffer, and no other address finds anything.
LookupExact ==
    \A a \in UNION {Span(b) \cup {Base[b] + Capacity[b]} : b \in Buffers} :
        findContaining(a, allocations) = {b \in allocations : a \in Span(b)}

\* No leak: once the tensor is gone, the deleter and the DMAs still in flight
\* finish and the state is destroyed, so the buffer can be reused or unmapped.
DroppedIsReturned ==
    \A b \in Buffers :
        (b \in allocations /\ b \notin tensors) ~> (b \in cached \/ b \notin mapped)

\* The allocator implements exclusive ownership of its buffers.
Ownership == INSTANCE BufferOwnership WITH
    status <- [b \in Buffers |-> IF b \in cached THEN "free"
                                 ELSE IF b \in mapped THEN "owned" ELSE "unmapped"]

ImplementsOwnership == Ownership!Spec
================================================================================
