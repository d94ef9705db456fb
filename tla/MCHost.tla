--------------------------------- MODULE MCHost ---------------------------------
(***************************************************************************)
(* For TLC: the pinned allocator, the stream context manager and the start *)
(* of the runtime side by side.  A behaviour is one of the three.          *)
(*                                                                         *)
(* The third pinned buffer occupies addresses of the first two, so that    *)
(* unmapping and mapping again changes what an address means.  Every       *)
(* Stream object is used by one thread.                                    *)
(***************************************************************************)
EXTENDS PinnedAllocator, StreamContext, RuntimeStart, TLC

CONSTANTS b1, b2, b3, c1, c2, s1, s2, s3, s4, m1, m2, c

VARIABLE part

MCBuffers == {b1, b2, b3}
MCBase == (b1 :> 0) @@ (b2 :> 2) @@ (b3 :> 1)
MCCapacity == (b1 :> 2) @@ (b2 :> 1) @@ (b3 :> 2)

Private == (s1 :> {c1}) @@ (s2 :> {c1}) @@ (s3 :> {c2}) @@ (s4 :> {c2})

MCCalls == [t \in RtThreads |-> IF t = c THEN 1 ELSE 2]

MCInit ==
    /\ Init /\ ContextInit /\ RuntimeInit
    /\ part \in {"pinned", "context", "runtime"}

MCNext ==
    /\ \/ part = "pinned" /\ Next /\ UNCHANGED <<contextVars, runtimeVars>>
       \/ part = "context" /\ ContextNext /\ UNCHANGED <<vars, runtimeVars>>
       \/ part = "runtime" /\ RuntimeNext /\ UNCHANGED <<vars, contextVars>>
    /\ UNCHANGED part

\* The component that does not move has no step to be fair to.
MCSpec ==
    /\ MCInit /\ [][MCNext]_<<vars, contextVars, runtimeVars, part>>
    /\ Fairness /\ RuntimeFairness
=================================================================================
