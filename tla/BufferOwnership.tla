---------------------------- MODULE BufferOwnership ----------------------------
(***************************************************************************)
(* What SpyrePinnedAllocator promises its users, without threads, locks,   *)
(* reference counts or addresses: a buffer is handed to one tensor at a    *)
(* time, and between being handed out and being reused it is neither freed *)
(* nor given away while that tensor or a DMA still uses it.                *)
(***************************************************************************)
CONSTANTS Buffers, Dmas, NoBuffer

VARIABLES status,   \* "unmapped", "free" (reusable) or "owned"
          tensors,  \* buffers a live tensor uses
          dma       \* the buffer each DMA in flight uses

avars == <<status, tensors, dma>>

Unused(b) == b \notin tensors /\ \A d \in Dmas : dma[d] # b

Init ==
    /\ status = [b \in Buffers |-> "unmapped"]
    /\ tensors = {}
    /\ dma = [d \in Dmas |-> NoBuffer]

\* An unused buffer becomes somebody's.
Acquire(b) ==
    /\ status[b] # "owned"
    /\ status' = [status EXCEPT ![b] = "owned"]
    /\ UNCHANGED <<tensors, dma>>

HandOut(b) ==
    /\ status[b] = "owned" /\ Unused(b)
    /\ tensors' = tensors \cup {b}
    /\ UNCHANGED <<status, dma>>

StartDma(b, d) ==
    /\ b \in tensors /\ dma[d] = NoBuffer
    /\ dma' = [dma EXCEPT ![d] = b]
    /\ UNCHANGED <<status, tensors>>

\* The tensor dies; its DMAs go on.
DropTensor(b) ==
    /\ b \in tensors
    /\ tensors' = tensors \ {b}
    /\ UNCHANGED <<status, dma>>

\* An owned buffer that nothing uses any more is given up.
GiveUp(b) ==
    /\ status[b] = "owned" /\ Unused(b)
    /\ \E s \in {"free", "unmapped"} : status' = [status EXCEPT ![b] = s]
    /\ UNCHANGED <<tensors, dma>>

\* A DMA ends; when it was the last user its buffer may be given up at once.
EndDma(d) ==
    /\ dma[d] # NoBuffer
    /\ dma' = [dma EXCEPT ![d] = NoBuffer]
    /\ UNCHANGED tensors
    /\ \/ UNCHANGED status
       \/ \E b \in {dma[d]}, s \in {"free", "unmapped"} :
              /\ Unused(b)'
              /\ status' = [status EXCEPT ![b] = s]

\* Free buffers are unmapped.
Trim ==
    /\ status' = [b \in Buffers |-> IF status[b] = "free" THEN "unmapped" ELSE status[b]]
    /\ UNCHANGED <<tensors, dma>>

Next ==
    \/ \E b \in Buffers : \/ Acquire(b) \/ HandOut(b) \/ DropTensor(b) \/ GiveUp(b)
    \/ \E b \in Buffers, d \in Dmas : StartDma(b, d)
    \/ \E d \in Dmas : EndDma(d)
    \/ Trim

Spec == Init /\ [][Next]_avars
================================================================================
