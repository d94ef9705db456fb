------------------------------ MODULE StreamContext ------------------------------
(***************************************************************************)
(* `with stream:` (torch_spyre/streams.py) over the thread-local current   *)
(* stream of csrc/spyre_stream.cpp.  __enter__ pushes the thread's current *)
(* stream on a stack kept in the Stream object and sets the object's       *)
(* stream; __exit__ pops that stack and sets what it finds.  Between the   *)
(* two statements of __enter__ the interpreter may switch threads.         *)
(***************************************************************************)
EXTENDS Naturals, Sequences

CONSTANTS CtxThreads, Streams,
          Users,    \* Streams -> the threads that have the Stream object
          Default,  \* the default stream, current until one is set
          MaxDepth  \* bound on the nesting of with blocks in a thread

ASSUME UsersAssumption == Users \in [Streams -> SUBSET CtxThreads] /\ Default \notin Streams
ASSUME DepthAssumption == MaxDepth \in Nat

VARIABLES current,   \* thread -> its entry in current_streams
          prev,      \* stream object -> _prev_streams
          blocks,    \* thread -> the with blocks it is in, innermost last
          entering,  \* thread -> the stream whose __enter__ is half done, or Default
          raised     \* threads that got "__exit__ called without a matching __enter__"

contextVars == <<current, prev, blocks, entering, raised>>

\* The last element of a list, and the list without it.
Top(q) == q[Len(q)]
Pop(q) == SubSeq(q, 1, Len(q) - 1)

ContextInit ==
    /\ current = [t \in CtxThreads |-> Default]
    /\ prev = [s \in Streams |-> <<>>]
    /\ blocks = [t \in CtxThreads |-> <<>>]
    /\ entering = [t \in CtxThreads |-> Default]
    /\ raised = {}

\* Mutant: one slot instead of a stack.
Push_Slot(s, c) == prev' = [prev EXCEPT ![s] = <<c>>]

Push(s, c) == prev' = [prev EXCEPT ![s] = Append(@, c)]

\* __enter__: save the current stream ...
EnterSave(t, s) ==
    /\ t \in Users[s] /\ entering[t] = Default /\ t \notin raised
    /\ Len(blocks[t]) < MaxDepth
    /\ Push(s, current[t])
    /\ entering' = [entering EXCEPT ![t] = s]
    /\ UNCHANGED <<current, blocks, raised>>

\* ... and set this one; the body of the block starts.
EnterSet(t) ==
    /\ entering[t] # Default
    /\ current' = [current EXCEPT ![t] = entering[t]]
    /\ blocks' = [blocks EXCEPT ![t] = Append(@, entering[t])]
    /\ entering' = [entering EXCEPT ![t] = Default]
    /\ UNCHANGED <<prev, raised>>

\* __exit__ of the innermost block, normally or by an exception of its body.
Exit(t) ==
    LET s == Top(blocks[t]) IN
    /\ entering[t] = Default /\ t \notin raised /\ blocks[t] # <<>>
    /\ blocks' = [blocks EXCEPT ![t] = Pop(@)]
    /\ IF prev[s] # <<>>
       THEN /\ current' = [current EXCEPT ![t] = Top(prev[s])]
            /\ prev' = [prev EXCEPT ![s] = Pop(@)]
            /\ UNCHANGED raised
       ELSE /\ raised' = raised \cup {t}
            /\ UNCHANGED <<current, prev>>
    /\ UNCHANGED entering

ContextNext ==
    \/ \E t \in CtxThreads, s \in Streams : EnterSave(t, s)
    \/ \E t \in CtxThreads : EnterSet(t) \/ Exit(t)

ContextSpec == ContextInit /\ [][ContextNext]_contextVars

-----------------------------------------------------------------------------
\* "Exit stream context - restore previous stream": the current stream of a
\* thread is that of its innermost with block, and the default stream outside
\* of all of them, through nesting, re-entry of the same object and exceptions;
\* an __exit__ that found no saved stream would leave the wrong one behind.
InnermostIsCurrent ==
    \A t \in CtxThreads : current[t] = IF blocks[t] = <<>> THEN Default ELSE Top(blocks[t])
================================================================================
