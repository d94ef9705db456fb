---------------------------- MODULE DeviceAllocator ----------------------------
(***************************************************************************)
(* SpyreAllocator (csrc/spyre_allocator.cpp): device memory, its           *)
(* statistics and the memory-pressure callback.                            *)
(*                                                                         *)
(* Threads enter allocate with the Python GIL (from Python) or without it  *)
(* (from C++).  flex calls the callback with its allocator mutex held; the *)
(* callback lets go of the mutex, takes the GIL, runs the garbage          *)
(* collector, whose deletions take the mutex again, and goes back.         *)
(***************************************************************************)
EXTENDS Integers, FiniteSets, FiniteSetsExt

CONSTANTS Threads, Objs,  \* an object is allocated once: the bound on calls
          Size, Tensors,  \* sizes; objects of memory type Tensor
          Capacity, None

ASSUME SizeAssumption == Size \in [Objs -> Nat \ {0}] /\ Tensors \subseteq Objs
ASSUME NoneAssumption == None \notin Threads \cup Objs

VARIABLES gil, mutex,    \* holders of the GIL and of flex's allocator mutex
          pc, obj,       \* per thread: where it is and the object it deals with
          python,        \* per thread: the call was made with the GIL held
          victim,        \* per thread: the object its collection is deleting
          yielded,       \* per thread: its collection has let others run once
          collecting,    \* the thread inside PyGC_Collect
          state,         \* per object
          stats          \* stats_.allocated_bytes

vars == <<gil, mutex, pc, obj, python, victim, yielded, collecting, state, stats>>

Init ==
    /\ gil = None /\ mutex = None /\ collecting = None
    /\ pc = [t \in Threads |-> "idle"]
    /\ obj = [t \in Threads |-> None] /\ victim = [t \in Threads |-> None]
    /\ python = [t \in Threads |-> FALSE] /\ yielded = [t \in Threads |-> FALSE]
    /\ state = [o \in Objs |-> "new"] /\ stats = 0

SizeOf(S) == MapThenSumSet(LAMBDA o : Size[o], S)
In(states) == {o \in Objs : state[o] \in states}

\* Memory that flex has given out.
Used == SizeOf(In({"held", "live", "garbage", "releasing"}))

Goto(t, label) == pc' = [pc EXCEPT ![t] = label]
Mark(o, s) == state' = [state EXCEPT ![o] = s]

-----------------------------------------------------------------------------
(* Python threads between calls; tensors that become unreachable *)

TakeGil(t) ==
    /\ pc[t] = "idle" /\ gil = None /\ gil' = t
    /\ UNCHANGED <<mutex, pc, obj, python, victim, yielded, collecting, state, stats>>

DropGil(t) ==
    /\ pc[t] = "idle" /\ gil = t /\ gil' = None
    /\ UNCHANGED <<mutex, pc, obj, python, victim, yielded, collecting, state, stats>>

\* Only a reference cycle still holds the tensor.
BecomeGarbage(o) ==
    /\ state[o] = "live" /\ o \in Tensors /\ Mark(o, "garbage")
    /\ UNCHANGED <<gil, mutex, pc, obj, python, victim, yielded, collecting, stats>>

-----------------------------------------------------------------------------
(* allocate *)

Call(t, o) ==
    /\ pc[t] = "idle" /\ state[o] = "new"
    /\ Goto(t, "lock") /\ obj' = [obj EXCEPT ![t] = o] /\ Mark(o, "asked")
    /\ python' = [python EXCEPT ![t] = (gil = t)]
    /\ yielded' = [yielded EXCEPT ![t] = FALSE]
    /\ UNCHANGED <<gil, mutex, victim, collecting, stats>>

\* flex takes its mutex, for the first try or back from the callback.
Lock(t) ==
    /\ pc[t] \in {"lock", "relock"} /\ mutex = None /\ mutex' = t
    /\ Goto(t, IF pc[t] = "lock" THEN "try" ELSE "retry")
    /\ UNCHANGED <<gil, obj, python, victim, yielded, collecting, state, stats>>

\* Mutant: the callback takes the GIL with the mutex held.
Pressure_KeepsMutex(t) ==
    /\ pc[t] = "try" /\ Used + Size[obj[t]] > Capacity
    /\ Goto(t, "wantGil")
    /\ UNCHANGED <<gil, mutex, obj, python, victim, yielded, collecting, state, stats>>

\* The regions are exhausted: the callback begins and unlocks the mutex.
Pressure(t) ==
    /\ pc[t] = "try" /\ Used + Size[obj[t]] > Capacity
    /\ Goto(t, "wantGil") /\ mutex' = None
    /\ UNCHANGED <<gil, obj, python, victim, yielded, collecting, state, stats>>

\* flex gives out the memory, or fails after the callback did not help.
TryAllocate(t) ==
    /\ pc[t] \in {"try", "retry"} /\ mutex' = None
    /\ \/ /\ Used + Size[obj[t]] <= Capacity
          /\ Mark(obj[t], "held") /\ Goto(t, "record")
       \/ /\ pc[t] = "retry" /\ Used + Size[obj[t]] > Capacity
          /\ Mark(obj[t], "dead") /\ Goto(t, "idle")
    /\ UNCHANGED <<gil, obj, python, victim, yielded, collecting, stats>>

\* Mutant: memory of every type is counted.
Counted_All(o) == Size[o]

\* Only tensors are counted: a program's address has moved out of the context
\* when that is deleted.
Counted(o) == IF o \in Tensors THEN Size[o] ELSE 0

\* recordAlloc; for a program, ReportAndDelete follows at once and counts nothing.
RecordAlloc(t) ==
    /\ pc[t] = "record"
    /\ stats' = stats + Counted(obj[t])
    /\ Mark(obj[t], "live") /\ Goto(t, "idle")
    /\ UNCHANGED <<gil, mutex, obj, python, victim, yielded, collecting>>

-----------------------------------------------------------------------------
(* memoryPressureCallback *)

\* PyGILState_Ensure nests.
EnsureGil(t) ==
    /\ pc[t] = "wantGil" /\ gil \in {None, t} /\ gil' = t
    /\ Goto(t, "collect")
    /\ UNCHANGED <<mutex, obj, python, victim, yielded, collecting, state, stats>>

\* PyGC_Collect does nothing while a collection is going on.
Collect(t) ==
    /\ pc[t] = "collect"
    /\ IF collecting = None THEN collecting' = t /\ Goto(t, "gc")
       ELSE Goto(t, "releaseGil") /\ UNCHANGED collecting
    /\ UNCHANGED <<gil, mutex, obj, python, victim, yielded, state, stats>>

\* ReportAndDelete on an unreachable tensor: first the statistics ...
CollectOne(t) ==
    /\ pc[t] = "gc"
    /\ \E o \in In({"garbage"}) :
          /\ victim' = [victim EXCEPT ![t] = o]
          /\ stats' = stats - Counted(o) /\ Mark(o, "releasing")
    /\ Goto(t, "gcFree")
    /\ UNCHANGED <<gil, mutex, obj, python, yielded, collecting>>

\* ... then the memory, under the mutex.
CollectFree(t) ==
    /\ pc[t] = "gcFree" /\ mutex = None
    /\ Mark(victim[t], "dead") /\ Goto(t, "gc")
    /\ UNCHANGED <<gil, mutex, obj, python, victim, yielded, collecting, stats>>

\* A finalizer written in Python lets another thread have the GIL.
Yield(t) ==
    /\ pc[t] = "gc" /\ ~yielded[t]
    /\ gil' = None /\ Goto(t, "gcWait")
    /\ yielded' = [yielded EXCEPT ![t] = TRUE]
    /\ UNCHANGED <<mutex, obj, python, victim, collecting, state, stats>>

Resume(t) ==
    /\ pc[t] = "gcWait" /\ gil = None /\ gil' = t
    /\ Goto(t, "gc")
    /\ UNCHANGED <<mutex, obj, python, victim, yielded, collecting, state, stats>>

CollectDone(t) ==
    /\ pc[t] = "gc" /\ In({"garbage"}) = {}
    /\ collecting' = None /\ Goto(t, "releaseGil")
    /\ UNCHANGED <<gil, mutex, obj, python, victim, yielded, state, stats>>

\* Mutant: the GIL is given up whoever had it.
ReleaseGil_Always(t) ==
    /\ pc[t] = "releaseGil" /\ gil' = None
    /\ Goto(t, "relock")
    /\ UNCHANGED <<mutex, obj, python, victim, yielded, collecting, state, stats>>

\* PyGILState_Release undoes Ensure: a Python caller keeps the GIL.
ReleaseGil(t) ==
    /\ pc[t] = "releaseGil" /\ gil' = (IF python[t] THEN t ELSE None)
    /\ Goto(t, "relock")
    /\ UNCHANGED <<mutex, obj, python, victim, yielded, collecting, state, stats>>

-----------------------------------------------------------------------------
(* Release of the last reference, with or without the GIL *)

ReportAndDelete(t, o) ==
    /\ pc[t] = "idle" /\ state[o] = "live"
    /\ Goto(t, "free") /\ obj' = [obj EXCEPT ![t] = o]
    /\ python' = [python EXCEPT ![t] = (gil = t)]
    /\ stats' = stats - Counted(o) /\ Mark(o, "releasing")
    /\ UNCHANGED <<gil, mutex, victim, yielded, collecting>>

Free(t) ==
    /\ pc[t] = "free" /\ mutex = None
    /\ Mark(obj[t], "dead") /\ Goto(t, "idle")
    /\ UNCHANGED <<gil, mutex, obj, python, victim, yielded, collecting, stats>>

-----------------------------------------------------------------------------
\* The steps of a call in progress.
Continue(t) ==
    \/ Lock(t) \/ Pressure(t) \/ TryAllocate(t) \/ RecordAlloc(t)
    \/ EnsureGil(t) \/ Collect(t) \/ CollectOne(t) \/ CollectFree(t)
    \/ Resume(t) \/ CollectDone(t) \/ ReleaseGil(t) \/ Free(t)

Next ==
    \/ \E t \in Threads :
          \/ TakeGil(t) \/ DropGil(t) \/ Yield(t) \/ Continue(t)
          \/ \E o \in Objs : Call(t, o) \/ ReportAndDelete(t, o)
    \/ \E o \in Objs : BecomeGarbage(o)

\* A thread inside a call keeps running.  A running Python thread gives up the
\* GIL when another one asks, and CPython then switches to a thread that waits
\* for it: strong fairness for those who want the GIL.
Fairness ==
    \A t \in Threads :
        WF_vars(Continue(t)) /\ WF_vars(DropGil(t)) /\ SF_vars(EnsureGil(t) \/ Resume(t))

Spec == Init /\ [][Next]_vars /\ Fairness

-----------------------------------------------------------------------------
(* Properties *)

\* The statistics users see never count memory that is not there, although
\* they are updated outside the mutex, and count all of it when no call is in
\* progress.
StatsBounded ==
    /\ stats >= 0 /\ stats <= SizeOf(Tensors \cap In({"held", "live", "garbage", "releasing"}))
    /\ (\A t \in Threads : pc[t] = "idle") => stats = SizeOf(Tensors \cap In({"live", "garbage"}))

\* A call made with the GIL has it whenever its own code runs, through the
\* callback and back.
GilKept ==
    \A t \in Threads :
        pc[t] \in {"gc", "gcFree", "collect", "releaseGil"}
          \/ (python[t] /\ pc[t] \notin {"idle", "gcWait", "wantGil"}) => gil = t

\* No call waits for ever: the GIL and the mutex are never waited for in a
\* circle, in any mix of Python and C++ callers, collections and releases.
CallsEnd == \A t \in Threads : pc[t] # "idle" ~> pc[t] = "idle"
================================================================================
