------------------------------ MODULE Collectives ------------------------------
(***************************************************************************)
(* Compiled collectives: csrc/distributed/spyre_distributed.cpp.           *)
(*                                                                         *)
(* A plan operation caches what the communication library needs for a      *)
(* collective; a run operation starts a schedule on borrowed storage and   *)
(* files it under the storage it will deliver; wait_work takes the file    *)
(* out and either waits or, on the default stream, hands the schedule and  *)
(* the storage over to the library and returns at once.                    *)
(*                                                                         *)
(* The run operations hold wsi_cache_mutex_ from start to end and publish  *)
(* under work_map_mutex_: each is one step.  wait_work is not: the entry   *)
(* is taken out under the lock and used after it.                          *)
(***************************************************************************)
EXTENDS Naturals, Sequences, FiniteSets

CONSTANTS Waiters, Keys,  \* callers; parameter tuples of plans
          Allocs,         \* storages (SharedOwnerCtx)
          MaxWorks, MaxPlans,
          Nothing

PendingWork == [key : Allocs, work : Nat, hold : SUBSET Allocs, keep : SUBSET Allocs]

ASSUME NothingAssumption == Nothing \notin PendingWork

StreamNames == {"default", "other"}

VARIABLES cache,    \* wsi_cache_
          plans,    \* handles that plan operations returned
          pending,  \* pending_work_map_
          works,    \* schedules started: storages borrowed, state
          comms,    \* schedules the library owns, with their keep_alive
          user,     \* storages the callers' code references
          local,    \* PendingWork of the wait_work call in progress, per thread
          pc, stream,  \* where a thread is, and its current stream
          queue,    \* operations pending on the two streams
          enforce,  \* TORCH_SPYRE_DIST_ENFORCE_WAIT
          broken,   \* needsShutdown() of the default stream
          late      \* history: a consumer ran before the collective

collVars == <<cache, plans, pending, works, comms, user, local, pc, stream,
          queue, enforce, broken, late>>

CollInit ==
    /\ cache = <<>> /\ plans = {} /\ works = <<>> /\ comms = {}
    /\ pending = [a \in Allocs |-> Nothing]
    /\ user = {}
    /\ local = [t \in Waiters |-> Nothing] /\ pc = [t \in Waiters |-> "idle"]
    /\ stream \in [Waiters -> StreamNames]
    /\ queue = [s \in StreamNames |-> <<>>]
    /\ enforce \in BOOLEAN /\ broken = FALSE /\ late = FALSE

-----------------------------------------------------------------------------
(* Storage is alive while something references it. *)

Filed == {pending[a] : a \in Allocs} \cup {local[t] : t \in Waiters}
HeldBy(p) == p.hold \cup p.keep
Alive ==
    user \cup (UNION {HeldBy(p) : p \in Filed \ {Nothing}}) \cup (UNION {works[w].borrowed : w \in comms})

\* Some storages no one holds, for the tensors a run operation creates.
Fresh(S) == \A a \in S : a \notin Alive

-----------------------------------------------------------------------------
(* Plan operations *)

Hits(key) == {h \in DOMAIN cache : cache[h].key = key}

\* The first plan with the same parameters is shared.  Otherwise the plan is
\* stored, and then its WSI made, which may fail.
Plan(key) ==
    /\ Len(cache) < MaxPlans \/ Hits(key) # {}
    /\ IF Hits(key) # {}
       THEN plans' = plans \cup {CHOOSE h \in Hits(key) : \A g \in Hits(key) : h <= g}
                  /\ UNCHANGED cache
       ELSE \E made \in BOOLEAN :
                /\ cache' = Append(cache, [key |-> key, wsi |-> made])
                /\ plans' = IF made THEN plans \cup {Len(cache) + 1} ELSE plans
    /\ UNCHANGED <<pending, works, comms, user, local, pc, stream, queue, enforce, broken, late>>

-----------------------------------------------------------------------------
(* Run operations *)

Usable(h) == h \in plans /\ cache[h].wsi

\* start(): the schedule joins the default stream.
Start(borrowed) ==
    /\ Len(works) < MaxWorks
    /\ works' = Append(works, [borrowed |-> borrowed, state |-> "running"])
    /\ queue' = [queue EXCEPT !["default"] = Append(@, [op |-> "comm", work |-> Len(works) + 1])]

\* The entry holds the delivered storage, the per-rank outputs and, in
\* keep_alive, whatever the schedule borrows.
File(key, borrowed, rankOutputs) ==
    pending' = [pending EXCEPT ![key] =
        [key |-> key, work |-> Len(works) + 1, hold |-> {key} \cup rankOutputs, keep |-> borrowed]]

RunFrame == UNCHANGED <<cache, plans, comms, stream, enforce, broken, late>>

\* A fresh output is broadcast into; it is a copy of the input on the source.
BroadcastRun(t, h, in, out) ==
    /\ pc[t] = "idle" /\ Usable(h) /\ in \in user /\ Fresh({out})
    /\ Start({out})
    /\ File(out, {out}, {})
    /\ user' = user \cup {out}
    /\ UNCHANGED <<local, pc>> /\ RunFrame

\* In place.  The duplicate is found after start(); the schedule is destroyed
\* as the exception leaves, which waits for it.
AllreduceRun(t, h, in) ==
    /\ pc[t] = "idle" /\ Usable(h) /\ in \in user
    /\ Start({in})
    /\ IF pending[in] = Nothing
       THEN File(in, {in}, {in}) /\ UNCHANGED <<local, pc>>
       ELSE /\ pc' = [pc EXCEPT ![t] = "unwinding"]
            /\ local' = [local EXCEPT ![t] =
                   [key |-> in, work |-> Len(works) + 1, hold |-> {}, keep |-> {}]]
            /\ UNCHANGED pending
    /\ UNCHANGED user /\ RunFrame

\* Mutant: keep_alive holds the per-rank outputs, not the input.
AllgatherRun_InputNotKept(t, h, in, ranks, out) ==
    /\ pc[t] = "idle" /\ Usable(h) /\ in \in user
    /\ ranks # out /\ Fresh({ranks, out})
    /\ Start({in, ranks})
    /\ File(out, {ranks}, {ranks})
    /\ user' = user \cup {out}
    /\ UNCHANGED <<local, pc>> /\ RunFrame

\* Borrows the input and the per-rank outputs (one storage stands for them).
AllgatherRun(t, h, in, ranks, out) ==
    /\ pc[t] = "idle" /\ Usable(h) /\ in \in user
    /\ ranks # out /\ Fresh({ranks, out})
    /\ Start({in, ranks})
    /\ File(out, {in, ranks}, {ranks})
    /\ user' = user \cup {out}
    /\ UNCHANGED <<local, pc>> /\ RunFrame

-----------------------------------------------------------------------------
(* wait_work *)

WaitFrame == UNCHANGED <<cache, plans, works, stream, enforce, broken, late>>

\* Mutant: the entry is left in the map.
TakeEntry_Keeps(t, a) ==
    /\ pc[t] = "idle" /\ a \in user /\ pending[a] # Nothing
    /\ local' = [local EXCEPT ![t] = pending[a]]
    /\ pc' = [pc EXCEPT ![t] = "taken"]
    /\ UNCHANGED <<pending, comms, user, queue>> /\ WaitFrame

\* The entry is moved out of the map; with none the call fails.
TakeEntry(t, a) ==
    /\ pc[t] = "idle" /\ a \in user /\ pending[a] # Nothing
    /\ local' = [local EXCEPT ![t] = pending[a]]
    /\ pending' = [pending EXCEPT ![a] = Nothing]
    /\ pc' = [pc EXCEPT ![t] = "taken"]
    /\ UNCHANGED <<comms, user, queue>> /\ WaitFrame

\* Mutant: the wait is skipped on every stream.
SkipWait_AnyStream(t) == ~enforce

SkipWait(t) == ~enforce /\ stream[t] = "default"

State(t) == works[local[t].work].state

\* check_collective_errors
Faulty(t) == State(t) = "error" \/ broken

\* work->wait(), then the check.
WaitForWork(t) ==
    /\ pc[t] = "taken" /\ ~SkipWait(t) /\ State(t) # "running"
    /\ pc' = [pc EXCEPT ![t] = IF Faulty(t) THEN "unwinding" ELSE "assemble"]
    /\ UNCHANGED <<pending, comms, user, local, queue>> /\ WaitFrame

\* The check, then the schedule and what it borrows go to the library.  When
\* the check throws, keep_alive and the held tensors are destroyed before the
\* schedule, whose destructor waits.
Relinquish(t) ==
    /\ pc[t] = "taken" /\ SkipWait(t)
    /\ IF Faulty(t)
       THEN /\ pc' = [pc EXCEPT ![t] = "unwinding"]
            /\ local' = [local EXCEPT ![t].hold = {}, ![t].keep = {}]
            /\ UNCHANGED comms
       ELSE /\ pc' = [pc EXCEPT ![t] = "assemble"]
            /\ comms' = comms \cup {local[t].work}
            /\ UNCHANGED local
    /\ UNCHANGED <<pending, user, queue>> /\ WaitFrame

\* An allgather copies the per-rank outputs into the result; the other kinds
\* deliver in place, and the copy stands for the caller's first use.
Assemble(t) ==
    /\ pc[t] = "assemble"
    /\ queue' = [queue EXCEPT ![stream[t]] = Append(@, [op |-> "use", work |-> local[t].work])]
    /\ pc' = [pc EXCEPT ![t] = "idle"] /\ local' = [local EXCEPT ![t] = Nothing]
    /\ UNCHANGED <<pending, comms, user>> /\ WaitFrame

\* ~WorkSchedule has waited; the exception reaches the caller.
Unwound(t) ==
    /\ pc[t] = "unwinding" /\ State(t) # "running"
    /\ pc' = [pc EXCEPT ![t] = "idle"] /\ local' = [local EXCEPT ![t] = Nothing]
    /\ UNCHANGED <<pending, comms, user, queue>> /\ WaitFrame

-----------------------------------------------------------------------------
(* The callers' code, the library and the device (external) *)

\* A tensor is created, or the last reference to one is dropped; a call in
\* progress keeps its argument.
CreateTensor(a) ==
    /\ a \notin Alive /\ user' = user \cup {a}
    /\ UNCHANGED <<cache, plans, pending, works, comms, local, pc, stream, queue, enforce, broken, late>>

DropTensor(a) ==
    /\ a \in user
    /\ \A t \in Waiters : local[t] # Nothing => local[t].key # a
    /\ user' = user \ {a}
    /\ UNCHANGED <<cache, plans, pending, works, comms, local, pc, stream, queue, enforce, broken, late>>

\* The head of a stream is done; a schedule may end in an error.
Execute(s) ==
    /\ queue[s] # <<>>
    /\ LET op == Head(queue[s])
       IN  IF op.op = "comm"
           THEN /\ \E r \in {"done", "error"} : works' = [works EXCEPT ![op.work].state = r]
                /\ UNCHANGED late
           ELSE /\ late' = (late \/ works[op.work].state = "running")
                /\ UNCHANGED works
    /\ queue' = [queue EXCEPT ![s] = Tail(@)]
    /\ UNCHANGED <<cache, plans, pending, comms, user, local, pc, stream, enforce, broken>>

\* The library retires a schedule it was given, once it is over.
Retire(w) ==
    /\ w \in comms /\ works[w].state # "running"
    /\ comms' = comms \ {w}
    /\ UNCHANGED <<cache, plans, pending, works, user, local, pc, stream, queue, enforce, broken, late>>

StreamBreaks ==
    /\ ~broken /\ broken' = TRUE
    /\ UNCHANGED <<cache, plans, pending, works, comms, user, local, pc, stream, queue, enforce, late>>

-----------------------------------------------------------------------------
CollNext ==
    \/ \E key \in Keys : Plan(key)
    \/ \E t \in Waiters, h \in plans, a \in Allocs :
          \/ AllreduceRun(t, h, a)
          \/ \E b \in Allocs : BroadcastRun(t, h, a, b)
          \/ \E b, c \in Allocs : AllgatherRun(t, h, a, b, c)
    \/ \E t \in Waiters :
          \/ \E a \in Allocs : TakeEntry(t, a)
          \/ WaitForWork(t) \/ Relinquish(t) \/ Assemble(t) \/ Unwound(t)
    \/ \E a \in Allocs : CreateTensor(a) \/ DropTensor(a)
    \/ \E s \in StreamNames : Execute(s)
    \/ \E w \in comms : Retire(w)
    \/ StreamBreaks

CollSpec == CollInit /\ [][CollNext]_collVars

-----------------------------------------------------------------------------
(* Properties *)

\* "PendingWork holds tensor references (hold_tensors) that prevent the key
\* from being freed while communication is in flight": the allocation an entry
\* is filed under is never given to another tensor, and while a schedule runs
\* on a healthy stream the storages it borrows are referenced, by the entry, by
\* the wait_work call that took it, or by the library it was handed over to,
\* whatever the callers drop meanwhile.
BorrowedAlive ==
    /\ \A a \in Allocs : pending[a] # Nothing => a \in Alive
    /\ ~broken =>
         \A w \in DOMAIN works : works[w].state = "running" => works[w].borrowed \subseteq Alive

\* What a caller does with the tensor after wait_work sees the collective's
\* result, although wait_work may return before it is there.
ConsumersAfterCollective == ~late

\* A schedule is delivered once: its entry is in the map or with one wait_work
\* call, although two threads may wait on the same tensor.
OneOwner ==
    \A w \in DOMAIN works :
        Cardinality({a \in Allocs : pending[a] # Nothing /\ pending[a].work = w})
          + Cardinality({t \in Waiters : local[t] # Nothing /\ local[t].work = w}) <= 1

\* "Ensure the WSI is created for a cached plan entry": a handle that a plan
\* operation returned can be run.
HandlesUsable == \A h \in plans : cache[h].wsi
================================================================================
