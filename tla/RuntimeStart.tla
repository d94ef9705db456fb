------------------------------ MODULE RuntimeStart ------------------------------
(***************************************************************************)
(* Starting the device runtime on first use: _SpyreImpl._lazy_init and     *)
(* set_device (torch_spyre/__init__.py), startRuntime (csrc/module.cpp),   *)
(* and the kernel runner's job plan, built when a kernel first runs        *)
(* (execution/kernel_runner.py).                                           *)
(*                                                                         *)
(* The main process may fork at any point of another thread's start: the   *)
(* child has one thread, and the lock in the state in which it was copied. *)
(***************************************************************************)
EXTENDS Naturals

CONSTANTS MainThreads, ChildThread,
          Count,      \* visible devices: indices 0 .. Count - 1
          Requests,   \* indices callers pass to set_device
          LocalRank,  \* LOCAL_RANK, 0 when unset
          MaxCalls,   \* thread -> bound on its calls
          Unset       \* None; the lock's holder when it is free

ASSUME RankAssumption == Count \in Nat /\ Requests \subseteq Nat /\ LocalRank \in Nat
ASSUME ThreadsAssumption ==
    ChildThread \notin MainThreads /\ Unset \notin Nat \cup MainThreads \cup {ChildThread}

VARIABLES ready,    \* process -> _initialized
          loaded,   \* process -> _C is imported
          asked,    \* process -> _pending_device_idx
          holder,   \* process -> who holds its copy of _runtime_init_lock
          device,   \* process -> the index its runtime was started with
          plan,     \* process -> _jobplan of the kernel is there
          tls,      \* thread -> SpyreGuardImpl::tls_idx
          at,       \* thread -> where it is
          arg,      \* thread -> the index it was given, or read
          alive,    \* the processes
          calls,    \* thread -> calls so far
          starters, \* history: processes that created a runtime
          wanted    \* history: the request a start had to honour, Unset if none

runtimeVars == <<ready, loaded, asked, holder, device, plan, tls, at, arg, alive, calls,
                 starters, wanted>>

RtThreads == MainThreads \cup {ChildThread}
Home(t) == IF t = ChildThread THEN "child" ELSE "main"
Processes == {"main", "child"}

RuntimeInit ==
    /\ ready = [p \in Processes |-> FALSE] /\ loaded = [p \in Processes |-> FALSE]
    /\ asked = [p \in Processes |-> Unset] /\ holder = [p \in Processes |-> Unset]
    /\ device = [p \in Processes |-> Unset] /\ plan = [p \in Processes |-> FALSE]
    /\ tls = [t \in RtThreads |-> LocalRank] /\ at = [t \in RtThreads |-> "idle"]
    /\ arg = [t \in RtThreads |-> Unset] /\ calls = [t \in RtThreads |-> 0]
    /\ alive = {"main"} /\ starters = {} /\ wanted = Unset

To(t, label) == at' = [at EXCEPT ![t] = label]

\* A thread between calls makes one.
Enter(t) ==
    /\ Home(t) \in alive /\ at[t] = "idle" /\ calls[t] < MaxCalls[t]
    /\ calls' = [calls EXCEPT ![t] = @ + 1]

-----------------------------------------------------------------------------
\* set_device: remember the index ...
SetPending(t, idx) ==
    /\ Enter(t) /\ To(t, "set")
    /\ asked' = [asked EXCEPT ![Home(t)] = idx]
    /\ arg' = [arg EXCEPT ![t] = idx]
    /\ wanted' = IF holder["main"] # Unset THEN Unset ELSE wanted
    /\ UNCHANGED <<ready, loaded, holder, device, plan, tls, alive, starters>>

\* ... and pass it on when _initialized says so and _C is there; an index out
\* of range raises.
SetApply(t) ==
    /\ at[t] = "set" /\ To(t, "idle")
    /\ tls' = IF ready[Home(t)] /\ loaded[Home(t)] /\ arg[t] < Count
              THEN [tls EXCEPT ![t] = arg[t]] ELSE tls
    /\ arg' = [arg EXCEPT ![t] = Unset]
    /\ UNCHANGED <<ready, loaded, asked, holder, device, plan, alive, calls, starters, wanted>>

-----------------------------------------------------------------------------
\* run: the job plan is there, or has to be built.
RunKernel(t) ==
    /\ Enter(t)
    /\ To(t, IF plan[Home(t)] THEN "launch" ELSE "lazy")
    /\ UNCHANGED <<ready, loaded, asked, holder, device, plan, tls, arg, alive, starters, wanted>>

\* _lazy_init, before the lock.
LazyCheck(t) ==
    /\ at[t] = "lazy"
    /\ To(t, IF ready[Home(t)] THEN "prepare" ELSE "lock")
    /\ UNCHANGED <<ready, loaded, asked, holder, device, plan, tls, arg, alive, calls, starters, wanted>>

\* The lock, and the second check.
TakeLock(t) ==
    /\ at[t] = "lock" /\ holder[Home(t)] = Unset
    /\ IF ready[Home(t)] THEN To(t, "prepare") /\ UNCHANGED <<holder, wanted>>
       ELSE /\ To(t, "read") /\ holder' = [holder EXCEPT ![Home(t)] = t]
            /\ wanted' = asked[Home(t)]
    /\ UNCHANGED <<ready, loaded, asked, device, plan, tls, arg, alive, calls, starters>>

Release(t) == holder' = [holder EXCEPT ![Home(t)] = Unset]

\* Mutant: _initialized is set before the runtime is started.
ReadPending_ReadyFirst(t) ==
    /\ at[t] = "read" /\ To(t, "apply")
    /\ loaded' = [loaded EXCEPT ![Home(t)] = TRUE]
    /\ ready' = [ready EXCEPT ![Home(t)] = TRUE]
    /\ arg' = [arg EXCEPT ![t] = asked[Home(t)]]
    /\ UNCHANGED <<asked, holder, device, plan, tls, alive, calls, starters, wanted>>

\* _C is imported and the pending index read ...
ReadPending(t) ==
    /\ at[t] = "read" /\ To(t, "apply")
    /\ loaded' = [loaded EXCEPT ![Home(t)] = TRUE]
    /\ arg' = [arg EXCEPT ![t] = asked[Home(t)]]
    /\ UNCHANGED <<ready, asked, holder, device, plan, tls, alive, calls, starters, wanted>>

\* Mutant: the index is applied by the next call of set_device.
ApplyPending_Skipped(t) ==
    /\ at[t] = "apply" /\ To(t, "start")
    /\ UNCHANGED <<ready, loaded, asked, holder, device, plan, tls, arg, alive, calls, starters, wanted>>

\* ... and applied to this thread; out of range, it raises.
ApplyPending(t) ==
    /\ at[t] = "apply"
    /\ \/ arg[t] = Unset /\ To(t, "start") /\ UNCHANGED <<tls, holder>>
       \/ /\ arg[t] # Unset /\ arg[t] < Count /\ To(t, "start")
          /\ tls' = [tls EXCEPT ![t] = arg[t]] /\ UNCHANGED holder
       \/ arg[t] # Unset /\ arg[t] >= Count /\ To(t, "idle") /\ Release(t) /\ UNCHANGED tls
    /\ arg' = [arg EXCEPT ![t] = Unset]
    /\ UNCHANGED <<ready, loaded, asked, device, plan, alive, calls, starters, wanted>>

\* _startRuntime: the thread's index, or LOCAL_RANK when that is 0.
Index(t) == IF tls[t] # 0 THEN tls[t] ELSE LocalRank

\* start_runtime, under call_once: an index out of range, or the creation of
\* the context, throws and leaves the flag unspent.
StartRuntime(t) ==
    /\ at[t] = "start"
    /\ tls' = IF device[Home(t)] = Unset THEN [tls EXCEPT ![t] = Index(t)] ELSE tls
    /\ \/ device[Home(t)] # Unset /\ To(t, "finish") /\ UNCHANGED <<device, holder, starters>>
       \/ /\ device[Home(t)] = Unset /\ Index(t) < Count /\ To(t, "finish")
          /\ device' = [device EXCEPT ![Home(t)] = Index(t)]
          /\ starters' = starters \cup {Home(t)} /\ UNCHANGED holder
       \/ device[Home(t)] = Unset /\ To(t, "idle") /\ Release(t) /\ UNCHANGED <<device, starters>>
    /\ UNCHANGED <<ready, loaded, asked, plan, arg, alive, calls, wanted>>

\* Mutant: the lock is not given back.
FinishInit_KeepsLock(t) ==
    /\ at[t] = "finish" /\ To(t, "prepare")
    /\ ready' = [ready EXCEPT ![Home(t)] = TRUE]
    /\ UNCHANGED <<loaded, asked, holder, device, plan, tls, arg, alive, calls, starters, wanted>>

FinishInit(t) ==
    /\ at[t] = "finish" /\ To(t, "prepare")
    /\ ready' = [ready EXCEPT ![Home(t)] = TRUE]
    /\ Release(t)
    /\ UNCHANGED <<loaded, asked, device, plan, tls, arg, alive, calls, starters, wanted>>

\* prepare_kernel fails without a runtime; two threads may both build the plan.
PreparePlan(t) ==
    /\ at[t] = "prepare"
    /\ To(t, IF device[Home(t)] = Unset THEN "idle" ELSE "launch")
    /\ plan' = IF device[Home(t)] = Unset THEN plan ELSE [plan EXCEPT ![Home(t)] = TRUE]
    /\ UNCHANGED <<ready, loaded, asked, holder, device, tls, arg, alive, calls, starters, wanted>>

LaunchPlan(t) ==
    /\ at[t] = "launch" /\ To(t, "idle")
    /\ UNCHANGED <<ready, loaded, asked, holder, device, plan, tls, arg, alive, calls, starters, wanted>>

-----------------------------------------------------------------------------
\* The child's copy of everything but the other threads.
Copy(f) == [f EXCEPT !["child"] = f["main"]]

\* A thread forks; _mark_after_fork in the child.
Fork(t) ==
    /\ Home(t) = "main" /\ at[t] = "idle" /\ alive = {"main"}
    /\ alive' = {"main", "child"}
    /\ loaded' = Copy(loaded) /\ asked' = Copy(asked) /\ holder' = Copy(holder)
    /\ device' = Copy(device) /\ plan' = Copy(plan)
    /\ ready' = [ready EXCEPT !["child"] = TRUE]
    /\ tls' = [tls EXCEPT ![ChildThread] = tls[t]]
    /\ UNCHANGED <<at, arg, calls, starters, wanted>>

-----------------------------------------------------------------------------
\* A step of a call in progress.
Proceed(t) ==
    \/ SetApply(t) \/ LazyCheck(t) \/ TakeLock(t) \/ ReadPending(t) \/ ApplyPending(t)
    \/ StartRuntime(t) \/ FinishInit(t) \/ PreparePlan(t) \/ LaunchPlan(t)

RuntimeNext ==
    \E t \in RtThreads :
        \/ RunKernel(t) \/ Proceed(t) \/ Fork(t)
        \/ \E idx \in Requests : SetPending(t, idx)

\* Python threads that can run do run.
RuntimeFairness == \A t \in RtThreads : WF_runtimeVars(Proceed(t))

RuntimeSpec == RuntimeInit /\ [][RuntimeNext]_runtimeVars /\ RuntimeFairness

-----------------------------------------------------------------------------
\* "A process that doesn't own the card ... never starts the runtime", and in
\* the one that does, no thread goes on to build or launch a plan before the
\* runtime is there, whichever of the two checks let it pass.
RuntimeOwned ==
    /\ starters \subseteq {"main"}
    /\ \A t \in MainThreads : at[t] \in {"prepare", "launch"} => device["main"] # Unset

\* "Apply pending device index before runtime init": the runtime is started on
\* the device that set_device asked for, whichever thread asked and whichever
\* starts it, after failed starts too.  Index 0 stands for LOCAL_RANK, and a
\* request made while a start is under way is not served.
DeviceHonoured ==
    device["main"] # Unset /\ wanted \notin {Unset, 0} => device["main"] = wanted

\* Every call ends, in a child forked while another thread held the lock too.
RunsEnd == \A t \in RtThreads : at[t] # "idle" ~> at[t] = "idle"
================================================================================
