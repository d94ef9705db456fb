------------------------------ MODULE HostProofs -------------------------------
(***************************************************************************)
(* Proofs about RuntimeStart, for any number of threads, devices and       *)
(* requests, and about Ffdc, for any number of processes, hooks and        *)
(* reports.                                                                *)
(***************************************************************************)
EXTENDS RuntimeStart, Ffdc, FiniteSetTheorems, WellFoundedInduction, TLAPS

-----------------------------------------------------------------------------
(* RuntimeStart *)

Labels == {"idle", "set", "lazy", "lock", "read", "apply", "start", "finish", "prepare", "launch"}
InLock == {"read", "apply", "start", "finish"}

RtType ==
    /\ ready \in [Processes -> BOOLEAN] /\ loaded \in [Processes -> BOOLEAN]
    /\ asked \in [Processes -> Requests \cup {Unset}]
    /\ holder \in [Processes -> RtThreads \cup {Unset}]
    /\ device \in [Processes -> Nat \cup {Unset}] /\ plan \in [Processes -> BOOLEAN]
    /\ tls \in [RtThreads -> Nat] /\ at \in [RtThreads -> Labels]
    /\ arg \in [RtThreads -> Requests \cup {Unset}]
    /\ \A t \in RtThreads : at[t] = "set" => arg[t] \in Requests

\* The child is marked as initialised when it comes to life, so that its thread
\* never gets as far as the lock.
ChildKeepsOut ==
    /\ "child" \notin alive => at[ChildThread] = "idle"
    /\ "child" \in alive => ready["child"]
    /\ at[ChildThread] \notin InLock \cup {"lock"}
    /\ starters \subseteq {"main"}

\* The main process says it is initialised, has a plan, or is past the start
\* only with a runtime.
ReadyMeansStarted ==
    /\ ready["main"] \/ plan["main"] => device["main"] # Unset
    /\ \A t \in MainThreads : at[t] \in {"finish", "prepare", "launch"} => device["main"] # Unset

\* Whoever is inside the lock holds it, and a runtime is recorded before it is
\* given back.
LockHeld ==
    /\ \A t \in MainThreads : at[t] \in InLock <=> holder["main"] = t
    /\ device["main"] # Unset /\ ~ready["main"] => \E t \in MainThreads : at[t] = "finish"

\* What became of the request on its way to the runtime.
RequestCarried ==
    wanted # Unset => \A t \in MainThreads :
        /\ at[t] = "read" => asked["main"] = wanted
        /\ at[t] = "apply" => arg[t] = wanted
        /\ at[t] = "start" => tls[t] = wanted

RtInv ==
    /\ RtType /\ ChildKeepsOut /\ ReadyMeansStarted /\ LockHeld /\ RequestCarried
    /\ DeviceHonoured
-----------------------------------------------------------------------------
\* The initial state is as the invariant says.
LEMMA InitHolds == RuntimeInit => RtInv
<1> SUFFICES ASSUME RuntimeInit PROVE RtInv
  OBVIOUS
<1>1. RtType
  BY RankAssumption DEF RuntimeInit, RtType, Processes, RtThreads, Labels
<1>2. ChildKeepsOut /\ ReadyMeansStarted /\ LockHeld /\ RequestCarried /\ DeviceHonoured
  BY ThreadsAssumption DEF RuntimeInit, ChildKeepsOut, ReadyMeansStarted, LockHeld,
     RequestCarried, DeviceHonoured, Processes, RtThreads, InLock
<1> QED
  BY <1>1, <1>2 DEF RtInv

\* The threads of the main process are the ones that are not the child's.
LEMMA Homes ==
    ASSUME NEW t \in RtThreads
    PROVE  /\ Home(t) \in Processes
           /\ t \in MainThreads => Home(t) = "main"
           /\ t \notin MainThreads => t = ChildThread /\ Home(t) = "child"
           /\ Home(t) = "main" => t \in MainThreads
BY ThreadsAssumption DEF Home, Processes, RtThreads

\* set_device, recording the index, keeps the invariant.
LEMMA SetPendingHolds ==
    ASSUME RtInv, NEW t \in RtThreads, NEW idx \in Requests, SetPending(t, idx)
    PROVE  RtInv'
<1> USE Homes DEF RtInv, Processes, InLock
<1>1. RtType'
  BY RankAssumption DEF SetPending, Enter, To, RtType, Labels
<1>2. ChildKeepsOut'
  BY ThreadsAssumption DEF SetPending, Enter, To, RtType, ChildKeepsOut, RtThreads
<1>3. ReadyMeansStarted'
  BY ThreadsAssumption DEF SetPending, Enter, To, RtType, ReadyMeansStarted, RtThreads
<1>4. LockHeld'
  BY ThreadsAssumption DEF SetPending, Enter, To, RtType, ChildKeepsOut, LockHeld, RtThreads
<1>5. RequestCarried'
  BY ThreadsAssumption DEF SetPending, Enter, To, RtType, ChildKeepsOut, LockHeld,
     RequestCarried, RtThreads
<1>6. DeviceHonoured'
  BY ThreadsAssumption DEF SetPending, Enter, To, RtType, ChildKeepsOut, LockHeld,
     RequestCarried, DeviceHonoured, RtThreads
<1> QED
  BY <1>1, <1>2, <1>3, <1>4, <1>5, <1>6

\* set_device, passing the index on, keeps it.
LEMMA SetApplyHolds ==
    ASSUME RtInv, NEW t \in RtThreads, SetApply(t)
    PROVE  RtInv'
<1> USE Homes DEF RtInv, Processes, InLock
<1>1. RtType'
  BY RankAssumption, Zenon DEF SetApply, To, RtType, Labels
<1>2. ChildKeepsOut'
  BY ThreadsAssumption DEF SetApply, To, RtType, ChildKeepsOut, RtThreads
<1>3. ReadyMeansStarted'
  BY ThreadsAssumption DEF SetApply, To, RtType, ReadyMeansStarted, RtThreads
<1>4. LockHeld'
  BY ThreadsAssumption DEF SetApply, To, RtType, ChildKeepsOut, LockHeld, RtThreads
<1>5. RequestCarried'
  BY ThreadsAssumption DEF SetApply, To, RtType, ChildKeepsOut, LockHeld,
     RequestCarried, RtThreads
<1>6. DeviceHonoured'
  BY ThreadsAssumption DEF SetApply, To, RtType, ChildKeepsOut, LockHeld,
     RequestCarried, DeviceHonoured, RtThreads
<1> QED
  BY <1>1, <1>2, <1>3, <1>4, <1>5, <1>6

\* Entering a run keeps it.
LEMMA RunKernelHolds ==
    ASSUME RtInv, NEW t \in RtThreads, RunKernel(t)
    PROVE  RtInv'
<1> USE Homes DEF RtInv, Processes, InLock
<1>1. RtType'
  BY RankAssumption DEF RunKernel, Enter, To, RtType, Labels
<1>2. ChildKeepsOut'
  BY ThreadsAssumption DEF RunKernel, Enter, To, RtType, ChildKeepsOut, RtThreads
<1>3. ReadyMeansStarted'
  BY ThreadsAssumption DEF RunKernel, Enter, To, RtType, ReadyMeansStarted, RtThreads
<1>4. LockHeld'
  BY ThreadsAssumption DEF RunKernel, Enter, To, RtType, ChildKeepsOut, LockHeld, RtThreads
<1>5. RequestCarried'
  BY ThreadsAssumption DEF RunKernel, Enter, To, RtType, ChildKeepsOut, LockHeld,
     RequestCarried, RtThreads
<1>6. DeviceHonoured'
  BY ThreadsAssumption DEF RunKernel, Enter, To, RtType, ChildKeepsOut, LockHeld,
     RequestCarried, DeviceHonoured, RtThreads
<1> QED
  BY <1>1, <1>2, <1>3, <1>4, <1>5, <1>6

\* The unlocked check of _lazy_init keeps it: ready implies started.
LEMMA LazyCheckHolds ==
    ASSUME RtInv, NEW t \in RtThreads, LazyCheck(t)
    PROVE  RtInv'
<1> USE Homes DEF RtInv, Processes, InLock
<1>1. RtType'
  BY RankAssumption DEF LazyCheck, To, RtType, Labels
<1>2. ChildKeepsOut'
  BY ThreadsAssumption DEF LazyCheck, To, RtType, ChildKeepsOut, RtThreads
<1>3. ReadyMeansStarted'
  BY ThreadsAssumption DEF LazyCheck, To, RtType, ReadyMeansStarted, RtThreads
<1>4. LockHeld'
  BY ThreadsAssumption DEF LazyCheck, To, RtType, ChildKeepsOut, LockHeld, RtThreads
<1>5. RequestCarried'
  BY ThreadsAssumption DEF LazyCheck, To, RtType, ChildKeepsOut, LockHeld,
     RequestCarried, RtThreads
<1>6. DeviceHonoured'
  BY ThreadsAssumption DEF LazyCheck, To, RtType, ChildKeepsOut, LockHeld,
     RequestCarried, DeviceHonoured, RtThreads
<1> QED
  BY <1>1, <1>2, <1>3, <1>4, <1>5, <1>6

\* Taking the lock keeps it: with the lock free and not ready, no runtime is there.
LEMMA TakeLockHolds ==
    ASSUME RtInv, NEW t \in RtThreads, TakeLock(t)
    PROVE  RtInv'
<1> USE Homes DEF RtInv, Processes, InLock
<1>1. RtType'
  BY RankAssumption DEF TakeLock, To, RtType, Labels
<1>2. ChildKeepsOut'
  BY ThreadsAssumption DEF TakeLock, To, RtType, ChildKeepsOut, RtThreads
<1>3. ReadyMeansStarted'
  BY ThreadsAssumption DEF TakeLock, To, RtType, ReadyMeansStarted, RtThreads
<1>4. LockHeld'
  BY ThreadsAssumption DEF TakeLock, To, RtType, ChildKeepsOut, LockHeld, RtThreads
<1>5. RequestCarried'
  BY ThreadsAssumption DEF TakeLock, To, RtType, ChildKeepsOut, LockHeld,
     RequestCarried, RtThreads
<1>6. DeviceHonoured'
  BY ThreadsAssumption DEF TakeLock, To, RtType, ChildKeepsOut, LockHeld,
     RequestCarried, DeviceHonoured, RtThreads
<1> QED
  BY <1>1, <1>2, <1>3, <1>4, <1>5, <1>6

\* Reading the pending index keeps it.
LEMMA ReadPendingHolds ==
    ASSUME RtInv, NEW t \in RtThreads, ReadPending(t)
    PROVE  RtInv'
<1> USE Homes DEF RtInv, Processes, InLock
<1>1. RtType'
  BY RankAssumption DEF ReadPending, To, RtType, Labels
<1>2. ChildKeepsOut'
  BY ThreadsAssumption DEF ReadPending, To, RtType, ChildKeepsOut, RtThreads
<1>3. ReadyMeansStarted'
  BY ThreadsAssumption DEF ReadPending, To, RtType, ReadyMeansStarted, RtThreads
<1>4. LockHeld'
  BY ThreadsAssumption DEF ReadPending, To, RtType, ChildKeepsOut, LockHeld, RtThreads
<1>5. RequestCarried'
  BY ThreadsAssumption DEF ReadPending, To, RtType, ChildKeepsOut, LockHeld,
     RequestCarried, RtThreads
<1>6. DeviceHonoured'
  BY ThreadsAssumption DEF ReadPending, To, RtType, ChildKeepsOut, LockHeld,
     RequestCarried, DeviceHonoured, RtThreads
<1> QED
  BY <1>1, <1>2, <1>3, <1>4, <1>5, <1>6

\* Applying the pending index, or failing to, keeps it.
LEMMA ApplyPendingHolds ==
    ASSUME RtInv, NEW t \in RtThreads, ApplyPending(t)
    PROVE  RtInv'
<1> USE Homes DEF RtInv, Processes, InLock
<1>1. RtType'
  BY RankAssumption, ZenonT(60) DEF ApplyPending, To, Release, RtType, Labels
<1>2. ChildKeepsOut'
  BY ThreadsAssumption DEF ApplyPending, To, Release, RtType, ChildKeepsOut, RtThreads
<1>3. ReadyMeansStarted'
  BY ThreadsAssumption DEF ApplyPending, To, Release, RtType, ReadyMeansStarted, RtThreads
<1>4. LockHeld'
  BY ThreadsAssumption DEF ApplyPending, To, Release, RtType, ChildKeepsOut, LockHeld, RtThreads
<1>5. RequestCarried'
  BY ThreadsAssumption DEF ApplyPending, To, Release, RtType, ChildKeepsOut, LockHeld,
     RequestCarried, RtThreads
<1>6. DeviceHonoured'
  BY ThreadsAssumption DEF ApplyPending, To, Release, RtType, ChildKeepsOut, LockHeld,
     RequestCarried, DeviceHonoured, RtThreads
<1> QED
  BY <1>1, <1>2, <1>3, <1>4, <1>5, <1>6

\* startRuntime keeps it: it uses the index that was carried here.
LEMMA StartRuntimeHolds ==
    ASSUME RtInv, NEW t \in RtThreads, StartRuntime(t)
    PROVE  RtInv'
<1> USE Homes DEF RtInv, Processes, InLock
<1>1. RtType'
  BY RankAssumption DEF StartRuntime, To, Release, Index, RtType, Labels
<1>2. ChildKeepsOut'
  BY ThreadsAssumption, Zenon DEF StartRuntime, To, Release, Index, RtType, ChildKeepsOut, RtThreads
<1>3. ReadyMeansStarted'
  BY ThreadsAssumption, RankAssumption DEF StartRuntime, To, Release, Index, RtType, ReadyMeansStarted, RtThreads
<1>4. LockHeld'
  BY ThreadsAssumption, RankAssumption DEF StartRuntime, To, Release, Index, RtType, ChildKeepsOut, LockHeld, RtThreads
<1>5. RequestCarried'
  BY ThreadsAssumption, RankAssumption DEF StartRuntime, To, Release, Index, RtType, ChildKeepsOut, LockHeld,
     RequestCarried, RtThreads
<1>6. DeviceHonoured'
  BY ThreadsAssumption, RankAssumption DEF StartRuntime, To, Release, Index, RtType, ChildKeepsOut, LockHeld,
     RequestCarried, DeviceHonoured, RtThreads
<1> QED
  BY <1>1, <1>2, <1>3, <1>4, <1>5, <1>6

\* Setting _initialized and releasing the lock keep it.
LEMMA FinishInitHolds ==
    ASSUME RtInv, NEW t \in RtThreads, FinishInit(t)
    PROVE  RtInv'
<1> USE Homes DEF RtInv, Processes, InLock
<1>1. RtType'
  BY RankAssumption DEF FinishInit, To, Release, RtType, Labels
<1>2. ChildKeepsOut'
  BY ThreadsAssumption DEF FinishInit, To, Release, RtType, ChildKeepsOut, RtThreads
<1>3. ReadyMeansStarted'
  BY ThreadsAssumption DEF FinishInit, To, Release, RtType, ReadyMeansStarted, RtThreads
<1>4. LockHeld'
  BY ThreadsAssumption DEF FinishInit, To, Release, RtType, ChildKeepsOut, LockHeld, RtThreads
<1>5. RequestCarried'
  BY ThreadsAssumption DEF FinishInit, To, Release, RtType, ChildKeepsOut, LockHeld,
     RequestCarried, RtThreads
<1>6. DeviceHonoured'
  BY ThreadsAssumption DEF FinishInit, To, Release, RtType, ChildKeepsOut, LockHeld,
     RequestCarried, DeviceHonoured, RtThreads
<1> QED
  BY <1>1, <1>2, <1>3, <1>4, <1>5, <1>6

\* Building the job plan keeps it.
LEMMA PreparePlanHolds ==
    ASSUME RtInv, NEW t \in RtThreads, PreparePlan(t)
    PROVE  RtInv'
<1> USE Homes DEF RtInv, Processes, InLock
<1>1. RtType'
  BY RankAssumption DEF PreparePlan, To, RtType, Labels
<1>2. ChildKeepsOut'
  BY ThreadsAssumption DEF PreparePlan, To, RtType, ChildKeepsOut, RtThreads
<1>3. ReadyMeansStarted'
  BY ThreadsAssumption, SMTT(30) DEF PreparePlan, To, RtType, ReadyMeansStarted, RtThreads
<1>4. LockHeld'
  BY ThreadsAssumption DEF PreparePlan, To, RtType, ChildKeepsOut, LockHeld, RtThreads
<1>5. RequestCarried'
  BY ThreadsAssumption DEF PreparePlan, To, RtType, ChildKeepsOut, LockHeld,
     RequestCarried, RtThreads
<1>6. DeviceHonoured'
  BY ThreadsAssumption DEF PreparePlan, To, RtType, ChildKeepsOut, LockHeld,
     RequestCarried, DeviceHonoured, RtThreads
<1> QED
  BY <1>1, <1>2, <1>3, <1>4, <1>5, <1>6

\* Launching the plan keeps it.
LEMMA LaunchPlanHolds ==
    ASSUME RtInv, NEW t \in RtThreads, LaunchPlan(t)
    PROVE  RtInv'
<1> USE Homes DEF RtInv, Processes, InLock
<1>1. RtType'
  BY RankAssumption DEF LaunchPlan, To, RtType, Labels
<1>2. ChildKeepsOut'
  BY ThreadsAssumption DEF LaunchPlan, To, RtType, ChildKeepsOut, RtThreads
<1>3. ReadyMeansStarted'
  BY ThreadsAssumption DEF LaunchPlan, To, RtType, ReadyMeansStarted, RtThreads
<1>4. LockHeld'
  BY ThreadsAssumption, SMTT(30) DEF LaunchPlan, To, RtType, ChildKeepsOut, LockHeld, RtThreads
<1>5. RequestCarried'
  BY ThreadsAssumption DEF LaunchPlan, To, RtType, ChildKeepsOut, LockHeld,
     RequestCarried, RtThreads
<1>6. DeviceHonoured'
  BY ThreadsAssumption DEF LaunchPlan, To, RtType, ChildKeepsOut, LockHeld,
     RequestCarried, DeviceHonoured, RtThreads
<1> QED
  BY <1>1, <1>2, <1>3, <1>4, <1>5, <1>6

\* fork keeps it: only the child's half of the state changes.
LEMMA ForkHolds ==
    ASSUME RtInv, NEW t \in RtThreads, Fork(t)
    PROVE  RtInv'
<1> USE Homes DEF RtInv, Processes, InLock
<1>1. RtType'
  BY RankAssumption, Zenon DEF Fork, Copy, RtType, Labels
<1>2. ChildKeepsOut'
  BY ThreadsAssumption DEF Fork, Copy, RtType, ChildKeepsOut, RtThreads
<1>3. ReadyMeansStarted'
  BY ThreadsAssumption DEF Fork, Copy, RtType, ReadyMeansStarted, RtThreads
<1>4. LockHeld'
  BY ThreadsAssumption DEF Fork, Copy, RtType, ChildKeepsOut, LockHeld, RtThreads
<1>5. RequestCarried'
  BY ThreadsAssumption DEF Fork, Copy, RtType, ChildKeepsOut, LockHeld,
     RequestCarried, RtThreads
<1>6. DeviceHonoured'
  BY ThreadsAssumption DEF Fork, Copy, RtType, ChildKeepsOut, LockHeld,
     RequestCarried, DeviceHonoured, RtThreads
<1> QED
  BY <1>1, <1>2, <1>3, <1>4, <1>5, <1>6

\* Every step keeps the invariant.
LEMMA NextHolds == RtInv /\ [RuntimeNext]_runtimeVars => RtInv'
<1> SUFFICES ASSUME RtInv, [RuntimeNext]_runtimeVars PROVE RtInv'
  OBVIOUS
<1>1. CASE UNCHANGED runtimeVars
  BY <1>1 DEF runtimeVars, RtInv, RtType, ChildKeepsOut, ReadyMeansStarted, LockHeld,
     RequestCarried, DeviceHonoured
<1>2. CASE \E t \in RtThreads, idx \in Requests : SetPending(t, idx)
  BY <1>2, SetPendingHolds
<1>3. CASE \E t \in RtThreads : RunKernel(t) \/ Fork(t)
  BY <1>3, RunKernelHolds, ForkHolds
<1>4. CASE \E t \in RtThreads : Proceed(t)
  BY <1>4, SetApplyHolds, LazyCheckHolds, TakeLockHolds, ReadPendingHolds, ApplyPendingHolds,
     StartRuntimeHolds, FinishInitHolds, PreparePlanHolds, LaunchPlanHolds DEF Proceed
<1> QED
  BY <1>1, <1>2, <1>3, <1>4, SMTT(30) DEF RuntimeNext

\* RtInv is inductive, so it always holds.
THEOREM RuntimeInvariant == RuntimeSpec => []RtInv
<1> QED
  BY InitHolds, NextHolds, PTL DEF RuntimeSpec

\* The main process alone starts the runtime, and none of its threads builds or
\* launches a plan before it is there (_lazy_init, _mark_after_fork).
THEOREM RuntimeOwnedAlways == RuntimeSpec => []RuntimeOwned
<1>1. RtInv => RuntimeOwned
  BY DEF RtInv, ChildKeepsOut, ReadyMeansStarted, RuntimeOwned
<1> QED
  BY <1>1, RuntimeInvariant, PTL

\* The runtime is started on the device set_device asked for (_lazy_init,
\* startRuntime), whichever thread starts it.
THEOREM DeviceHonouredAlways == RuntimeSpec => []DeviceHonoured
<1>1. RtInv => DeviceHonoured
  BY DEF RtInv
<1> QED
  BY <1>1, RuntimeInvariant, PTL

-----------------------------------------------------------------------------
(* Ffdc *)

Collecting == {"collecting", "opened", "dumped"}
Stages == Collecting \cup {"running", "unwinding", "published", "pruning", "dead"}
Written(p) == \E f \in published : f.of = <<p, fails[p]>>

FfdcType ==
  /\ stage \in [Procs -> Stages]
  /\ chain \in [Procs -> Seq(BOOLEAN)]
  /\ hooked \in [Procs -> Nat]
  /\ fails \in [Procs -> Nat]
  /\ draft \in [Procs -> Files \cup {NoReport}]
  /\ published \subseteq Files
  /\ IsFiniteSet(published)
  /\ now \in Nat

\* Where a process stands in the unwinding of its failure: an exception that
\* has passed a hook is captured, and only one that has passed none, or that
\* its first hook is collecting, has no report.
UnwindOk(p) ==
  /\ stage[p] = "unwinding" /\ hooked[p] = 0 => chain[p] = <<FALSE>>
  /\ stage[p] = "unwinding" /\ hooked[p] > 0 => Captured(chain[p])
  /\ stage[p] \in Collecting \cup {"published", "pruning"} => hooked[p] = 1 /\ Captured(chain[p])
  /\ stage[p] \in Collecting \/ (stage[p] = "unwinding" /\ hooked[p] = 0) => ~Written(p)
  /\ stage[p] \in {"opened", "dumped"} =>
       draft[p] \in Files /\ draft[p].of = <<p, fails[p]>> /\ draft[p].hook = 1
  /\ draft[p] # NoReport => draft[p].ext = "tmp"

PublishedOk ==
  \A f \in published :
    /\ f.ext = "json"
    /\ \A p \in Procs, n \in Nat : f.of = <<p, n>> => n <= fails[p]

\* Only published reports match the glob, and a report a prune is about to
\* unlink has been outnumbered.
Outnumbered(f) == Cardinality(Newer(published, f)) >= Keep
PruneOk ==
  /\ Listed(dir) \subseteq published
  /\ \A p \in Procs : \A f \in doomed[p] : Outnumbered(f)

FfdcInv ==
  /\ FfdcType /\ (\A p \in Procs : UnwindOk(p)) /\ PublishedOk /\ PruneOk
  /\ InnermostOnly /\ NewestKept

-----------------------------------------------------------------------------
\* What has been outnumbered stays so.
LEMMA StaysOutnumbered ==
  ASSUME NEW F, NEW G, F \subseteq G, IsFiniteSet(G), NEW f, Cardinality(Newer(F, f)) >= Keep
  PROVE  Cardinality(Newer(G, f)) >= Keep
<1>1. Newer(F, f) \subseteq Newer(G, f) /\ Newer(G, f) \subseteq G
  BY DEF Newer
<1>2. IsFiniteSet(Newer(G, f))
  BY <1>1, FS_Subset
<1>3. Cardinality(Newer(F, f)) <= Cardinality(Newer(G, f)) /\ IsFiniteSet(Newer(F, f))
  BY <1>1, <1>2, FS_Subset
<1>4. Cardinality(Newer(F, f)) \in Nat /\ Cardinality(Newer(G, f)) \in Nat
  BY <1>2, <1>3, FS_CardinalityType
<1> QED
  BY <1>3, <1>4, KeepAssumption

\* A step that publishes nothing, unlinks no published report but outnumbered
\* ones and lets no file match the glob keeps what is said of the directory.
LEMMA DirStep ==
  ASSUME FfdcInv, UNCHANGED published, \A p \in Procs : fails[p] <= fails'[p],
         fails' \in [Procs -> Nat],
         \A f \in published : f \in dir => f \in dir' \/ Outnumbered(f),
         Listed(dir') \subseteq published,
         \A p \in Procs : \A f \in doomed'[p] : Outnumbered(f)
  PROVE  PublishedOk' /\ PruneOk' /\ InnermostOnly' /\ NewestKept'
<1>1. PublishedOk'
  BY DEF FfdcInv, FfdcType, PublishedOk
<1>2. PruneOk'
  BY DEF FfdcInv, PruneOk, Outnumbered
<1>3. InnermostOnly'
  BY DEF FfdcInv, InnermostOnly
<1>4. NewestKept'
  BY DEF FfdcInv, NewestKept, Outnumbered
<1> QED
  BY <1>1, <1>2, <1>3, <1>4

\* A step of one process says nothing new of the others.
OnlyProc(p) ==
  \A q \in Procs \ {p} :
    /\ stage'[q] = stage[q] /\ chain'[q] = chain[q] /\ hooked'[q] = hooked[q]
    /\ fails'[q] = fails[q] /\ draft'[q] = draft[q]

LEMMA OtherProcs ==
  ASSUME FfdcInv, NEW p \in Procs, OnlyProc(p), UNCHANGED published, UnwindOk(p)'
  PROVE  \A q \in Procs : UnwindOk(q)'
<1>1. ASSUME NEW q \in Procs \ {p} PROVE UnwindOk(q)'
  <2>1. /\ UnwindOk(q) /\ (Written(q)' <=> Written(q))
        /\ stage'[q] = stage[q] /\ chain'[q] = chain[q] /\ hooked'[q] = hooked[q]
        /\ fails'[q] = fails[q] /\ draft'[q] = draft[q]
    BY <1>1 DEF FfdcInv, OnlyProc, Written
  <2> QED
    BY <2>1, Zenon DEF UnwindOk, Captured
<1> QED
  BY <1>1

\* Raising, wrapping, hooking and handling an exception.
LEMMA UnwindSteps ==
  ASSUME FfdcInv, NEW p \in Procs, Fail(p) \/ Wrap(p) \/ TryCollect(p) \/ Surface(p)
  PROVE  FfdcInv'
<1>0. /\ FfdcType /\ UnwindOk(p) /\ PublishedOk /\ PruneOk
      /\ stage[p] \in Stages /\ chain[p] \in Seq(BOOLEAN) /\ hooked[p] \in Nat /\ fails[p] \in Nat
  BY DEF FfdcInv, FfdcType
<1>1. UNCHANGED <<dir, draft, doomed, published, now, reader>>
  BY Zenon DEF Fail, Wrap, TryCollect, Surface
<1>2. CASE Fail(p)
  <2>1. /\ stage' = [stage EXCEPT ![p] = "unwinding"] /\ chain' = [chain EXCEPT ![p] = <<FALSE>>]
        /\ hooked' = [hooked EXCEPT ![p] = 0] /\ fails' = [fails EXCEPT ![p] = @ + 1]
        /\ stage[p] = "running"
    BY <1>2 DEF Fail
  <2>2. FfdcType' /\ OnlyProc(p) /\ fails' \in [Procs -> Nat] /\ \A q \in Procs : fails[q] <= fails'[q]
    BY <1>0, <1>1, <2>1 DEF FfdcType, OnlyProc, Stages
  <2>3. ~Written(p)'
    <3>1. ASSUME NEW f \in published, f.of = <<p, fails[p] + 1>> PROVE FALSE
      BY <1>0, <3>1 DEF PublishedOk
    <3> QED
      BY <1>0, <1>1, <2>1, <3>1, ZenonT(60) DEF Written, FfdcType
  <2>4. UnwindOk(p)'
    <3>1. /\ stage'[p] = "unwinding" /\ hooked'[p] = 0 /\ chain'[p] = <<FALSE>>
          /\ draft'[p] = draft[p] /\ (draft[p] # NoReport => draft[p].ext = "tmp")
      BY <1>0, <1>1, <2>1, ZenonT(60) DEF UnwindOk, FfdcType
    <3>2. ~(0 > 0)
      OBVIOUS
    <3> QED
      BY <2>3, <3>1, <3>2, Zenon DEF UnwindOk, Collecting
  <2>5. PublishedOk' /\ PruneOk' /\ InnermostOnly' /\ NewestKept'
    BY <1>0, <1>1, <2>2, DirStep, ZenonT(60) DEF PruneOk
  <2> QED
    BY <1>1, <2>2, <2>4, <2>5, OtherProcs DEF FfdcInv
<1>3. CASE Wrap(p)
  <2>1. /\ chain' = [chain EXCEPT ![p] = Append(chain[p], FALSE)] /\ UNCHANGED <<stage, hooked, fails>>
        /\ stage[p] = "unwinding" /\ hooked[p] > 0
    BY <1>0, <1>3 DEF Wrap, FfdcType
  <2>2. FfdcType' /\ OnlyProc(p) /\ fails' \in [Procs -> Nat] /\ \A q \in Procs : fails[q] <= fails'[q]
    BY <1>0, <1>1, <2>1 DEF FfdcType, OnlyProc
  <2>3. Captured(Append(chain[p], FALSE))
    BY <1>0, <2>1 DEF UnwindOk, Captured
  <2>4. UnwindOk(p)'
    <3>a. hooked[p] # 0
      BY <2>1, SMT
    <3>0. hooked[p] # 0 /\ chain'[p] = Append(chain[p], FALSE)
      BY <1>0, <2>1, <3>a, Zenon DEF FfdcType
    <3>1. /\ stage'[p] = "unwinding" /\ hooked'[p] > 0 /\ hooked'[p] # 0 /\ chain'[p] = Append(chain[p], FALSE)
          /\ draft'[p] = draft[p] /\ (draft[p] # NoReport => draft[p].ext = "tmp")
      BY <1>0, <1>1, <2>1, <3>0, Zenon DEF UnwindOk
    <3>2. Captured(chain[p])'
      BY <2>3, <3>1, ZenonT(60) DEF Captured
    <3> QED
      BY <3>1, <3>2, Zenon DEF UnwindOk, Collecting
  <2>5. PublishedOk' /\ PruneOk' /\ InnermostOnly' /\ NewestKept'
    BY <1>0, <1>1, <2>2, DirStep, ZenonT(60) DEF PruneOk
  <2> QED
    BY <1>1, <2>2, <2>4, <2>5, OtherProcs DEF FfdcInv
<1>4. CASE TryCollect(p)
  <2>1. /\ stage[p] = "unwinding" /\ hooked' = [hooked EXCEPT ![p] = @ + 1] /\ UNCHANGED fails
    BY <1>4 DEF TryCollect
  <2>2. CASE hooked[p] = 0
    <3>a. chain[p] = <<FALSE>> /\ ~Written(p)
      BY <1>0, <1>1, <2>1, <2>2, Zenon DEF UnwindOk, Captured
    <3>b. ~Captured(<<FALSE>>)
      <4>1. DOMAIN <<FALSE>> = {1} /\ <<FALSE>>[1] = FALSE
        OBVIOUS
      <4> QED
        BY <4>1, Zenon DEF Captured
    <3>1. chain[p] = <<FALSE>> /\ ~Written(p) /\ ~Captured(chain[p])
      BY <3>a, <3>b
    <3>2. /\ chain' = [chain EXCEPT ![p] = [chain[p] EXCEPT ![1] = TRUE]]
          /\ stage' = [stage EXCEPT ![p] = "collecting"]
      BY <1>0, <1>4, <3>1 DEF TryCollect, FfdcType
    <3>3. [chain[p] EXCEPT ![1] = TRUE] \in Seq(BOOLEAN) /\ Captured([chain[p] EXCEPT ![1] = TRUE])
      BY <3>1 DEF Captured
    <3>4. FfdcType' /\ OnlyProc(p) /\ fails' \in [Procs -> Nat] /\ \A q \in Procs : fails[q] <= fails'[q]
      <4>1. hooked[p] + 1 \in Nat /\ \A n \in Nat : n <= n
        BY <1>0
      <4>2. FfdcType'
        BY <1>0, <1>1, <2>1, <3>2, <3>3, <4>1, ZenonT(60) DEF FfdcType, Stages, Collecting
      <4>3. OnlyProc(p)
        BY <1>0, <1>1, <2>1, <3>2, ZenonT(60) DEF FfdcType, OnlyProc
      <4> QED
        BY <1>0, <2>1, <4>1, <4>2, <4>3, ZenonT(60) DEF FfdcType
    <3>5. UnwindOk(p)'
      <4>1. hooked[p] + 1 = 1 /\ 0 # 1
        BY <2>2
      <4>2. /\ stage'[p] = "collecting" /\ hooked'[p] = 1 /\ draft'[p] = draft[p]
            /\ chain'[p] = [chain[p] EXCEPT ![1] = TRUE]
            /\ (draft[p] # NoReport => draft[p].ext = "tmp")
        BY <1>0, <1>1, <2>1, <3>2, <4>1, ZenonT(60) DEF UnwindOk, FfdcType
      <4>3. Captured(chain[p])' /\ ~Written(p)'
        BY <1>1, <2>1, <3>1, <3>3, <4>2, ZenonT(60) DEF Captured, Written
      <4> QED
        BY <4>2, <4>3, ZenonT(60) DEF UnwindOk, Collecting
    <3>6. PublishedOk' /\ PruneOk' /\ InnermostOnly' /\ NewestKept'
      BY <1>0, <1>1, <3>4, DirStep, ZenonT(60) DEF PruneOk
    <3> QED
      BY <1>1, <3>4, <3>5, <3>6, OtherProcs DEF FfdcInv
  <2>3. CASE hooked[p] > 0
    <3>1. Captured(chain[p]) /\ UNCHANGED <<stage, chain>>
      BY <1>0, <1>4, <2>1, <2>3 DEF UnwindOk, TryCollect
    <3>2. FfdcType' /\ OnlyProc(p) /\ fails' \in [Procs -> Nat] /\ \A q \in Procs : fails[q] <= fails'[q]
      <4>1. hooked[p] + 1 \in Nat /\ \A n \in Nat : n <= n
        BY <1>0
      <4> QED
        BY <1>0, <1>1, <2>1, <3>1, <4>1, ZenonT(60) DEF FfdcType, OnlyProc
    <3>3. UnwindOk(p)'
      <4>0. hooked[p] + 1 > 0 /\ hooked[p] + 1 # 0
        BY <1>0
      <4>1. /\ stage'[p] = "unwinding" /\ hooked'[p] > 0 /\ hooked'[p] # 0 /\ chain'[p] = chain[p]
            /\ draft'[p] = draft[p] /\ (draft[p] # NoReport => draft[p].ext = "tmp")
        BY <1>0, <1>1, <2>1, <3>1, <4>0, ZenonT(60) DEF UnwindOk, FfdcType
      <4>2. Captured(chain[p])'
        BY <3>1, <4>1, ZenonT(60) DEF Captured
      <4> QED
        BY <4>1, <4>2, Zenon DEF UnwindOk, Collecting
    <3>4. PublishedOk' /\ PruneOk' /\ InnermostOnly' /\ NewestKept'
      BY <1>0, <1>1, <3>2, DirStep, ZenonT(60) DEF PruneOk
    <3> QED
      BY <1>1, <3>2, <3>3, <3>4, OtherProcs DEF FfdcInv
  <2> QED
    BY <1>0, <2>2, <2>3
<1>5. CASE Surface(p)
  <2>1. /\ stage' = [stage EXCEPT ![p] = "running"] /\ chain' = [chain EXCEPT ![p] = <<>>]
        /\ hooked' = [hooked EXCEPT ![p] = 0] /\ UNCHANGED fails
    BY <1>5 DEF Surface
  <2>2. FfdcType' /\ OnlyProc(p) /\ fails' \in [Procs -> Nat] /\ \A q \in Procs : fails[q] <= fails'[q]
    BY <1>0, <1>1, <2>1 DEF FfdcType, OnlyProc, Stages
  <2>3. UnwindOk(p)'
    <3>1. /\ stage'[p] = "running" /\ draft'[p] = draft[p]
          /\ (draft[p] # NoReport => draft[p].ext = "tmp")
      BY <1>0, <1>1, <2>1, ZenonT(60) DEF UnwindOk, FfdcType
    <3> QED
      BY <3>1, ZenonT(60) DEF UnwindOk, Collecting
  <2>4. PublishedOk' /\ PruneOk' /\ InnermostOnly' /\ NewestKept'
    BY <1>0, <1>1, <2>2, DirStep, ZenonT(60) DEF PruneOk
  <2> QED
    BY <1>1, <2>2, <2>3, <2>4, OtherProcs DEF FfdcInv
<1> QED
  BY <1>2, <1>3, <1>4, <1>5

\* A draft matches no glob, so writing and dropping it touches no report.
LEMMA DraftSteps ==
  ASSUME FfdcInv, NEW p \in Procs, OpenDraft(p) \/ DumpJson(p) \/ CollectFails(p)
  PROVE  FfdcInv'
<1>0. /\ FfdcType /\ UnwindOk(p) /\ PublishedOk /\ PruneOk /\ now \in Nat
      /\ stage[p] \in Stages /\ hooked[p] \in Nat /\ fails[p] \in Nat
      /\ fails \in [Procs -> Nat] /\ \A q \in Procs : fails[q] <= fails[q]
  BY DEF FfdcInv, FfdcType
<1>1. UNCHANGED <<chain, hooked, fails, doomed, published, reader>>
  BY ZenonT(60) DEF OpenDraft, DumpJson, CollectFails
<1>2. ASSUME NEW f \in published PROVE f # draft[p]
  BY <1>0, NoReportAssumption DEF PublishedOk, UnwindOk, FfdcType
<1>3. ASSUME NEW s \in Stages, stage' = [stage EXCEPT ![p] = s],
             NEW d \in Files \cup {NoReport}, draft' = [draft EXCEPT ![p] = d],
             now' \in Nat, UnwindOk(p)',
             d # NoReport => d.ext = "tmp",
             dir' \in {dir \ {draft[p]}, dir \cup {d}, (dir \ {draft[p]}) \cup {d}},
             d = NoReport => dir' = dir \ {draft[p]}
      PROVE  FfdcInv'
  <2>1. FfdcType' /\ OnlyProc(p)
    BY <1>0, <1>1, <1>3 DEF FfdcType, OnlyProc
  <2>2. \A f \in published : f \in dir => f \in dir'
    BY <1>2, <1>3
  <2>3. Listed(dir') \subseteq published
    BY <1>0, <1>3, ZenonT(60) DEF PruneOk, Listed
  <2>4. PublishedOk' /\ PruneOk' /\ InnermostOnly' /\ NewestKept'
    BY <1>0, <1>1, <2>2, <2>3, DirStep DEF PruneOk
  <2> QED
    BY <1>1, <1>3, <2>1, <2>4, OtherProcs DEF FfdcInv
<1>4. (Captured(chain[p])' <=> Captured(chain[p])) /\ (Written(p)' <=> Written(p))
      /\ hooked'[p] = hooked[p] /\ fails'[p] = fails[p]
  BY <1>1, Zenon DEF Captured, Written
<1>5. CASE OpenDraft(p)
  <2> DEFINE f == [of |-> <<p, fails[p]>>, hook |-> hooked[p], ts |-> now,
                   mtime |-> now, ext |-> "tmp", whole |-> FALSE]
  <2>1. /\ stage[p] = "collecting" /\ now' = now + 1 /\ stage' = [stage EXCEPT ![p] = "opened"]
        /\ draft' = [draft EXCEPT ![p] = f] /\ dir' = dir \cup {f}
    BY <1>5, ZenonT(60) DEF OpenDraft
  <2>2. f \in Files /\ f.ext = "tmp" /\ f.of = <<p, fails[p]>> /\ f.hook = hooked[p]
    BY <1>0 DEF Files
  <2> HIDE DEF f
  <2>3. hooked[p] = 1 /\ Captured(chain[p]) /\ ~Written(p)
    BY <1>0, <2>1, ZenonT(60) DEF UnwindOk, Collecting
  <2>4. stage'[p] = "opened" /\ draft'[p] = f /\ f # NoReport
    BY <1>0, <2>1, <2>2, NoReportAssumption DEF FfdcType
  <2>5. UnwindOk(p)'
    BY <1>4, <2>2, <2>3, <2>4, Zenon DEF UnwindOk, Collecting
  <2>6. now' \in Nat /\ "opened" \in Stages
    BY <1>0, <2>1 DEF Stages, Collecting
  <2> QED
    BY <1>3, <2>1, <2>2, <2>4, <2>5, <2>6, Zenon
<1>6. CASE DumpJson(p)
  <2> DEFINE f == [draft[p] EXCEPT !.mtime = now, !.whole = TRUE]
  <2>1. /\ stage[p] = "opened" /\ now' = now + 1 /\ stage' = [stage EXCEPT ![p] = "dumped"]
        /\ draft' = [draft EXCEPT ![p] = f] /\ dir' = (dir \ {draft[p]}) \cup {f}
    BY <1>6 DEF DumpJson
  <2>2. /\ hooked[p] = 1 /\ Captured(chain[p]) /\ ~Written(p)
        /\ draft[p] \in Files /\ draft[p].of = <<p, fails[p]>> /\ draft[p].hook = 1
        /\ draft[p] # NoReport => draft[p].ext = "tmp"
    BY <1>0, <2>1, Zenon DEF UnwindOk, Collecting
  <2>3. f \in Files /\ f.ext = "tmp" /\ f.of = <<p, fails[p]>> /\ f.hook = 1
    BY <1>0, <2>2, NoReportAssumption, ZenonT(60) DEF Files
  <2> HIDE DEF f
  <2>4. stage'[p] = "dumped" /\ draft'[p] = f /\ f # NoReport
    BY <1>0, <2>1, <2>3, NoReportAssumption DEF FfdcType
  <2>5. UnwindOk(p)'
    BY <1>4, <2>2, <2>3, <2>4, Zenon DEF UnwindOk, Collecting
  <2>6. now' \in Nat /\ "dumped" \in Stages
    BY <1>0, <2>1 DEF Stages, Collecting
  <2> QED
    BY <1>3, <2>1, <2>3, <2>4, <2>5, <2>6, Zenon
<1>7. CASE CollectFails(p)
  <2>1. /\ stage[p] \in Collecting /\ now' = now /\ stage' = [stage EXCEPT ![p] = "unwinding"]
        /\ draft' = [draft EXCEPT ![p] = NoReport] /\ dir' = dir \ {draft[p]}
    BY <1>7, ZenonT(60) DEF CollectFails, Collecting
  <2>2. hooked[p] = 1 /\ hooked[p] # 0 /\ Captured(chain[p])
    BY <1>0, <2>1 DEF UnwindOk
  <2>3. stage'[p] = "unwinding" /\ draft'[p] = NoReport
    BY <1>0, <2>1 DEF FfdcType
  <2>4. UnwindOk(p)'
    BY <1>4, <2>2, <2>3, Zenon DEF UnwindOk, Collecting
  <2> QED
    BY <1>0, <1>3, <2>1, <2>4, Zenon DEF Stages
<1> QED
  BY <1>5, <1>6, <1>7

\* os.replace publishes the only report of its failure.
LEMMA ReplaceHolds ==
  ASSUME FfdcInv, NEW p \in Procs, Replace(p)
  PROVE  FfdcInv'
<1> DEFINE f == [draft[p] EXCEPT !.ext = "json"]
<1>0. /\ FfdcType /\ UnwindOk(p) /\ PublishedOk /\ PruneOk /\ InnermostOnly /\ NewestKept
      /\ fails[p] \in Nat
  BY DEF FfdcInv, FfdcType
<1>1. /\ stage[p] = "dumped" /\ stage' = [stage EXCEPT ![p] = "published"]
      /\ dir' = (dir \ {draft[p]}) \cup {f} /\ published' = published \cup {f}
      /\ draft' = [draft EXCEPT ![p] = NoReport]
      /\ UNCHANGED <<chain, hooked, fails, doomed, now, reader>>
  BY DEF Replace
<1>2. /\ hooked[p] = 1 /\ Captured(chain[p]) /\ ~Written(p)
      /\ draft[p] \in Files /\ draft[p].of = <<p, fails[p]>> /\ draft[p].hook = 1
      /\ draft[p] # NoReport => draft[p].ext = "tmp"
  BY <1>0, <1>1, Zenon DEF UnwindOk, Collecting
<1>3. f \in Files /\ f.ext = "json" /\ f.of = <<p, fails[p]>> /\ f.hook = 1 /\ draft[p].ext = "tmp"
  BY <1>2, NoReportAssumption DEF Files
<1> HIDE DEF f
<1>4. IsFiniteSet(published')
  BY <1>0, <1>1, FS_AddElement, ZenonT(60) DEF FfdcType
<1>5. FfdcType' /\ OnlyProc(p)
  BY <1>0, <1>1, <1>3, <1>4 DEF FfdcType, OnlyProc, Stages
<1>6. UnwindOk(p)'
  <2>1. stage'[p] = "published" /\ draft'[p] = NoReport /\ hooked'[p] = 1
    BY <1>0, <1>1, <1>2 DEF FfdcType
  <2>2. Captured(chain[p])'
    BY <1>1, <1>2, Zenon DEF Captured
  <2> QED
    BY <2>1, <2>2, ZenonT(60) DEF UnwindOk, Collecting
<1>7. ASSUME NEW q \in Procs \ {p} PROVE UnwindOk(q)'
  <2>1. Written(q)' <=> Written(q)
    BY <1>1, <1>3 DEF Written
  <2>2. /\ UnwindOk(q) /\ stage'[q] = stage[q] /\ chain'[q] = chain[q] /\ hooked'[q] = hooked[q]
        /\ fails'[q] = fails[q] /\ draft'[q] = draft[q]
    BY <1>5 DEF OnlyProc, FfdcInv
  <2> QED
    BY <2>1, <2>2, ZenonT(60) DEF UnwindOk, Captured
<1>8. PublishedOk'
  <2>1. ASSUME NEW q \in Procs, NEW n \in Nat, f.of = <<q, n>> PROVE n <= fails[q]
    BY <1>0, <1>3, <2>1
  <2> QED
    BY <1>0, <1>1, <1>3, <2>1 DEF PublishedOk
<1>9. \A g : Outnumbered(g) => Outnumbered(g)'
  BY <1>1, <1>4, StaysOutnumbered, ZenonT(60) DEF Outnumbered
<1>10. PruneOk'
  BY <1>0, <1>1, <1>9, ZenonT(60) DEF PruneOk, Listed
<1>11. InnermostOnly'
  BY <1>0, <1>1, <1>2, <1>3 DEF InnermostOnly, Written
<1>12. NewestKept'
  <2> SUFFICES ASSUME NEW g \in published', g \notin dir' PROVE Outnumbered(g)'
    BY ZenonT(60) DEF NewestKept, Outnumbered
  <2>1. g \in published /\ g # draft[p]
    BY <1>0, <1>1, <1>3, ZenonT(60) DEF PublishedOk
  <2>2. Outnumbered(g)
    BY <1>0, <1>1, <2>1, ZenonT(60) DEF NewestKept, Outnumbered
  <2> QED
    BY <1>9, <2>2
<1> QED
  BY <1>5, <1>6, <1>7, <1>8, <1>10, <1>11, <1>12 DEF FfdcInv

\* A prune picks, from any listing, reports that Keep later ones outnumber.
LEMMA PruneSteps ==
  ASSUME FfdcInv, NEW p \in Procs, PruneList(p) \/ PruneOne(p) \/ PruneDone(p) \/ Die(p)
  PROVE  FfdcInv'
<1>0. /\ FfdcType /\ UnwindOk(p) /\ PruneOk /\ doomed = doomed
      /\ fails \in [Procs -> Nat] /\ \A q \in Procs : fails[q] <= fails[q]
  BY DEF FfdcInv, FfdcType
<1>1. UNCHANGED <<chain, hooked, fails, published, now, reader>>
  BY Zenon DEF PruneList, PruneOne, PruneDone, Die
<1>2. \A f \in Listed(dir) : f \in Discarded(Listed(dir)) => Outnumbered(f)
  BY <1>0, StaysOutnumbered, ZenonT(60) DEF PruneOk, FfdcType, Discarded, Outnumbered
<1>3. /\ \A f \in published : f \in dir => f \in dir' \/ Outnumbered(f)
      /\ Listed(dir') \subseteq published
      /\ \A q \in Procs : \A f \in doomed'[q] : Outnumbered(f)
  <2>1. CASE PruneList(p)
    <3>1. dir' = dir /\ doomed' = [doomed EXCEPT ![p] = Discarded(Listed(dir))]
      BY <2>1, Zenon DEF PruneList
    <3>2. ASSUME NEW q \in Procs, NEW f \in doomed'[q] PROVE Outnumbered(f)
      <4>1. f \in doomed[q] \/ f \in Discarded(Listed(dir))
        BY <3>1
      <4>2. f \in Discarded(Listed(dir)) => f \in Listed(dir)
        BY Zenon DEF Discarded
      <4> QED
        BY <1>0, <1>2, <4>1, <4>2, Zenon DEF PruneOk
    <3> QED
      BY <1>0, <3>1, <3>2, Zenon DEF PruneOk
  <2>2. CASE PruneOne(p)
    BY <1>0, <2>2 DEF PruneOne, PruneOk, Listed
  <2>3. CASE PruneDone(p)
    BY <1>0, <2>3, ZenonT(60) DEF PruneDone, PruneOk
  <2>4. CASE Die(p)
    BY <1>0, <2>4 DEF Die, PruneOk
  <2> QED
    BY <2>1, <2>2, <2>3, <2>4, ZenonT(60)
<1>4. PublishedOk' /\ PruneOk' /\ InnermostOnly' /\ NewestKept'
  BY <1>0, <1>1, <1>3, DirStep
<1>5. /\ FfdcType' /\ OnlyProc(p)
      /\ draft'[p] \in {draft[p], NoReport}
      /\ \/ stage'[p] = stage[p] /\ draft'[p] = draft[p]
         \/ stage[p] \in {"published", "pruning"} /\ stage'[p] \in {"pruning", "unwinding"}
         \/ stage'[p] = "dead"
  BY <1>0, <1>1, Zenon DEF PruneList, PruneOne, PruneDone, Die, FfdcType, OnlyProc, Stages
<1>6. UnwindOk(p)'
  <2>1. (Captured(chain[p])' <=> Captured(chain[p])) /\ (Written(p)' <=> Written(p))
        /\ hooked'[p] = hooked[p] /\ fails'[p] = fails[p]
    BY <1>1, Zenon DEF Captured, Written
  <2>2. CASE stage'[p] = stage[p] /\ draft'[p] = draft[p]
    BY <1>0, <1>1, <2>1, <2>2, Zenon DEF UnwindOk, Captured
  <2>3. CASE stage[p] \in {"published", "pruning"} /\ stage'[p] \in {"pruning", "unwinding"}
    <3>1. hooked[p] = 1 /\ Captured(chain[p]) /\ (draft[p] # NoReport => draft[p].ext = "tmp")
      BY <1>0, <2>3, Zenon DEF UnwindOk
    <3>2. hooked[p] # 0
      BY <3>1
    <3> QED
      BY <1>5, <2>1, <2>3, <3>1, <3>2, Zenon DEF UnwindOk, Collecting
  <2>4. CASE stage'[p] = "dead"
    <3>1. draft[p] # NoReport => draft[p].ext = "tmp"
      BY <1>0, Zenon DEF UnwindOk
    <3> QED
      BY <1>5, <2>4, <3>1, Zenon DEF UnwindOk, Collecting
  <2> QED
    BY <1>5, <2>2, <2>3, <2>4
<1> QED
  BY <1>1, <1>4, <1>5, <1>6, OtherProcs DEF FfdcInv

-----------------------------------------------------------------------------
LEMMA FfdcNextHolds == FfdcInv /\ [FfdcNext]_ffdcVars => FfdcInv'
<1> SUFFICES ASSUME FfdcInv, [FfdcNext]_ffdcVars PROVE FfdcInv'
  OBVIOUS
<1>1. CASE UNCHANGED <<stage, chain, hooked, fails, dir, draft, doomed, published, now>>
  BY <1>1, ZenonT(60) DEF FfdcInv, FfdcType, UnwindOk, Written, PublishedOk, PruneOk, Outnumbered,
     InnermostOnly, NewestKept
<1>2. CASE ListReports \/ ReadNext
  BY <1>1, <1>2, Zenon DEF ListReports, ReadNext
<1>3. ASSUME NEW p \in Procs,
             \/ Fail(p) \/ Wrap(p) \/ TryCollect(p) \/ Surface(p)
             \/ OpenDraft(p) \/ DumpJson(p) \/ Replace(p) \/ CollectFails(p)
             \/ PruneList(p) \/ PruneOne(p) \/ PruneDone(p) \/ Die(p)
      PROVE  FfdcInv'
  BY <1>3, UnwindSteps, DraftSteps, ReplaceHolds, PruneSteps, Zenon
<1> QED
  BY <1>1, <1>2, <1>3, Zenon DEF FfdcNext, ffdcVars

LEMMA FfdcInitHolds == FfdcInit => FfdcInv
<1> SUFFICES ASSUME FfdcInit PROVE FfdcInv
  OBVIOUS
<1>1. FfdcType
  BY FS_EmptySet DEF FfdcInit, FfdcType, Stages
<1>2. ASSUME NEW p \in Procs PROVE UnwindOk(p)
  BY ZenonT(60) DEF FfdcInit, UnwindOk, Collecting
<1>3. PublishedOk /\ PruneOk /\ InnermostOnly /\ NewestKept
  BY DEF FfdcInit, PublishedOk, PruneOk, Listed, InnermostOnly, NewestKept
<1> QED
  BY <1>1, <1>2, <1>3 DEF FfdcInv

LEMMA FfdcInvariant == FfdcSpec => []FfdcInv
BY FfdcInitHolds, FfdcNextHolds, PTL DEF FfdcSpec

\* Every report is the only one of its failure and by its innermost hook,
\* however deep the hooks nest and whatever the handlers raise instead.
THEOREM InnermostOnlyAlways == FfdcSpec => []InnermostOnly
<1>1. FfdcInv => InnermostOnly
  BY DEF FfdcInv
<1> QED
  BY <1>1, FfdcInvariant, PTL

\* However many processes prune concurrently, from whatever listings, a report
\* leaves the directory only after Keep later ones were published.
THEOREM NewestKeptAlways == FfdcSpec => []NewestKept
<1>1. FfdcInv => NewestKept
  BY DEF FfdcInv
<1> QED
  BY <1>1, FfdcInvariant, PTL

\* Nothing has a time the clock has not reached, and a report is whole before it
\* is published.
Timely(f) == f.ts <= now /\ f.mtime <= now

WriteOk ==
  /\ \A p \in Procs : /\ draft[p] # NoReport => Timely(draft[p])
                      /\ stage[p] = "dumped" => draft[p].whole
  /\ \A f \in published : Timely(f) /\ f.whole

\* What a reader has listed was published, and what it has passed over is gone.
ReaderType ==
  reader \in [at : {"idle", "reading", "done"}, listed : SUBSET Files, rest : SUBSET Files,
              found : Files \cup {NoReport}]

ReaderOk ==
  /\ ReaderType
  /\ reader.listed \subseteq published /\ reader.rest \subseteq reader.listed
  /\ reader.at = "reading" =>
       /\ reader.found = NoReport
       /\ \A f \in reader.listed \ reader.rest : f \notin dir

ReadInv == WriteOk /\ ReaderOk /\ RetrievalNewest

\* A set of natural numbers that is not empty has a least element ...
LEMMA Least ==
  ASSUME NEW S, S \subseteq Nat, S # {}
  PROVE  \E x \in S : \A y \in S : x <= y
<1> DEFINE Less == {p \in Nat \X Nat : p[1] < p[2]}
<1>1. IsWellFoundedOn(Less, Nat)
  BY NatLessThanWellFounded DEF OpToRel
<1>2. PICK x \in S : \A y \in S : ~(<<y, x>> \in Less)
  <2> HIDE DEF Less
  <2> QED
    BY <1>1, WFMin, Zenon
<1>3. \A y \in S : y < x => <<y, x>> \in Less
  OBVIOUS
<1>4. \A y \in S : ~(y < x)
  <2> HIDE DEF Less
  <2> QED
    BY <1>2, <1>3, Zenon
<1> QED
  BY <1>4

\* ... and a greatest one when it is bounded.
LEMMA Greatest ==
  ASSUME NEW S, NEW b \in Nat, S \subseteq 0 .. b, S # {}
  PROVE  \E x \in S : \A y \in S : y <= x
<1> DEFINE B == {x \in Nat : \A y \in S : y <= x}
<1>1. B \subseteq Nat /\ b \in B
  OBVIOUS
<1>2. PICK x \in B : \A y \in B : x <= y
  BY <1>1, Least, Zenon
<1>3. PICK z \in S : TRUE
  BY ZenonT(60)
<1>4. CASE x \in S
  BY <1>4
<1>5. CASE x \notin S
  <2>1. x # 0
    BY <1>3, <1>5
  <2>2. x - 1 \in B
    BY <1>5, <2>1
  <2> QED
    BY <1>2, <2>2
<1> QED
  BY <1>4, <1>5

\* Some report of a listing has the latest time stamp, and some one the latest
\* modification time.
LEMMA Latest ==
  ASSUME FfdcType, WriteOk, NEW F, F \subseteq published, F # {}
  PROVE  /\ Newest(F) \in F /\ \A g \in F : g.ts <= Newest(F).ts
         /\ \E f \in F : \A g \in F : g.mtime <= f.mtime
<1>1. now \in Nat /\ \A f \in F : f.ts \in 0 .. now /\ f.mtime \in 0 .. now
  BY DEF FfdcType, WriteOk, Timely, Files
<1> DEFINE T == {f.ts : f \in F}
           M == {f.mtime : f \in F}
<1>2. T \subseteq 0 .. now /\ T # {} /\ M \subseteq 0 .. now /\ M # {}
  BY <1>1
<1>3. (\A f \in F : f.ts \in T) /\ (\A x \in T : \E f \in F : x = f.ts)
  OBVIOUS
<1>4. (\A f \in F : f.mtime \in M) /\ (\A x \in M : \E f \in F : x = f.mtime)
  OBVIOUS
<1> HIDE DEF T, M
<1>5. PICK t \in T : \A y \in T : y <= t
  BY <1>1, <1>2, Greatest, Zenon
<1>6. \E f \in F : \A g \in F : g.ts <= f.ts
  BY <1>3, <1>5, Zenon
<1>7. PICK m \in M : \A y \in M : y <= m
  BY <1>1, <1>2, Greatest, Zenon
<1>8. \E f \in F : \A g \in F : g.mtime <= f.mtime
  BY <1>4, <1>7, Zenon
<1> QED
  BY <1>6, <1>8, Zenon DEF Newest

\* What every step of a process leaves a reader: reports are only added to the
\* published ones, and one that is gone from the directory does not return.
Onward ==
  /\ published \subseteq published' /\ UNCHANGED reader
  /\ \A f \in published : f \in dir' => f \in dir

LEMMA OnwardKeeps ==
  ASSUME FfdcInv, FfdcInv', Onward, ReaderOk, RetrievalNewest
  PROVE  ReaderOk' /\ RetrievalNewest'
<1>1. reader' = reader /\ reader.listed \subseteq published /\ published \subseteq published'
  BY DEF Onward, ReaderOk
<1>2. ReaderOk'
  BY <1>1 DEF ReaderOk, ReaderType, Onward
<1>3. ASSUME Cardinality(published \ reader.listed) >= Keep
      PROVE  Cardinality(published' \ reader.listed) >= Keep
  <2>1. published \ reader.listed \subseteq published' \ reader.listed
    BY <1>1, ZenonT(60)
  <2>2. IsFiniteSet(published' \ reader.listed)
    BY FS_Subset, ZenonT(60) DEF FfdcInv, FfdcType
  <2>3. /\ Cardinality(published \ reader.listed) <= Cardinality(published' \ reader.listed)
        /\ IsFiniteSet(published \ reader.listed)
    BY <2>1, <2>2, FS_Subset
  <2>4. /\ Cardinality(published \ reader.listed) \in Nat
        /\ Cardinality(published' \ reader.listed) \in Nat
    BY <2>2, <2>3, FS_CardinalityType
  <2> QED
    BY <1>3, <2>3, <2>4, KeepAssumption
<1>4. \A f \in reader.listed \cap dir' : f \in reader.listed \cap dir
  BY <1>1 DEF Onward
<1> QED
  BY <1>1, <1>2, <1>3, <1>4, Zenon DEF RetrievalNewest

\* A step that writes no file.
LEMMA QuietWrites ==
  ASSUME FfdcInv, WriteOk, NEW p \in Procs,
         \A q \in Procs : draft'[q] \in {draft[q], NoReport},
         \A q \in Procs : stage'[q] = "dumped" => stage[q] = "dumped" /\ draft'[q] = draft[q],
         UNCHANGED <<published, now, reader>>, dir' \subseteq dir
  PROVE  WriteOk' /\ Onward
<1>1. WriteOk'
  BY Zenon DEF WriteOk, Timely
<1>2. Onward
  BY DEF Onward
<1> QED
  BY <1>1, <1>2

LEMMA OpenWrites ==
  ASSUME FfdcInv, WriteOk, NEW p \in Procs, OpenDraft(p) \/ DumpJson(p)
  PROVE  WriteOk' /\ Onward
<1>1. /\ now \in Nat /\ draft \in [Procs -> Files \cup {NoReport}] /\ published \subseteq Files
      /\ stage \in [Procs -> Stages]
  BY DEF FfdcInv, FfdcType
<1>2. UNCHANGED <<published, reader>> /\ now' = now + 1
  BY DEF OpenDraft, DumpJson
<1>3. \A f \in Files : Timely(f) => Timely(f)'
  BY <1>1, <1>2 DEF Timely, Files
<1>4. PICK d \in Files :
        /\ draft' = [draft EXCEPT ![p] = d] /\ d.ext = "tmp" /\ Timely(d)'
        /\ dir' \subseteq dir \cup {d}
        /\ \/ stage' = [stage EXCEPT ![p] = "opened"]
           \/ stage' = [stage EXCEPT ![p] = "dumped"] /\ d.whole
  <2>1. CASE OpenDraft(p)
    <3> DEFINE f == [of |-> <<p, fails[p]>>, hook |-> hooked[p], ts |-> now,
                     mtime |-> now, ext |-> "tmp", whole |-> FALSE]
    <3>1. draft' = [draft EXCEPT ![p] = f] /\ dir' = dir \cup {f} /\ stage' = [stage EXCEPT ![p] = "opened"]
      BY <2>1, ZenonT(60) DEF OpenDraft
    <3>2. f \in Files /\ f.ext = "tmp"
      BY <1>1, ZenonT(60) DEF Files, FfdcInv, FfdcType
    <3>3. f.ts = now /\ f.mtime = now
      OBVIOUS
    <3> HIDE DEF f
    <3>4. PICK d \in Files : d = f
      BY <3>2, Zenon
    <3>5. Timely(d)'
      BY <1>1, <1>2, <3>3, <3>4 DEF Timely
    <3> QED
      BY <3>1, <3>2, <3>4, <3>5, ZenonT(60)
  <2>2. CASE DumpJson(p)
    <3>0. stage[p] = "opened" /\ draft[p] \in Files /\ draft[p].ext = "tmp" /\ Timely(draft[p])
      BY <2>2, NoReportAssumption, ZenonT(60) DEF DumpJson, FfdcInv, UnwindOk, WriteOk
    <3> DEFINE f == [draft[p] EXCEPT !.mtime = now, !.whole = TRUE]
    <3>1. /\ draft' = [draft EXCEPT ![p] = f] /\ dir' = (dir \ {draft[p]}) \cup {f}
          /\ stage' = [stage EXCEPT ![p] = "dumped"]
      BY <2>2 DEF DumpJson
    <3>2. f \in Files /\ f.ext = "tmp" /\ f.whole /\ f.ts = draft[p].ts /\ f.mtime = now
      BY <1>1, <3>0, ZenonT(60) DEF Files
    <3> HIDE DEF f
    <3>3. PICK d \in Files : d = f
      BY <3>2, Zenon
    <3>4. Timely(d)'
      BY <1>1, <1>2, <3>0, <3>2, <3>3 DEF Timely, Files
    <3> QED
      BY <3>1, <3>2, <3>3, <3>4, ZenonT(60)
  <2> QED
    BY <2>1, <2>2
<1>5. draft'[p] = d /\ \A q \in Procs \ {p} : draft'[q] = draft[q] /\ stage'[q] = stage[q]
  BY <1>1, <1>4
<1>6. stage'[p] = "dumped" => d.whole
  BY <1>1, <1>4
<1>7. ASSUME NEW q \in Procs
      PROVE  /\ draft'[q] # NoReport => Timely(draft[q])'
             /\ stage'[q] = "dumped" => draft'[q].whole
  <2>1. CASE q = p
    <3>1. Timely(draft[q])'
      BY <1>4, <1>5, <2>1, ZenonT(60) DEF Timely
    <3> QED
      BY <1>5, <1>6, <2>1, <3>1
  <2>2. CASE q # p
    <3>1. draft'[q] = draft[q] /\ stage'[q] = stage[q]
      BY <1>5, <2>2
    <3>2. draft[q] # NoReport => draft[q] \in Files /\ Timely(draft[q])
      BY <1>1, ZenonT(60) DEF WriteOk
    <3>3. draft[q] # NoReport => Timely(draft[q])'
      BY <1>3, <3>1, <3>2, ZenonT(60) DEF Timely
    <3> QED
      BY <3>1, <3>3, ZenonT(60) DEF WriteOk
  <2> QED
    BY <2>1, <2>2, ZenonT(60)
<1>8. \A f \in published : Timely(f)' /\ f.whole
  BY <1>1, <1>3, ZenonT(60) DEF WriteOk
<1>9. WriteOk'
  BY <1>2, <1>7, <1>8, ZenonT(60) DEF WriteOk
<1>10. \A f \in published : f \in dir' => f \in dir
  BY <1>4 DEF FfdcInv, PublishedOk
<1> QED
  BY <1>2, <1>9, <1>10 DEF Onward

LEMMA ReplaceWrites ==
  ASSUME FfdcInv, WriteOk, NEW p \in Procs, Replace(p)
  PROVE  WriteOk' /\ Onward
<1> DEFINE f == [draft[p] EXCEPT !.ext = "json"]
<1>1. /\ stage[p] = "dumped" /\ stage' = [stage EXCEPT ![p] = "published"]
      /\ dir' = (dir \ {draft[p]}) \cup {f} /\ published' = published \cup {f}
      /\ draft' = [draft EXCEPT ![p] = NoReport] /\ UNCHANGED <<now, reader>>
  BY DEF Replace
<1>2. /\ draft[p] \in Files /\ draft[p].of = <<p, fails[p]>> /\ ~Written(p)
      /\ draft[p].whole /\ Timely(draft[p])
  BY <1>1, NoReportAssumption, ZenonT(60) DEF FfdcInv, UnwindOk, Collecting, WriteOk
<1>3. f.of = <<p, fails[p]>> /\ f.whole = draft[p].whole /\ f.ts = draft[p].ts /\ f.mtime = draft[p].mtime
  BY <1>2, ZenonT(60) DEF Files
<1> HIDE DEF f
<1>4. f \notin published
  BY <1>2, <1>3 DEF Written
<1>5. PICK d : d = f
  BY Zenon
<1>6. Timely(d)' /\ d.whole
  BY <1>1, <1>2, <1>3, <1>5, ZenonT(60) DEF Timely
<1>7. \A g : Timely(g) => Timely(g)'
  BY <1>1 DEF Timely
<1>8. \A q \in Procs : draft'[q] \in {draft[q], NoReport} /\ (stage'[q] = "dumped" => q # p)
  BY <1>1 DEF FfdcInv, FfdcType
<1>9. \A q \in Procs : q # p => stage'[q] = stage[q] /\ draft'[q] = draft[q]
  BY <1>1, ZenonT(60) DEF FfdcInv, FfdcType
<1>10. ASSUME NEW q \in Procs
      PROVE  (draft'[q] # NoReport => Timely(draft[q])') /\ (stage'[q] = "dumped" => draft'[q].whole)
  <2>1. CASE draft'[q] = NoReport
    BY <1>8, <1>9, <2>1, ZenonT(60) DEF WriteOk
  <2>2. CASE draft'[q] # NoReport
    <3>1. draft'[q] = draft[q] /\ draft[q] # NoReport
      BY <1>8, <2>2, ZenonT(60)
    <3>2. Timely(draft[q])'
      BY <1>1, <3>1, ZenonT(60) DEF WriteOk, Timely
    <3> QED
      BY <1>8, <1>9, <3>1, <3>2, ZenonT(60) DEF WriteOk
  <2> QED
    BY <2>1, <2>2
<1>11. WriteOk'
  BY <1>1, <1>5, <1>10, <1>6, <1>7, ZenonT(60) DEF WriteOk
<1> QED
  BY <1>1, <1>4, <1>11 DEF Onward

\* Every step of a process.
LEMMA ProcessWrites ==
  ASSUME FfdcInv, WriteOk, NEW p \in Procs,
         \/ Fail(p) \/ Wrap(p) \/ TryCollect(p) \/ Surface(p)
         \/ OpenDraft(p) \/ DumpJson(p) \/ Replace(p) \/ CollectFails(p)
         \/ PruneList(p) \/ PruneOne(p) \/ PruneDone(p) \/ Die(p)
  PROVE  WriteOk' /\ Onward
<1>1. stage \in [Procs -> Stages] /\ draft \in [Procs -> Files \cup {NoReport}]
  BY DEF FfdcInv, FfdcType
<1>2. CASE OpenDraft(p) \/ DumpJson(p)
  BY <1>2, OpenWrites
<1>3. CASE Replace(p)
  BY <1>3, ReplaceWrites, ZenonT(60)
<1>4. CASE \/ Fail(p) \/ Wrap(p) \/ TryCollect(p) \/ Surface(p) \/ CollectFails(p)
           \/ PruneList(p) \/ PruneOne(p) \/ PruneDone(p) \/ Die(p)
  <2>1. UNCHANGED <<published, now, reader>> /\ dir' \subseteq dir
    BY <1>4, ZenonT(60) DEF Fail, Wrap, TryCollect, Surface, CollectFails, PruneList, PruneOne, PruneDone, Die
  <2>2. \/ UNCHANGED draft
        \/ draft' = [draft EXCEPT ![p] = NoReport] /\ \E s \in {"unwinding", "dead"} : stage' = [stage EXCEPT ![p] = s]
    BY <1>4, Zenon DEF Fail, Wrap, TryCollect, Surface, CollectFails, PruneList, PruneOne, PruneDone, Die
  <2>3. \/ UNCHANGED stage
        \/ \E s \in Stages \ {"dumped"} : stage' = [stage EXCEPT ![p] = s]
    BY <1>4, Zenon DEF Fail, Wrap, TryCollect, Surface, CollectFails, PruneList, PruneOne, PruneDone, Die,
       Stages, Collecting
  <2>4. \A q \in Procs : draft'[q] \in {draft[q], NoReport}
    BY <1>1, <2>2
  <2>5. \A q \in Procs : stage'[q] = "dumped" => stage[q] = "dumped" /\ draft'[q] = draft[q]
    BY <1>1, <2>2, <2>3
  <2> QED
    BY <2>1, <2>4, <2>5, QuietWrites, ZenonT(60)
<1> QED
  BY <1>2, <1>3, <1>4

\* A listing holds published reports only.
LEMMA ListReads == ASSUME FfdcInv, ReadInv, ListReports PROVE ReadInv'
<1>1. /\ reader' = [at |-> "reading", listed |-> Listed(dir), rest |-> Listed(dir), found |-> NoReport]
      /\ UNCHANGED <<stage, draft, dir, published, now>>
  BY DEF ListReports
<1>2. WriteOk'
  BY <1>1, Zenon DEF ReadInv, WriteOk, Timely
<1>3. Listed(dir) \subseteq published /\ published \subseteq Files
  BY DEF FfdcInv, FfdcType, PruneOk
<1>4. ReaderOk'
  BY <1>1, <1>3, ZenonT(60) DEF ReaderOk, ReaderType
<1>5. RetrievalNewest'
  BY <1>1 DEF RetrievalNewest
<1> QED
  BY <1>2, <1>4, <1>5, ZenonT(60) DEF ReadInv

\* When all that was listed is gone, the one of them written last has been
\* outnumbered by reports that were not listed.
LEMMA AllGone ==
  ASSUME FfdcInv, WriteOk, NEW L, L \subseteq published, L # {}, \A f \in L : f \notin dir
  PROVE  Cardinality(published \ L) >= Keep
<1>1. PICK f \in L : \A g \in L : g.mtime <= f.mtime
  BY Latest DEF FfdcInv
<1>2. published \subseteq Files /\ IsFiniteSet(published)
  BY DEF FfdcInv, FfdcType
<1>3. \A g \in published : g.mtime \in Nat
  BY <1>2 DEF Files
<1>4. Newer(published, f) \subseteq published \ L
  BY <1>1, <1>3 DEF Newer
<1>5. Cardinality(Newer(published, f)) >= Keep
  BY <1>1 DEF FfdcInv, NewestKept
<1>6. IsFiniteSet(published \ L)
  BY <1>2, FS_Subset
<1>7. Cardinality(Newer(published, f)) <= Cardinality(published \ L) /\ IsFiniteSet(Newer(published, f))
  BY <1>4, <1>6, FS_Subset
<1>8. Cardinality(Newer(published, f)) \in Nat /\ Cardinality(published \ L) \in Nat
  BY <1>6, <1>7, FS_CardinalityType
<1> QED
  BY <1>5, <1>7, <1>8, KeepAssumption

LEMMA ReadReads == ASSUME FfdcInv, ReadInv, ReadNext PROVE ReadInv'
<1>1. reader.at = "reading" /\ UNCHANGED <<stage, draft, dir, published, now>>
  BY DEF ReadNext
<1>2. WriteOk /\ WriteOk'
  BY <1>1, Zenon DEF ReadInv, WriteOk, Timely
<1>3. /\ ReaderType /\ reader.listed \subseteq published /\ reader.rest \subseteq reader.listed
      /\ reader.found = NoReport /\ \A f \in reader.listed \ reader.rest : f \notin dir
  BY <1>1 DEF ReadInv, ReaderOk
<1>4. CASE reader.rest = {}
  <2>1. reader' = [reader EXCEPT !.at = "done"]
    BY <1>4 DEF ReadNext
  <2>2. /\ ReaderType' /\ reader'.at = "done" /\ reader'.listed = reader.listed
        /\ reader'.rest = reader.rest /\ reader'.found = NoReport
    BY <1>3, <2>1 DEF ReaderType
  <2>3. reader.listed # {} => Cardinality(published \ reader.listed) >= Keep
    BY <1>2, <1>3, <1>4, AllGone
  <2>4. RetrievalNewest'
    BY <1>1, <1>3, <1>4, <2>2, <2>3, ZenonT(60) DEF RetrievalNewest
  <2>5. ReaderOk'
    BY <1>1, <1>3, <2>2 DEF ReaderOk
  <2> QED
    BY <1>2, <2>4, <2>5 DEF ReadInv
<1>5. CASE reader.rest # {}
  <2>1. PICK f : f = Newest(reader.rest)
    BY Zenon
  <2>2. f \in reader.rest /\ \A g \in reader.rest : g.ts <= f.ts
    BY <1>2, <1>3, <1>5, <2>1, Latest, ZenonT(60) DEF FfdcInv
  <2>3. f \in published /\ f \in Files /\ f # NoReport /\ f.whole
    BY <1>2, <1>3, <2>2, NoReportAssumption DEF FfdcInv, FfdcType, WriteOk
  <2>4. CASE f \in dir
    <3>1. reader' = [reader EXCEPT !.at = "done", !.found = f]
      BY <1>5, <2>1, <2>3, <2>4, Zenon DEF ReadNext
    <3>2. /\ ReaderType' /\ reader'.at = "done" /\ reader'.listed = reader.listed
          /\ reader'.rest = reader.rest /\ reader'.found = f
      BY <1>3, <2>3, <3>1, ZenonT(60) DEF ReaderType
    <3>3. \A g \in reader.listed \cap dir : f.ts >= g.ts
      BY <1>3, <2>2 DEF ReaderType, Files
    <3>4. RetrievalNewest'
      BY <1>1, <2>3, <3>2, <3>3, Zenon DEF RetrievalNewest
    <3>5. ReaderOk'
      BY <1>1, <1>3, <3>2 DEF ReaderOk
    <3> QED
      BY <1>2, <3>4, <3>5 DEF ReadInv
  <2>5. CASE f \notin dir
    <3>1. reader' = [reader EXCEPT !.rest = @ \ {f}]
      BY <1>5, <2>1, <2>5, Zenon DEF ReadNext
    <3>2. /\ ReaderType' /\ reader'.at = "reading" /\ reader'.listed = reader.listed
          /\ reader'.rest = reader.rest \ {f} /\ reader'.found = NoReport
      BY <1>1, <1>3, <3>1 DEF ReaderType
    <3>3. RetrievalNewest'
      BY <3>2, ZenonT(60) DEF RetrievalNewest
    <3>4. ReaderOk'
      BY <1>1, <1>3, <2>5, <3>2 DEF ReaderOk
    <3> QED
      BY <1>2, <3>3, <3>4 DEF ReadInv
  <2> QED
    BY <2>4, <2>5
<1> QED
  BY <1>4, <1>5

LEMMA ReadInitHolds == FfdcInit => ReadInv
<1> SUFFICES ASSUME FfdcInit PROVE ReadInv
  OBVIOUS
<1>1. WriteOk
  BY ZenonT(60) DEF FfdcInit, WriteOk
<1>2. ReaderOk
  BY DEF FfdcInit, ReaderOk, ReaderType
<1>3. RetrievalNewest
  BY DEF FfdcInit, RetrievalNewest
<1> QED
  BY <1>1, <1>2, <1>3, ZenonT(60) DEF ReadInv

LEMMA ReadNextHolds == FfdcInv /\ FfdcInv' /\ ReadInv /\ [FfdcNext]_ffdcVars => ReadInv'
<1> SUFFICES ASSUME FfdcInv, FfdcInv', ReadInv, [FfdcNext]_ffdcVars PROVE ReadInv'
  OBVIOUS
<1>1. CASE UNCHANGED ffdcVars
  BY <1>1, Zenon DEF ffdcVars, ReadInv, WriteOk, Timely, ReaderOk, ReaderType, RetrievalNewest
<1>2. CASE ListReports \/ ReadNext
  BY <1>2, ListReads, ReadReads
<1>3. ASSUME NEW p \in Procs,
             \/ Fail(p) \/ Wrap(p) \/ TryCollect(p) \/ Surface(p)
             \/ OpenDraft(p) \/ DumpJson(p) \/ Replace(p) \/ CollectFails(p)
             \/ PruneList(p) \/ PruneOne(p) \/ PruneDone(p) \/ Die(p)
      PROVE  ReadInv'
  <2>1. WriteOk' /\ Onward
    BY <1>3, ProcessWrites DEF ReadInv
  <2> QED
    BY <2>1, OnwardKeeps DEF ReadInv
<1> QED
  BY <1>1, <1>2, <1>3, Zenon DEF FfdcNext

\* Whatever processes write, prune and die while a reader goes through its
\* listing: it returns the newest listed report that is still there, whole, and
\* comes back with nothing only after Keep reports it had not listed.
THEOREM RetrievalNewestAlways == FfdcSpec => []RetrievalNewest
<1>1. ReadInv => RetrievalNewest
  BY DEF ReadInv
<1> QED
  BY <1>1, FfdcInvariant, ReadInitHolds, ReadNextHolds, PTL DEF FfdcSpec
================================================================================
