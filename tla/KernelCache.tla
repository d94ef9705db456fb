------------------------------ MODULE KernelCache ------------------------------
(***************************************************************************)
(* The persistent kernel cache (execution/kernel_cache.py) and the calls   *)
(* of SpyreAsyncCompile that fill and use it (execution/async_compile.py). *)
(*                                                                         *)
(* Each process runs one generated wrapper: it calls sdsc for the kernels  *)
(* of its script, in order, and then wait.  A call is a job.  The cache    *)
(* root holds one committed directory per key, one temporary directory     *)
(* per job that missed, and failed/.  A directory is the set of artifacts  *)
(* in it.  The backend compiler of a job is a worker of its own, in the    *)
(* process pool or inline.                                                 *)
(***************************************************************************)
EXTENDS Naturals, Sequences

CONSTANTS Procs, Jobs, Keys,
          Script,         \* Procs -> the sequence of sdsc calls of its wrapper
          KeyOf,          \* Jobs -> the hash of the specs it compiles
          NoDir,          \* the directory does not exist
          PoolTimeouts,   \* compile_worker_wait_timeout is set
          PartialOutput,  \* dbo-opt may exit 0 without init_binary.bin
          Clearing        \* some process calls clear_cache

ASSUME ScriptAssumption ==
    /\ Script \in [Procs -> Seq(Jobs)]
    /\ KeyOf \in [Jobs -> Keys]
    /\ \A p, q \in Procs : \A i \in DOMAIN Script[p], j \in DOMAIN Script[q] :
          Script[p][i] = Script[q][j] => p = q /\ i = j

ASSUME OptionAssumption ==
    PoolTimeouts \in BOOLEAN /\ PartialOutput \in BOOLEAN /\ Clearing \in BOOLEAN

VARIABLES committed,  \* Keys -> artifacts of <root>/<key>
          names,      \* Keys -> kernel_name.txt of that directory
          tmp,        \* Jobs -> artifacts of <root>/<key>.tmp.<uuid>
          tmpNames,   \* Jobs -> kernel_name.txt of that directory
          failed,     \* jobs whose directory was moved to <root>/failed
          timedOut,   \* jobs whose future ran into the worker timeout
          job,        \* Jobs -> how far the call or its future has come
          worker,     \* Jobs -> the backend compiler of the job
          phase,      \* Procs -> what the wrapper is doing
          at,         \* Procs -> index in the script
          clear       \* a clear_cache call: "no", "running" or "ended"

dirs == <<committed, names, tmp, tmpNames, failed, timedOut>>
cacheVars == <<committed, names, tmp, tmpNames, failed, timedOut, job, worker, phase, at, clear>>

\* What generate_bundle (bundle.mlir with its sdsc_N.json) and
\* save_symbol_kinds write, and what dbo-opt writes.
Frontend == {"bundle.mlir", "symbol_kinds.json"}
Backend == {"init_binary.bin", "spyrecode.json"}
Artifacts == Frontend \cup Backend

\* _REQUIRED_ARTIFACTS.
Required == Artifacts

ASSUME NoDirAssumption == \A d \in SUBSET Artifacts : d # NoDir

Current(p) == Script[p][at[p]]
Running(p, ph) == phase[p] = ph /\ at[p] <= Len(Script[p])
Busy(p) == phase[p] \in {"calling", "waiting", "draining"} /\ at[p] <= Len(Script[p])

CacheInit ==
    /\ committed = [k \in Keys |-> NoDir]
    /\ names = [k \in Keys |-> {}]
    /\ tmp = [j \in Jobs |-> NoDir]
    /\ tmpNames = [j \in Jobs |-> {}]
    /\ failed = {} /\ timedOut = {}
    /\ job = [j \in Jobs |-> "new"]
    /\ worker = [j \in Jobs |-> "none"]
    /\ phase = [p \in Procs |-> "calling"]
    /\ at = [p \in Procs |-> 1]
    /\ clear = "no"

SetJob(j, state) == job' = [job EXCEPT ![j] = state]
Advance(p) == at' = [at EXCEPT ![p] = @ + 1]
SetPhase(p, ph) == phase' = [phase EXCEPT ![p] = ph] /\ at' = [at EXCEPT ![p] = 1]

\* record_kernel_name on a committed directory: never raises, and writes
\* nothing when the directory is not there.
RecordNames(k, ns) ==
    names' = IF committed[k] = NoDir THEN names ELSE [names EXCEPT ![k] = @ \cup ns]

\* _move_to_failed_dir: an OSError, here a directory that is gone, is logged.
MoveToFailed(j) ==
    /\ tmp' = [tmp EXCEPT ![j] = NoDir]
    /\ tmpNames' = [tmpNames EXCEPT ![j] = {}]
    /\ failed' = IF tmp[j] = NoDir THEN failed ELSE failed \cup {j}
    /\ UNCHANGED <<committed, names, timedOut>>

-----------------------------------------------------------------------------
(* sdsc *)

IsHit(k) == committed[k] # NoDir /\ Required \subseteq committed[k]

\* get_cached_kernel_dir finds a complete directory.
LookupHit(p) ==
    LET j == Current(p) IN
    /\ Running(p, "calling") /\ job[j] = "new"
    /\ IsHit(KeyOf[j])
    /\ SetJob(j, "hit")
    /\ UNCHANGED <<dirs, worker, phase, at, clear>>

\* The rest of a hit: record the name, then load_symbol_kinds, which raises
\* when the file has disappeared since the lookup.
UseHit(p) ==
    LET j == Current(p)
        k == KeyOf[j]
        loads == committed[k] # NoDir /\ "symbol_kinds.json" \in committed[k]
    IN  /\ Running(p, "calling") /\ job[j] = "hit"
        /\ RecordNames(k, {j})
        /\ SetJob(j, IF loads THEN "runner" ELSE "failed")
        /\ IF loads THEN Advance(p) /\ UNCHANGED phase ELSE SetPhase(p, "raised")
        /\ UNCHANGED <<committed, tmp, tmpNames, failed, timedOut, worker, clear>>

\* A miss: allocate_compile_dir makes the temporary directory.
LookupMiss(p) ==
    LET j == Current(p) IN
    /\ Running(p, "calling") /\ job[j] = "new"
    /\ ~IsHit(KeyOf[j])
    /\ tmp' = [tmp EXCEPT ![j] = {}]
    /\ tmpNames' = [tmpNames EXCEPT ![j] = {j}]
    /\ SetJob(j, "allocated")
    /\ UNCHANGED <<committed, names, failed, timedOut, worker, phase, at, clear>>

\* _compile_to_dir and save_symbol_kinds.
GenerateBundle(p) ==
    LET j == Current(p) IN
    /\ Running(p, "calling") /\ job[j] = "allocated"
    /\ tmp[j] # NoDir
    /\ tmp' = [tmp EXCEPT ![j] = @ \cup Frontend]
    /\ SetJob(j, "bundled")
    /\ UNCHANGED <<committed, names, tmpNames, failed, timedOut, worker, phase, at, clear>>

\* _submit_backend_compile: to the pool, where sdsc returns a future...
SubmitToPool(p) ==
    LET j == Current(p) IN
    /\ Running(p, "calling") /\ job[j] = "bundled"
    /\ worker' = [worker EXCEPT ![j] = "running"]
    /\ SetJob(j, "pending")
    /\ Advance(p)
    /\ UNCHANGED <<dirs, phase, clear>>

\* ... or inline, where it waits for the compiler.
CompileInline(p) ==
    LET j == Current(p) IN
    /\ Running(p, "calling") /\ job[j] = "bundled"
    /\ worker' = [worker EXCEPT ![j] = "running"]
    /\ SetJob(j, "inline")
    /\ UNCHANGED <<dirs, phase, at, clear>>

InlineDone(p) ==
    LET j == Current(p) IN
    /\ Running(p, "calling") /\ job[j] = "inline" /\ worker[j] = "ok"
    /\ SetJob(j, "compiled")
    /\ UNCHANGED <<dirs, worker, phase, at, clear>>

\* An exception between allocation and commit (generate_bundle's, the pool's
\* or the compiler's): the directory is moved aside and sdsc raises, so that the
\* wrapper never reaches wait.
CallRaises(p) ==
    LET j == Current(p) IN
    /\ Running(p, "calling")
    /\ job[j] \in {"allocated", "bundled"} \/ (job[j] = "inline" /\ worker[j] = "failed")
    /\ MoveToFailed(j)
    /\ SetJob(j, "failed")
    /\ SetPhase(p, "raised")
    /\ UNCHANGED <<worker, clear>>

-----------------------------------------------------------------------------
(* _run_backend_compiler, in the worker *)

WorkerWrites(j, a) ==
    /\ worker[j] = "running" /\ tmp[j] # NoDir
    /\ a \in Backend \ tmp[j]
    /\ tmp' = [tmp EXCEPT ![j] = @ \cup {a}]
    /\ UNCHANGED <<committed, names, tmpNames, failed, timedOut, job, worker, phase, at, clear>>

\* Mutant: the exit status alone decides.
WorkerSucceeds_StatusOnly(j) ==
    /\ worker[j] = "running" /\ tmp[j] # NoDir
    /\ worker' = [worker EXCEPT ![j] = "ok"]
    /\ UNCHANGED <<dirs, job, phase, at, clear>>

\* Exit status 0 and spyrecode.json is there: the success condition.
WorkerSucceeds(j) ==
    /\ worker[j] = "running" /\ tmp[j] # NoDir
    /\ "spyrecode.json" \in tmp[j]
    /\ PartialOutput \/ "init_binary.bin" \in tmp[j]
    /\ worker' = [worker EXCEPT ![j] = "ok"]
    /\ UNCHANGED <<dirs, job, phase, at, clear>>

\* Another exit status, the subprocess timeout, or no spyrecode.json.
WorkerFails(j) ==
    /\ worker[j] = "running"
    /\ worker' = [worker EXCEPT ![j] = "failed"]
    /\ UNCHANGED <<dirs, job, phase, at, clear>>

-----------------------------------------------------------------------------
(* commit_compile_dir, from sdsc or from _SpyreCompileFuture.result *)

\* os.path.isdir(cached_dir): any directory is a lost race, complete or not.
CommitCheck(p) ==
    LET j == Current(p) IN
    /\ Busy(p) /\ job[j] = "compiled"
    /\ SetJob(j, IF committed[KeyOf[j]] # NoDir THEN "lost" ELSE "renaming")
    /\ UNCHANGED <<dirs, worker, phase, at, clear>>

\* os.rename replaces an empty directory and fails on any other.
CommitRename(p) ==
    LET j == Current(p)
        k == KeyOf[j]
    IN  /\ Busy(p) /\ job[j] = "renaming"
        /\ IF tmp[j] # NoDir /\ committed[k] \in {NoDir, {}} /\ names[k] = {}
           THEN /\ committed' = [committed EXCEPT ![k] = tmp[j]]
                /\ names' = [names EXCEPT ![k] = tmpNames[j]]
                /\ tmp' = [tmp EXCEPT ![j] = NoDir]
                /\ tmpNames' = [tmpNames EXCEPT ![j] = {}]
                /\ SetJob(j, "runner")
                /\ Advance(p)
           ELSE SetJob(j, "lost") /\ UNCHANGED <<committed, names, tmp, tmpNames, at>>
        /\ UNCHANGED <<failed, timedOut, worker, phase, clear>>

\* Mutant: the loser is discarded without merging its kernel names.
CommitMerge_DropsNames(p) ==
    LET j == Current(p) IN
    /\ Busy(p) /\ job[j] = "lost"
    /\ SetJob(j, "merged")
    /\ UNCHANGED <<committed, names, tmp, tmpNames, failed, timedOut, worker, phase, at, clear>>

CommitMerge(p) ==
    LET j == Current(p) IN
    /\ Busy(p) /\ job[j] = "lost"
    /\ RecordNames(KeyOf[j], tmpNames[j])
    /\ SetJob(j, "merged")
    /\ UNCHANGED <<committed, tmp, tmpNames, failed, timedOut, worker, phase, at, clear>>

\* rmtree of the loser; the runner points at <root>/<key>.
CommitDiscard(p) ==
    LET j == Current(p) IN
    /\ Busy(p) /\ job[j] = "merged"
    /\ tmp' = [tmp EXCEPT ![j] = NoDir]
    /\ tmpNames' = [tmpNames EXCEPT ![j] = {}]
    /\ SetJob(j, "runner")
    /\ Advance(p)
    /\ UNCHANGED <<committed, names, failed, timedOut, worker, phase, clear>>

-----------------------------------------------------------------------------
(* wait *)

Resolving(p) == phase[p] \in {"waiting", "draining"} /\ at[p] <= Len(Script[p])

\* Every call has been made: upstream wait starts on the first future.
StartWait(p) ==
    /\ phase[p] = "calling" /\ at[p] = Len(Script[p]) + 1
    /\ SetPhase(p, "waiting")
    /\ UNCHANGED <<dirs, job, worker, clear>>

\* Mutant: a future that failed before is waited for again.
SkipResolved_RunnersOnly(p) ==
    /\ Resolving(p) /\ job[Current(p)] = "runner"
    /\ Advance(p)
    /\ UNCHANGED <<dirs, job, worker, phase, clear>>

\* A runner already, or a future that failed before: its result() does no more.
SkipResolved(p) ==
    /\ Resolving(p) /\ job[Current(p)] \in {"runner", "failed"}
    /\ Advance(p)
    /\ UNCHANGED <<dirs, job, worker, phase, clear>>

\* result() of a future whose task succeeded goes on to commit.
ResolveSuccess(p) ==
    LET j == Current(p) IN
    /\ Resolving(p) /\ job[j] = "pending" /\ worker[j] = "ok"
    /\ SetJob(j, "compiled")
    /\ UNCHANGED <<dirs, worker, phase, at, clear>>

\* Mutant: no drain, the first exception leaves wait at once.
AfterException_Stops(p) ==
    /\ phase' = [phase EXCEPT ![p] = "draining"]
    /\ at' = [at EXCEPT ![p] = Len(Script[p]) + 1]

\* The first exception ends upstream's wait and starts the drain; while
\* draining exceptions are swallowed.
AfterException(p) ==
    IF phase[p] = "waiting" THEN SetPhase(p, "draining") ELSE Advance(p) /\ UNCHANGED phase

ResolveFailure(p) ==
    LET j == Current(p) IN
    /\ Resolving(p) /\ job[j] = "pending" /\ worker[j] = "failed"
    /\ MoveToFailed(j)
    /\ SetJob(j, "failed")
    /\ AfterException(p)
    /\ UNCHANGED <<worker, clear>>

\* Mutant: a timeout is treated like any other failure.
ResolveTimeout_MovesDir(p) ==
    LET j == Current(p) IN
    /\ PoolTimeouts
    /\ Resolving(p) /\ job[j] = "pending" /\ worker[j] = "running"
    /\ MoveToFailed(j)
    /\ AfterException(p)
    /\ UNCHANGED <<job, worker, clear>>

\* FuturesTimeoutError: the worker is still active, its directory stays.
ResolveTimeout(p) ==
    LET j == Current(p) IN
    /\ PoolTimeouts
    /\ Resolving(p) /\ job[j] = "pending" /\ worker[j] = "running"
    /\ AfterException(p)
    /\ timedOut' = timedOut \cup {j}
    /\ UNCHANGED <<committed, names, tmp, tmpNames, failed, job, worker, clear>>

\* Mutant: the first exception is forgotten after the drain.
EndWait_Swallows(p) ==
    /\ phase[p] \in {"waiting", "draining"} /\ at[p] = Len(Script[p]) + 1
    /\ SetPhase(p, "returned")
    /\ UNCHANGED <<dirs, job, worker, clear>>

\* wait returns, or raises the first exception; the pending list is cleared.
EndWait(p) ==
    /\ phase[p] \in {"waiting", "draining"} /\ at[p] = Len(Script[p]) + 1
    /\ SetPhase(p, IF phase[p] = "waiting" THEN "returned" ELSE "raised")
    /\ UNCHANGED <<dirs, job, worker, clear>>

-----------------------------------------------------------------------------
(* The environment *)

\* A process is killed; what it left on disk stays.
Crash(p) ==
    /\ phase[p] \in {"calling", "waiting", "draining"}
    /\ phase' = [phase EXCEPT ![p] = "crashed"]
    /\ UNCHANGED <<dirs, job, worker, at, clear>>

\* clear_cache: rmtree takes the files of every directory one at a time, the
\* directory last; it may be killed, or give up on an error, at any point.
ClearStart ==
    /\ Clearing /\ clear = "no"
    /\ clear' = "running"
    /\ UNCHANGED <<dirs, job, worker, phase, at>>

ClearCommitted(k) ==
    /\ clear = "running" /\ committed[k] # NoDir
    /\ \/ /\ committed[k] = {} /\ names[k] = {}
          /\ committed' = [committed EXCEPT ![k] = NoDir]
          /\ UNCHANGED names
       \/ /\ \E a \in committed[k] : committed' = [committed EXCEPT ![k] = @ \ {a}]
          /\ UNCHANGED names
       \/ /\ names' = [names EXCEPT ![k] = {}]
          /\ UNCHANGED committed
    /\ UNCHANGED <<tmp, tmpNames, failed, timedOut, job, worker, phase, at, clear>>

ClearTmp(j) ==
    /\ clear = "running" /\ tmp[j] # NoDir
    /\ \/ /\ tmp[j] = {} /\ tmpNames[j] = {}
          /\ tmp' = [tmp EXCEPT ![j] = NoDir]
          /\ UNCHANGED tmpNames
       \/ /\ \E a \in tmp[j] : tmp' = [tmp EXCEPT ![j] = @ \ {a}]
          /\ UNCHANGED tmpNames
       \/ /\ tmpNames' = [tmpNames EXCEPT ![j] = {}]
          /\ UNCHANGED tmp
    /\ UNCHANGED <<committed, names, failed, timedOut, job, worker, phase, at, clear>>

ClearEnd ==
    /\ clear = "running"
    /\ clear' = "ended"
    /\ UNCHANGED <<dirs, job, worker, phase, at>>

-----------------------------------------------------------------------------
Sdsc(p) ==
    \/ LookupHit(p) \/ UseHit(p) \/ LookupMiss(p) \/ GenerateBundle(p)
    \/ SubmitToPool(p) \/ CompileInline(p) \/ InlineDone(p) \/ CallRaises(p)

Commit(p) == CommitCheck(p) \/ CommitRename(p) \/ CommitMerge(p) \/ CommitDiscard(p)

Wait(p) ==
    \/ StartWait(p) \/ SkipResolved(p) \/ ResolveSuccess(p) \/ ResolveFailure(p)
    \/ ResolveTimeout(p) \/ EndWait(p)

Worker(j) == WorkerSucceeds(j) \/ WorkerFails(j) \/ \E a \in Backend : WorkerWrites(j, a)

Clear ==
    \/ ClearStart \/ ClearEnd
    \/ \E k \in Keys : ClearCommitted(k)
    \/ \E j \in Jobs : ClearTmp(j)

CacheNext ==
    \/ \E p \in Procs : Sdsc(p) \/ Commit(p) \/ Wait(p) \/ Crash(p)
    \/ \E j \in Jobs : Worker(j)
    \/ Clear

CacheSpec == CacheInit /\ [][CacheNext]_cacheVars

\* A wrapper that is not killed goes on, and dbo-opt ends: it runs under a
\* timeout of its own.
CacheFairSpec ==
    /\ CacheSpec
    /\ \A p \in Procs : WF_cacheVars(Sdsc(p) \/ Commit(p) \/ Wait(p))
    /\ \A j \in Jobs : WF_cacheVars(WorkerSucceeds(j) \/ WorkerFails(j))

-----------------------------------------------------------------------------
\* Publication is atomic, whoever is killed and wherever compiles of a key
\* race: a committed directory always holds every required artifact, and a
\* runner that sdsc or wait handed out points at one.
CompleteEntries ==
    /\ \A k \in Keys : committed[k] # NoDir => Required \subseteq committed[k]
    /\ \A j \in Jobs : job[j] = "runner" => committed[KeyOf[j]] # NoDir

\* "do not move its directory out from underneath it": while the backend
\* compiler runs, no commit, discard or move to failed/ touches the directory
\* it writes to, not even after its parent timed out, raised or was killed.
WorkerUndisturbed ==
    \A j \in Jobs : worker[j] = "running" => tmp[j] # NoDir /\ j \notin failed

\* "merge our recorded kernel names into the winner's file so no name is lost":
\* every kernel that got its runner is listed in the directory it uses.
NameKept == \A j \in Jobs : job[j] = "runner" => j \in names[KeyOf[j]]

\* "Resolve every submitted Spyre future so successful cache entries are
\* committed and every other failed .tmp entry is moved aside before preserving
\* the first exception": when wait is about to return or to raise, no future is
\* left with its directory, except where the worker timeout struck.
WaitSettlesAll ==
    \A p \in Procs :
        phase[p] \in {"waiting", "draining"} /\ at[p] = Len(Script[p]) + 1 =>
            \A i \in DOMAIN Script[p] :
                \/ job[Script[p][i]] \in {"runner", "failed"} /\ tmp[Script[p][i]] = NoDir
                \/ Script[p][i] \in timedOut

\* wait raises exactly when some kernel failed: a wrapper that went on has a
\* runner for each of its kernels.
ReturnsRunners ==
    \A p \in Procs :
        phase[p] = "returned" => \A i \in DOMAIN Script[p] : job[Script[p][i]] = "runner"

\* A wrapper that is not killed comes to an end, the drain after a failure
\* included.
WrapperEnds == \A p \in Procs : <>(phase[p] \in {"returned", "raised", "crashed"})

\* "A partial write from a killed process will fail this check and trigger
\* recompilation": the recompilation repairs the entry, so that a complete
\* compile ends with a complete directory behind its key.
RecompileRepairs ==
    \A j \in Jobs : job[j] = "merged" /\ tmp[j] # NoDir /\ Required \subseteq tmp[j] => IsHit(KeyOf[j])
================================================================================
