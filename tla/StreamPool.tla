------------------------------- MODULE StreamPool -------------------------------
(***************************************************************************)
(* The process-wide stream pool of csrc/spyre_stream.cpp: lazy, once-only  *)
(* initialisation, round-robin hand-out of stream ids, creation of flex    *)
(* handles on first use, submission of work and synchronizeDevice.         *)
(*                                                                         *)
(* A call that needs the pool finds the device's once_flag, runs call_once *)
(* and then enters a critical section of its own.  The flag is looked up   *)
(* in an unordered_map without a lock, so two threads that insert into it  *)
(* at the same time race: each may end up with a flag the map forgot.  The *)
(* flex runtime (streams and the completion of work) is external.          *)
(***************************************************************************)
EXTENDS Integers, Sequences

CONSTANTS Threads, Devices, Ops,
          NumLow, NumHigh, NumHost,  \* streams of each class
          Priorities,                \* priorities callers of the pool ask for
          CreateFails,               \* createStream, or reading the environment, may throw
          MaxPicks,                  \* bound: no id is picked more than about this often
          None

ASSUME SizeAssumption == NumLow \in Nat \ {0} /\ NumHigh \in Nat \ {0} /\ NumHost \in Nat \ {0}
ASSUME ArgumentAssumption ==
    Priorities \subseteq Int /\ CreateFails \in BOOLEAN /\ MaxPicks \in Nat

VARIABLES initialized,  \* initialized_device_index, None while pool.initialized is false
          flags,        \* devices with a once_flag in device_init_flags
          once,         \* devices whose flag in the map is spent
          handle,       \* stream_handle_map: id -> [serial, priority], or None
          created,      \* flex streams made so far
          pool,         \* class -> device -> the ids it hands out, in order
          next,         \* class -> device -> round-robin position
          picked,       \* id -> how often the round robin chose it
          call,         \* thread -> the call it is in, or None
          held,         \* thread -> <<device, id>> of the streams it was given
          rejected,     \* devices for which a call threw "already called"
          work,         \* op -> the <<device, id>> it was queued on, or None
          done,         \* ops that have completed
          sync          \* thread -> the synchronizeDevice call it is in, or None

poolState == <<initialized, flags, once, handle, created, pool, next>>
vars == <<initialized, flags, once, handle, created, pool, next, picked, call, held,
          rejected, work, done, sync>>

LastId == NumLow + NumHigh + NumHost
Ids == 0 .. LastId
HostStart == NumLow + NumHigh + 1
Classes == {"low", "high", "host"}

StreamHandle == [serial : Nat, priority : {"NORMAL", "HIGH"}]
PoolCall == [fn : {"default", "host", "pool"}, dev : Devices, prio : Priorities,
             at : {"lookup", "inserting", "flag", "own flag", "ready"}]
SyncCall == [left : SUBSET Ids, before : SUBSET Ops]

ASSUME NoneAssumption ==
    /\ None \notin Devices /\ None \notin Devices \X Ids
    /\ None \notin StreamHandle /\ None \notin PoolCall /\ None \notin SyncCall

\* n ids from first on, in order.
IdList(first, n) == [i \in 1 .. n |-> first + i - 1]

Init ==
    /\ initialized = None /\ flags = {} /\ once = {}
    /\ handle = [id \in Ids |-> None] /\ created = 0
    /\ pool = [c \in Classes |-> [d \in Devices |-> <<>>]]
    /\ next = [c \in Classes |-> [d \in Devices |-> 1]]
    /\ picked = [id \in Ids |-> 0]
    /\ call = [t \in Threads |-> None]
    /\ held = [t \in Threads |-> {}]
    /\ rejected = {}
    /\ work = [o \in Ops |-> None] /\ done = {}
    /\ sync = [t \in Threads |-> None]

Idle(t) == call[t] = None /\ sync[t] = None
In(t, where) == call[t] # None /\ call[t].at = where
Goto(t, where) == call' = [call EXCEPT ![t].at = where]
Return(t) == call' = [call EXCEPT ![t] = None]

-----------------------------------------------------------------------------
(* getDefaultStream, getHostComputeStream, getStreamFromPool *)

Call(t, fn, d, p) ==
    /\ Idle(t) /\ \A id \in Ids : picked[id] < MaxPicks
    /\ fn # "pool" => p = 0
    /\ call' = [call EXCEPT ![t] = [fn |-> fn, dev |-> d, prio |-> p, at |-> "lookup"]]
    /\ UNCHANGED <<poolState, picked, held, rejected, work, done, sync>>

\* initializeStreamPool: device_init_flags[device_index] ...
FindFlag(t) ==
    /\ In(t, "lookup")
    /\ Goto(t, IF call[t].dev \in flags THEN "flag" ELSE "inserting")
    /\ UNCHANGED <<poolState, picked, held, rejected, work, done, sync>>

\* ... which inserts a flag.  Racing insertions may leave the thread with a
\* flag of its own.
InsertFlag(t) ==
    LET racing == \/ call[t].dev \in flags
                  \/ \E u \in Threads \ {t} : In(u, "inserting")
    IN  /\ In(t, "inserting")
        /\ flags' = flags \cup {call[t].dev}
        /\ \E where \in {"flag"} \cup (IF racing THEN {"own flag"} ELSE {}) : Goto(t, where)
        /\ UNCHANGED <<initialized, once, handle, created, pool, next, picked, held,
                       rejected, work, done, sync>>

\* call_once on a spent flag.
AlreadyInitialized(t) ==
    /\ In(t, "flag") /\ call[t].dev \in once
    /\ Goto(t, "ready")
    /\ UNCHANGED <<poolState, picked, held, rejected, work, done, sync>>

RunsImpl(t) == In(t, "own flag") \/ (In(t, "flag") /\ call[t].dev \notin once)

\* TORCH_CHECK(!pool.initialized).
InitGuard == initialized = None

\* initializeStreamPoolImpl throws.
InitRejected(t) ==
    /\ RunsImpl(t) /\ ~InitGuard
    /\ rejected' = rejected \cup {call[t].dev}
    /\ Return(t)
    /\ UNCHANGED <<poolState, picked, held, work, done, sync>>

\* initializeStreamPoolImpl: initialized is set first, then the default
\* stream is registered and the host streams are created one by one.  It ends
\* early, and the once_flag stays unspent, when one of them throws.
InitImpl(t) ==
    LET d == call[t].dev IN
    /\ RunsImpl(t) /\ InitGuard
    /\ initialized' = d
    /\ \E n \in (IF CreateFails THEN 0 ELSE NumHost) .. NumHost :
         /\ handle' = [id \in Ids |->
                         IF id \in {0} \cup HostStart .. (HostStart + n - 1)
                         THEN [serial |-> IF id = 0 THEN 0 ELSE created + id - HostStart + 1,
                               priority |-> "NORMAL"]
                         ELSE handle[id]]
         /\ created' = created + n
         /\ IF n = NumHost
            THEN /\ pool' = [pool EXCEPT !["low"][d] = IdList(1, NumLow),
                                         !["high"][d] = IdList(NumLow + 1, NumHigh),
                                         !["host"][d] = IdList(HostStart, NumHost)]
                 /\ once' = IF In(t, "flag") THEN once \cup {d} ELSE once
                 /\ Goto(t, "ready")
            ELSE /\ pool' = [pool EXCEPT !["host"][d] = IdList(HostStart, n)]
                 /\ Return(t) /\ UNCHANGED once
    /\ UNCHANGED <<flags, next, picked, held, rejected, work, done, sync>>

GetDefault(t) ==
    /\ In(t, "ready") /\ call[t].fn = "default"
    /\ held' = [held EXCEPT ![t] = @ \cup {<<call[t].dev, 0>>}]
    /\ Return(t)
    /\ UNCHANGED <<poolState, picked, rejected, work, done, sync>>

Class(c) == CASE c.fn = "host" -> "host"
              [] c.fn = "pool" /\ c.prio = 0 -> "low"
              [] c.fn = "pool" /\ c.prio # 0 -> "high"

\* Mutant: the index wraps one short of the list.
Following_OffByOne(i, list) == IF i + 1 >= Len(list) THEN 1 ELSE i + 1

\* idx = (idx + 1) % streams.size(), counting from 1.
Following(i, list) == (i % Len(list)) + 1

\* The flex handle of an id is created when the id is first handed out.
Register(id, p) ==
    IF handle[id] # None
    THEN UNCHANGED <<handle, created>>
    ELSE /\ handle' = [handle EXCEPT ![id] = [serial |-> created + 1,
                                              priority |-> IF p < 0 THEN "HIGH" ELSE "NORMAL"]]
         /\ created' = created + 1

\* Mutant: an id whose createStream threw is returned all the same.
PickStream_Swallows(t) ==
    LET c == Class(call[t])
        d == call[t].dev
        id == pool[c][d][next[c][d]]
    IN  /\ In(t, "ready") /\ call[t].fn \in {"host", "pool"}
        /\ next' = [next EXCEPT ![c][d] = Following(@, pool[c][d])]
        /\ picked' = [picked EXCEPT ![id] = @ + 1]
        /\ \/ Register(id, call[t].prio)
           \/ CreateFails /\ handle[id] = None /\ UNCHANGED <<handle, created>>
        /\ held' = [held EXCEPT ![t] = @ \cup {<<d, id>>}]
        /\ Return(t)
        /\ UNCHANGED <<initialized, flags, once, pool, rejected, work, done, sync>>

\* The round robin moves on before createStream is called, which may throw.
PickStream(t) ==
    LET c == Class(call[t])
        d == call[t].dev
        id == pool[c][d][next[c][d]]
    IN  /\ In(t, "ready") /\ call[t].fn \in {"host", "pool"}
        /\ next' = [next EXCEPT ![c][d] = Following(@, pool[c][d])]
        /\ picked' = [picked EXCEPT ![id] = @ + 1]
        /\ \/ /\ Register(id, call[t].prio)
              /\ held' = [held EXCEPT ![t] = @ \cup {<<d, id>>}]
           \/ /\ CreateFails /\ handle[id] = None
              /\ UNCHANGED <<handle, created, held>>
        /\ Return(t)
        /\ UNCHANGED <<initialized, flags, once, pool, rejected, work, done, sync>>

-----------------------------------------------------------------------------
\* A launch or copy on a stream the thread holds: resolveRuntimeHandle throws
\* when the id has no handle, otherwise flex queues the operation.
Submit(t, s, o) ==
    /\ Idle(t) /\ s \in held[t] /\ work[o] = None
    /\ handle[s[2]] # None
    /\ work' = [work EXCEPT ![o] = s]
    /\ UNCHANGED <<poolState, picked, call, held, rejected, done, sync>>

Queued(o) == work[o] # None /\ o \notin done

Complete(o) ==
    /\ Queued(o)
    /\ done' = done \cup {o}
    /\ UNCHANGED <<poolState, picked, call, held, rejected, work, sync>>

\* Mutant: host compute streams are left out of the snapshot.
Registered_NoHost(d) ==
    {id \in Ids : /\ handle[id] # None
                  /\ id = 0 \/ \E c \in {"low", "high"} : \E i \in DOMAIN pool[c][d] : pool[c][d][i] = id}

\* The streams of a device that have a handle, the default one included.
Registered(d) ==
    {id \in Ids : /\ handle[id] # None
                  /\ id = 0 \/ \E c \in Classes : \E i \in DOMAIN pool[c][d] : pool[c][d][i] = id}

\* synchronizeDevice takes a snapshot under the shared lock ...
SyncSnapshot(t, d) ==
    /\ Idle(t)
    /\ sync' = [sync EXCEPT ![t] = [left |-> Registered(d),
                                    before |-> {o \in Ops : Queued(o) /\ work[o][1] = d}]]
    /\ UNCHANGED <<poolState, picked, call, held, rejected, work, done>>

\* ... and synchronises the handles in the order collected, which is that of
\* the ids, without it.
SyncOne(t, id) ==
    /\ sync[t] # None /\ id \in sync[t].left /\ \A i \in sync[t].left : id <= i
    /\ \A o \in Ops : Queued(o) => work[o][2] # id
    /\ sync' = [sync EXCEPT ![t].left = @ \ {id}]
    /\ UNCHANGED <<poolState, picked, call, held, rejected, work, done>>

SyncReturn(t) ==
    /\ sync[t] # None /\ sync[t].left = {}
    /\ sync' = [sync EXCEPT ![t] = None]
    /\ UNCHANGED <<poolState, picked, call, held, rejected, work, done>>

-----------------------------------------------------------------------------
Initialize(t) ==
    FindFlag(t) \/ InsertFlag(t) \/ AlreadyInitialized(t) \/ InitRejected(t) \/ InitImpl(t)

Next ==
    \/ \E t \in Threads :
         \/ \E fn \in {"default", "host", "pool"}, d \in Devices, p \in Priorities : Call(t, fn, d, p)
         \/ Initialize(t) \/ GetDefault(t) \/ PickStream(t)
         \/ \E s \in held[t], o \in Ops : Submit(t, s, o)
         \/ \E d \in Devices : SyncSnapshot(t, d)
         \/ \E id \in Ids : SyncOne(t, id)
         \/ SyncReturn(t)
    \/ \E o \in Ops : Complete(o)

Spec == Init /\ [][Next]_vars

-----------------------------------------------------------------------------
\* A stream that any call handed out belongs to the one device the pool was
\* initialised for and resolves to a flex stream of its own, so that work on
\* two streams is never ordered by accident: with two threads racing to
\* initialise for different devices, with the handle created under the pool's
\* lock after an index that moved on before a failing createStream, and
\* whatever initialisation threw half way.
HeldResolves ==
    \A t \in Threads : \A s \in held[t] :
        /\ s[1] = initialized /\ handle[s[2]] # None
        /\ \A id \in Ids \ {s[2]} :
             handle[id] # None => handle[id].serial # handle[s[2]].serial

\* The pool is round-robin across all threads: no stream of a class is ever
\* two turns ahead of another one, and where the next call begins is a stream
\* of the list.
RoundRobin ==
    /\ \A c \in Classes, d \in Devices :
         \A i, j \in DOMAIN pool[c][d] : picked[pool[c][d][i]] <= picked[pool[c][d][j]] + 1
    /\ \A t \in Threads : In(t, "ready") =>
         \A c \in Classes : next[c][call[t].dev] \in DOMAIN pool[c][call[t].dev]

\* When synchronizeDevice returns, everything that had been queued on any
\* stream of the device when it was called has completed, although the lock
\* is released before the first wait and streams are created meanwhile.
SyncCovers ==
    \A t \in Threads :
        sync[t] # None /\ sync[t].left = {} => sync[t].before \subseteq done

\* "The default stream is stream ID 0 and is always available" and pool
\* initialisation is "executed once per device": no call for the device the
\* pool was initialised for is turned away with "already called".
AlwaysAvailable == initialized \notin rejected
================================================================================
