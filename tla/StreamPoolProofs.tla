--------------------------- MODULE StreamPoolProofs ----------------------------
(*****************************************************************************)
(* Proofs about StreamPool and StreamContext, for any number of threads,     *)
(* devices, operations, streams of each class and nested blocks.             *)
(*****************************************************************************)
EXTENDS StreamPool, StreamContext, TLAPS

PoolTypeOK ==
    /\ initialized \in Devices \cup {None}
    /\ flags \subseteq Devices /\ once \subseteq Devices /\ rejected \subseteq Devices
    /\ handle \in [Ids -> StreamHandle \cup {None}] /\ created \in Nat
    /\ pool \in [Classes -> [Devices -> Seq(Ids)]]
    /\ next \in [Classes -> [Devices -> Nat]]
    /\ picked \in [Ids -> Nat]
    /\ call \in [Threads -> PoolCall \cup {None}]
    /\ held \in [Threads -> SUBSET (Devices \X Ids)]
    /\ work \in [Ops -> (Devices \X Ids) \cup {None}] /\ done \subseteq Ops
    /\ sync \in [Threads -> SyncCall \cup {None}]

\* The block of ids of a class.
First(c) == IF c = "low" THEN 1 ELSE IF c = "high" THEN NumLow + 1 ELSE HostStart
Size(c) == IF c = "low" THEN NumLow ELSE IF c = "high" THEN NumHigh ELSE NumHost

\* Only the device the pool was initialised for has lists, each an initial
\* part of its class's block.
ListsInv ==
    \A c \in Classes, d \in Devices :
        /\ Len(pool[c][d]) <= Size(c)
        /\ \A i \in 1 .. Len(pool[c][d]) : pool[c][d][i] = First(c) + i - 1
        /\ d # initialized => Len(pool[c][d]) = 0

Full(d) == \A c \in Classes : Len(pool[c][d]) = Size(c)

\* A spent flag, and a call that has passed initialisation, mean that the
\* whole pool was built for the device.
ReadyInv ==
    /\ \A d \in once : d = initialized /\ Full(d)
    /\ \A t \in Threads :
         In(t, "ready") => call[t].dev = initialized /\ Full(initialized)

\* No two ids share a flex stream, and no future one takes a serial in use.
HandleInv ==
    /\ initialized = None => created = 0 /\ \A id \in Ids : handle[id] = None
    /\ initialized # None => handle[0] # None
    /\ \A id \in Ids : handle[id] # None => handle[id].serial <= created
    /\ \A id, other \in Ids :
         handle[id] # None /\ handle[other] # None /\ id # other =>
             handle[id].serial # handle[other].serial

InPool(d, id) ==
    id = 0 \/ \E c \in Classes : \E i \in 1 .. Len(pool[c][d]) : pool[c][d][i] = id

\* A stream the snapshot of synchronizeDevice contains.
Live(s) == s[1] = initialized /\ handle[s[2]] # None /\ InPool(s[1], s[2])

LiveInv ==
    /\ \A t \in Threads : \A s \in held[t] : Live(s)
    /\ \A o \in Ops : work[o] # None => Live(work[o])

\* The streams before the next one are exactly one turn ahead.
TurnInv ==
    /\ \A c \in Classes, d \in Devices :
         next[c][d] \in 1 .. Size(c) /\ (d # initialized => next[c][d] = 1)
    /\ initialized = None => \A id \in Ids : picked[id] = 0
    /\ initialized # None =>
         \A c \in Classes : \A i, j \in 1 .. Size(c) : i < j =>
             picked[First(c) + i - 1] = picked[First(c) + j - 1]
                 + (IF i < next[c][initialized] /\ next[c][initialized] <= j THEN 1 ELSE 0)

\* What the snapshot was about is done or on a stream still to be waited for.
SyncInv ==
    \A t \in Threads : sync[t] # None =>
        \A o \in sync[t].before :
            o \in done \/ (work[o] # None /\ work[o][2] \in sync[t].left)

PoolInv ==
    PoolTypeOK /\ ListsInv /\ ReadyInv /\ HandleInv /\ LiveInv /\ TurnInv /\ SyncInv

-----------------------------------------------------------------------------
LEMMA ClassBlocks ==
    ASSUME NEW c \in Classes
    PROVE  /\ First(c) \in Nat /\ Size(c) \in Nat /\ First(c) >= 1 /\ Size(c) >= 1
           /\ First(c) + Size(c) - 1 <= LastId /\ LastId \in Nat
BY SizeAssumption DEF Classes, First, Size, HostStart, LastId

\* An id belongs to one position of one class.
LEMMA BlocksDisjoint ==
    ASSUME NEW c \in Classes, NEW e \in Classes, NEW i \in 1 .. Size(c), NEW j \in 1 .. Size(e),
           First(c) + i - 1 = First(e) + j - 1
    PROVE  c = e /\ i = j
BY SizeAssumption DEF Classes, First, Size, HostStart

LEMMA InitPoolInv == Init => PoolInv
<1> SUFFICES ASSUME Init PROVE PoolInv
  OBVIOUS
<1> USE NoneAssumption
<1>1. PoolTypeOK
  BY DEF Init, PoolTypeOK, Ids, Classes
<1>2. ListsInv
  BY ClassBlocks DEF Init, ListsInv
<1>3. ReadyInv /\ HandleInv /\ LiveInv /\ SyncInv
  BY DEF Init, ReadyInv, HandleInv, LiveInv, SyncInv, In
<1>4. TurnInv
  BY ClassBlocks DEF Init, TurnInv
<1> QED
  BY <1>1, <1>2, <1>3, <1>4 DEF PoolInv

\* What a step that leaves the pool's own state alone cannot disturb.
LEMMA PoolFrame ==
    ASSUME PoolInv, UNCHANGED <<initialized, handle, created, pool, next, picked>>
    PROVE  /\ ListsInv' /\ HandleInv' /\ TurnInv'
           /\ \A d : Full(d)' <=> Full(d)
           /\ \A s : Live(s)' <=> Live(s)
<1>1. ListsInv' /\ HandleInv' /\ TurnInv'
  BY DEF PoolInv, ListsInv, HandleInv, TurnInv
<1>2. \A d : Full(d)' <=> Full(d)
  BY DEF Full
<1>3. \A s : Live(s)' <=> Live(s)
  BY DEF Live, InPool
<1> QED
  BY <1>1, <1>2, <1>3

\* A call moves to another point, or ends, without touching the pool.
LEMMA CallStep ==
    ASSUME PoolInv, NEW t \in Threads, NEW c \in PoolCall \cup {None},
           call' = [call EXCEPT ![t] = c],
           c # None /\ c.at = "ready" => c.dev = initialized /\ Full(initialized),
           flags' \subseteq Devices, rejected' \subseteq Devices,
           UNCHANGED <<initialized, once, handle, created, pool, next, picked, held, work, done, sync>>
    PROVE  PoolInv'
<1>1. PoolTypeOK'
  BY DEF PoolInv, PoolTypeOK
<1>2. ListsInv' /\ HandleInv' /\ TurnInv'
  BY PoolFrame
<1>3. ReadyInv'
  <2>1. \A u \in Threads : call'[u] = IF u = t THEN c ELSE call[u]
    BY DEF PoolInv, PoolTypeOK
  <2> QED
    BY <2>1, PoolFrame DEF PoolInv, ReadyInv, In
<1>4. LiveInv'
  BY PoolFrame DEF PoolInv, LiveInv
<1>5. SyncInv'
  BY DEF PoolInv, SyncInv
<1> QED
  BY <1>1, <1>2, <1>3, <1>4, <1>5 DEF PoolInv

\* Moving a call to another point leaves its arguments alone.
LEMMA GotoCall ==
    ASSUME PoolTypeOK, NEW t \in Threads, call[t] \in PoolCall,
           NEW where \in {"lookup", "inserting", "flag", "own flag", "ready"}, Goto(t, where)
    PROVE  \E c \in PoolCall :
             /\ call' = [call EXCEPT ![t] = c]
             /\ c.at = where /\ c.dev = call[t].dev
<1>1. ASSUME NEW r \in PoolCall
      PROVE  /\ [r EXCEPT !.at = where] \in PoolCall
             /\ [r EXCEPT !.at = where].at = where /\ [r EXCEPT !.at = where].dev = r.dev
  BY Zenon DEF PoolCall
<1>2. call' = [call EXCEPT ![t] = [call[t] EXCEPT !.at = where]]
  BY Zenon DEF Goto
<1> QED
  BY <1>1, <1>2, Zenon

\* initializeStreamPoolImpl: the first initialisation, complete or cut short.
LEMMA InitImplStep ==
    ASSUME PoolInv, NEW t \in Threads, InitImpl(t)
    PROVE  PoolInv'
<1> USE NoneAssumption, SizeAssumption
<1>0. call[t] \in PoolCall /\ initialized = None
  BY Zenon DEF InitImpl, InitGuard, RunsImpl, In, PoolInv, PoolTypeOK
<1>1. PICK d \in Devices : d = call[t].dev /\ initialized = None /\ initialized' = d
  BY <1>0, Zenon DEF PoolCall, InitImpl
<1>2. PICK n \in (IF CreateFails THEN 0 ELSE NumHost) .. NumHost :
        /\ handle' = [id \in Ids |->
                        IF id \in {0} \cup HostStart .. (HostStart + n - 1)
                        THEN [serial |-> IF id = 0 THEN 0 ELSE created + id - HostStart + 1,
                              priority |-> "NORMAL"]
                        ELSE handle[id]]
        /\ created' = created + n
        /\ IF n = NumHost
           THEN /\ pool' = [pool EXCEPT !["low"][d] = IdList(1, NumLow),
                                        !["high"][d] = IdList(NumLow + 1, NumHigh),
                                        !["host"][d] = IdList(HostStart, NumHost)]
                /\ once' = IF In(t, "flag") THEN once \cup {d} ELSE once
                /\ Goto(t, "ready")
           ELSE /\ pool' = [pool EXCEPT !["host"][d] = IdList(HostStart, n)]
                /\ Return(t) /\ UNCHANGED once
  BY <1>1, Zenon DEF InitImpl
<1>n. n \in 0 .. NumHost /\ n \in Nat
  OBVIOUS
<1>3. /\ created = 0 /\ \A id \in Ids : handle[id] = None
      /\ \A c \in Classes, e \in Devices : Len(pool[c][e]) = 0
      /\ once = {}
  BY <1>1 DEF PoolInv, PoolTypeOK, ListsInv, HandleInv, ReadyInv
<1>4. UNCHANGED <<flags, next, picked, held, rejected, work, done, sync>>
  BY DEF InitImpl
<1>5. /\ handle' \in [Ids -> StreamHandle \cup {None}] /\ created' = n
      /\ HandleInv'
  <2> DEFINE hosts == HostStart .. (HostStart + n - 1)
  <2>1. 0 \in Ids /\ hosts \subseteq Ids /\ 0 \notin hosts /\ HostStart \in Nat
    BY <1>n DEF Ids, LastId, HostStart
  <2>2. handle'[0] = [serial |-> 0, priority |-> "NORMAL"]
    BY <1>2, <2>1
  <2>3. \A id \in hosts : handle'[id] = [serial |-> id - HostStart + 1, priority |-> "NORMAL"]
    BY <1>2, <1>3, <2>1
  <2>4. \A id \in Ids \ ({0} \cup hosts) : handle'[id] = None
    BY <1>2, <1>3
  <2>5. handle'[0] \in StreamHandle
    BY <2>2 DEF StreamHandle
  <2>6. \A id \in hosts : /\ handle'[id] \in StreamHandle
                          /\ handle'[id].serial = id - HostStart + 1 /\ handle'[id].serial <= n
    <3> SUFFICES ASSUME NEW id \in hosts
                 PROVE  /\ handle'[id] \in StreamHandle
                        /\ handle'[id].serial = id - HostStart + 1 /\ handle'[id].serial <= n
      OBVIOUS
    <3>1. id - HostStart + 1 \in Nat /\ id - HostStart + 1 <= n
      BY <1>n, <2>1
    <3>2. handle'[id] = [serial |-> id - HostStart + 1, priority |-> "NORMAL"]
      BY <2>3
    <3> HIDE DEF hosts
    <3> QED
      BY <3>1, <3>2 DEF StreamHandle
  <2>7. created' = n
    BY <1>n, <1>2, <1>3
  <2>8. handle' \in [Ids -> StreamHandle \cup {None}]
    BY <1>2, <2>4, <2>5, <2>6
  <2>9. HandleInv'
    BY <1>n, <1>1, <2>1, <2>2, <2>4, <2>5, <2>6, <2>7 DEF HandleInv
  <2> QED
    BY <2>7, <2>8, <2>9
<1>6. /\ \A c \in Classes, e \in Devices \ {d} : pool'[c][e] = pool[c][e]
      /\ \A c \in Classes : pool'[c][d] = IF n = NumHost THEN IdList(First(c), Size(c))
                                          ELSE IF c = "host" THEN IdList(First(c), n)
                                          ELSE pool[c][d]
      /\ pool' = [c \in Classes |-> [e \in Devices |-> pool'[c][e]]]
  <2>1. pool \in [Classes -> [Devices -> Seq(Ids)]]
    BY DEF PoolInv, PoolTypeOK
  <2>2. CASE n = NumHost
    <3>1. pool' = [pool EXCEPT !["low"][d] = IdList(1, NumLow),
                               !["high"][d] = IdList(NumLow + 1, NumHigh),
                               !["host"][d] = IdList(HostStart, NumHost)]
      BY <1>2, <2>2
    <3>2. /\ pool'["low"] = [pool["low"] EXCEPT ![d] = IdList(1, NumLow)]
          /\ pool'["high"] = [pool["high"] EXCEPT ![d] = IdList(NumLow + 1, NumHigh)]
          /\ pool'["host"] = [pool["host"] EXCEPT ![d] = IdList(HostStart, NumHost)]
          /\ pool' = [c \in Classes |-> pool'[c]]
      BY <2>1, <3>1, Zenon DEF Classes
    <3> QED
      BY <1>1, <2>1, <2>2, <3>2 DEF Classes, First, Size
  <2>3. CASE n # NumHost
    <3>1. pool' = [pool EXCEPT !["host"][d] = IdList(HostStart, n)]
      BY <1>2, <2>3
    <3> QED
      BY <1>1, <2>1, <2>3, <3>1, Zenon DEF Classes, First, Size
  <2> QED
    BY <2>2, <2>3
<1>7. ASSUME NEW f \in Nat, NEW m \in Nat, f + m - 1 <= LastId
      PROVE  /\ IdList(f, m) \in Seq(Ids) /\ Len(IdList(f, m)) = m
             /\ \A i \in 1 .. m : IdList(f, m)[i] = f + i - 1
  BY <1>7 DEF IdList, Ids, LastId
<1>8. ASSUME NEW c \in Classes
      PROVE  /\ pool'[c][d] \in Seq(Ids) /\ Len(pool'[c][d]) <= Size(c)
             /\ \A i \in 1 .. Len(pool'[c][d]) : pool'[c][d][i] = First(c) + i - 1
             /\ n = NumHost => Len(pool'[c][d]) = Size(c)
  <2>1. CASE n = NumHost
    <3>1. pool'[c][d] = IdList(First(c), Size(c))
      BY <1>6, <2>1
    <3>2. First(c) \in Nat /\ Size(c) \in Nat /\ First(c) + Size(c) - 1 <= LastId
      BY ClassBlocks
    <3> QED
      BY <1>7, <2>1, <3>1, <3>2
  <2>2. CASE n # NumHost /\ c = "host"
    <3>1. First(c) + n - 1 <= LastId /\ n <= Size(c)
      BY <1>n, <2>2, ClassBlocks DEF Size
    <3>2. pool'[c][d] = IdList(First(c), n) /\ First(c) \in Nat
      BY <1>6, <2>2, ClassBlocks
    <3> QED
      BY <1>n, <1>7, <2>2, <3>1, <3>2
  <2>3. CASE n # NumHost /\ c # "host"
    <3>1. pool'[c][d] = pool[c][d] /\ pool[c][d] \in Seq(Ids) /\ Len(pool[c][d]) = 0
      BY <1>3, <1>6, <2>3 DEF PoolInv, PoolTypeOK
    <3> QED
      BY <2>3, <3>1, ClassBlocks
  <2> QED
    BY <2>1, <2>2, <2>3
<1>9. pool' \in [Classes -> [Devices -> Seq(Ids)]] /\ ListsInv' /\ (n = NumHost => Full(d)')
  <2>1. \A c \in Classes, e \in Devices : pool'[c][e] \in Seq(Ids)
    <3>1. \A c \in Classes, e \in Devices : pool[c][e] \in Seq(Ids)
      BY DEF PoolInv, PoolTypeOK
    <3> QED
      BY <1>6, <1>8, <3>1, ZenonT(60)
  <2>2. ListsInv'
    <3>1. \A c \in Classes, e \in Devices \ {d} : Len(pool'[c][e]) = 0
      BY <1>3, <1>6
    <3> SUFFICES ASSUME NEW c \in Classes, NEW e \in Devices
                 PROVE  /\ Len(pool'[c][e]) <= Size(c)
                        /\ \A i \in 1 .. Len(pool'[c][e]) : pool'[c][e][i] = First(c) + i - 1
                        /\ e # d => Len(pool'[c][e]) = 0
      BY <1>1 DEF ListsInv
    <3>2. CASE e = d
      BY <1>8, <3>2
    <3>3. CASE e # d
      BY <3>1, <3>3, ClassBlocks, SMTT(30)
    <3> QED
      BY <3>2, <3>3
  <2> QED
    BY <1>6, <1>8, <2>1, <2>2 DEF Full
<1>10. /\ call' \in [Threads -> PoolCall \cup {None}]
       /\ \A u \in Threads \ {t} : call'[u] = call[u]
       /\ call'[t] # None => n = NumHost /\ call'[t].dev = d
       /\ once' \subseteq {d} /\ (once' # {} => n = NumHost)
  <2>1. CASE n = NumHost
    <3>1. PICK c \in PoolCall : call' = [call EXCEPT ![t] = c] /\ c.dev = d
      BY <1>0, <1>1, <1>2, <2>1, GotoCall, Zenon DEF PoolInv
    <3> QED
      BY <1>2, <1>3, <2>1, <3>1 DEF PoolInv, PoolTypeOK
  <2>2. CASE n # NumHost
    BY <1>2, <1>3, <2>2, Zenon DEF PoolInv, PoolTypeOK, Return
  <2> QED
    BY <2>1, <2>2
<1>11. PoolTypeOK'
  BY <1>n, <1>1, <1>4, <1>5, <1>9, <1>10 DEF PoolInv, PoolTypeOK
<1>12. ReadyInv'
  <2>1. \A u \in Threads \ {t} : ~In(u, "ready")
    <3>1. \A u \in Threads : In(u, "ready") => call[u] \in PoolCall /\ call[u].dev = None
      BY <1>0 DEF PoolInv, PoolTypeOK, ReadyInv, In
    <3>2. \A c \in PoolCall : c.dev # None
      BY Zenon DEF PoolCall
    <3> QED
      BY <3>1, <3>2, Zenon
  <2> QED
    BY <1>0, <1>1, <1>9, <1>10, <2>1 DEF ReadyInv, In
<1>13. LiveInv' /\ SyncInv'
  BY <1>1, <1>4 DEF PoolInv, PoolTypeOK, LiveInv, Live, SyncInv
<1>14. TurnInv'
  <2>1. \A c \in Classes, e \in Devices : next[c][e] = 1 /\ Size(c) \in Nat /\ Size(c) >= 1
    BY <1>1, ClassBlocks DEF PoolInv, TurnInv
  <2>2. \A c \in Classes : \A i \in 1 .. Size(c) : First(c) + i - 1 \in Ids
    BY ClassBlocks DEF Ids, LastId
  <2>3. \A c \in Classes : \A i \in 1 .. Size(c) : picked[First(c) + i - 1] = 0
    BY <1>1, <2>2 DEF PoolInv, TurnInv
  <2> QED
    BY <1>1, <1>4, <2>1, <2>3 DEF TurnInv
<1> QED
  BY <1>5, <1>9, <1>11, <1>12, <1>13, <1>14 DEF PoolInv

\* (i % n) + 1 moves on by one, or back to 1 from n.
LEMMA FollowingTurn ==
    ASSUME NEW list, Len(list) \in Nat \ {0}, NEW i \in 1 .. Len(list)
    PROVE  Following(i, list) = IF i = Len(list) THEN 1 ELSE i + 1
BY DEF Following

\* The part of PickStream under the lock before createStream: the list is the
\* whole block of the class, and only one stream's turn is counted.
LEMMA PickTurn ==
    ASSUME PoolInv, NEW c \in Classes, NEW d \in Devices, NEW id \in Ids,
           d = initialized, Full(d), id = First(c) + next[c][d] - 1,
           next' = [next EXCEPT ![c][d] = Following(@, pool[c][d])],
           picked' = [picked EXCEPT ![id] = @ + 1],
           initialized' = initialized
    PROVE  TurnInv' /\ next' \in [Classes -> [Devices -> Nat]] /\ picked' \in [Ids -> Nat]
<1> USE NoneAssumption
<1>1. next \in [Classes -> [Devices -> Nat]] /\ picked \in [Ids -> Nat]
  BY DEF PoolInv, PoolTypeOK
<1>2. PICK k \in 1 .. Size(c) : k = next[c][d]
  BY DEF PoolInv, TurnInv
<1>3. PICK m \in 1 .. Size(c) : m = Following(k, pool[c][d]) /\ m = IF k = Size(c) THEN 1 ELSE k + 1
  <2>1. Len(pool[c][d]) = Size(c) /\ Size(c) \in Nat \ {0}
    BY ClassBlocks DEF Full
  <2>2. Following(k, pool[c][d]) = IF k = Size(c) THEN 1 ELSE k + 1
    BY <2>1, FollowingTurn
  <2> QED
    BY <2>1, <2>2
<1>4. /\ next' \in [Classes -> [Devices -> Nat]]
      /\ \A e \in Classes, f \in Devices :
           next'[e][f] = IF e = c /\ f = d THEN m ELSE next[e][f]
  <2>1. next' = [next EXCEPT ![c][d] = m]
    BY <1>2, <1>3, Zenon
  <2>2. m \in Nat
    BY <1>3, ClassBlocks
  <2> QED
    BY <1>1, <2>1, <2>2
<1>5. picked' \in [Ids -> Nat] /\ \A i \in Ids : picked'[i] = IF i = id THEN picked[i] + 1 ELSE picked[i]
  BY <1>1
<1>6. ASSUME NEW e \in Classes, NEW i \in 1 .. Size(e), NEW j \in 1 .. Size(e), i < j
      PROVE  picked'[First(e) + i - 1] = picked'[First(e) + j - 1]
                 + (IF i < next'[e][d] /\ next'[e][d] <= j THEN 1 ELSE 0)
  <2>1. First(e) + i - 1 \in Ids /\ First(e) + j - 1 \in Ids
    BY ClassBlocks DEF Ids
  <2>2. picked[First(e) + i - 1] = picked[First(e) + j - 1]
            + (IF i < next[e][d] /\ next[e][d] <= j THEN 1 ELSE 0)
    BY <1>6 DEF PoolInv, TurnInv
  <2>3. CASE e = c
    <3>1. First(c) \in Nat /\ Size(c) \in Nat
      BY ClassBlocks
    <3>2. /\ picked'[First(e) + i - 1] = picked[First(e) + i - 1] + (IF i = k THEN 1 ELSE 0)
          /\ picked'[First(e) + j - 1] = picked[First(e) + j - 1] + (IF j = k THEN 1 ELSE 0)
      <4>1. id = First(e) + k - 1
        BY <1>2, <2>3
      <4>2. First(e) + i - 1 = id <=> i = k
        BY <2>3, <3>1, <4>1
      <4>3. First(e) + j - 1 = id <=> j = k
        BY <2>3, <3>1, <4>1
      <4> QED
        BY <1>1, <1>5, <2>1, <4>2, <4>3
    <3> QED
      <4>1. picked[First(e) + i - 1] \in Nat /\ picked[First(e) + j - 1] \in Nat
        BY <1>1, <2>1
      <4>2. next[e][d] = k /\ next'[e][d] = m
        BY <1>2, <1>4, <2>3
      <4> QED
        BY <1>3, <1>6, <2>2, <2>3, <3>1, <3>2, <4>1, <4>2
  <2>4. CASE e # c
    <3>1. First(e) + i - 1 # id /\ First(e) + j - 1 # id
      BY <1>2, <2>4, BlocksDisjoint
    <3>2. /\ picked'[First(e) + i - 1] = picked[First(e) + i - 1]
          /\ picked'[First(e) + j - 1] = picked[First(e) + j - 1]
      BY <1>5, <2>1, <3>1
    <3>3. next'[e][d] = next[e][d]
      BY <1>4, <2>4
    <3> QED
      BY <2>2, <3>2, <3>3
  <2> QED
    BY <2>3, <2>4
<1>7. TurnInv'
  BY <1>3, <1>4, <1>6 DEF PoolInv, TurnInv
<1> QED
  BY <1>4, <1>5, <1>7

\* createStream on first use: the new flex stream is nobody else's.
LEMMA RegisterHandle ==
    ASSUME PoolInv, NEW id \in Ids, NEW p, initialized # None, initialized' = initialized,
           \/ Register(id, p)
           \/ UNCHANGED <<handle, created>>
    PROVE  /\ handle' \in [Ids -> StreamHandle \cup {None}] /\ created' \in Nat /\ HandleInv'
           /\ \A i \in Ids : handle[i] # None => handle'[i] # None
           /\ Register(id, p) => handle'[id] # None
<1> USE NoneAssumption
<1>1. handle \in [Ids -> StreamHandle \cup {None}] /\ created \in Nat /\ 0 \in Ids /\ HandleInv
  BY SizeAssumption DEF PoolInv, PoolTypeOK, Ids, LastId
<1>2. CASE UNCHANGED <<handle, created>>
  BY <1>1, <1>2 DEF HandleInv, Register
<1>3. CASE Register(id, p) /\ handle[id] = None
  <2>1. PICK h \in StreamHandle : h.serial = created + 1 /\ handle' = [handle EXCEPT ![id] = h]
    <3> DEFINE h == [serial |-> created + 1, priority |-> IF p < 0 THEN "HIGH" ELSE "NORMAL"]
    <3>1. h \in StreamHandle /\ h.serial = created + 1
      BY <1>1 DEF StreamHandle
    <3> QED
      BY <1>3, <3>1 DEF Register
  <2>2. created' = created + 1
    BY <1>3 DEF Register
  <2>3. \A i \in Ids : handle'[i] = IF i = id THEN h ELSE handle[i]
    BY <1>1, <2>1
  <2>4. \A i \in Ids : handle[i] # None => handle[i].serial \in Nat /\ handle[i].serial <= created
    BY <1>1 DEF HandleInv, StreamHandle
  <2>5. HandleInv'
    BY <1>1, <2>1, <2>2, <2>3, <2>4 DEF HandleInv
  <2> QED
    BY <1>1, <2>1, <2>2, <2>3, <2>5
<1> QED
  BY <1>2, <1>3 DEF Register

LEMMA PickStreamStep ==
    ASSUME PoolInv, NEW t \in Threads, PickStream(t)
    PROVE  PoolInv'
<1> USE NoneAssumption
<1>0. call[t] \in PoolCall /\ call[t].dev = initialized /\ Full(initialized)
  BY Zenon DEF PickStream, In, PoolInv, PoolTypeOK, ReadyInv
<1>1. PICK d \in Devices : d = call[t].dev /\ d = initialized /\ Full(d)
  BY <1>0, Zenon DEF PoolCall
<1>2. PICK c \in Classes : c = Class(call[t])
  <2>1. call[t].fn \in {"host", "pool"} /\ call[t].prio \in Int
    BY <1>0, ArgumentAssumption, Zenon DEF PickStream, PoolCall
  <2> QED
    BY <2>1, Zenon DEF Class, Classes
<1>3. PICK id \in Ids : id = pool[c][d][next[c][d]] /\ id = First(c) + next[c][d] - 1
  <2>1. next[c][d] \in 1 .. Len(pool[c][d])
    BY <1>1 DEF PoolInv, TurnInv, Full
  <2>2. pool[c][d] \in Seq(Ids)
    BY DEF PoolInv, PoolTypeOK
  <2> QED
    BY <2>1, <2>2 DEF PoolInv, ListsInv
<1>4. /\ next' = [next EXCEPT ![c][d] = Following(@, pool[c][d])]
      /\ picked' = [picked EXCEPT ![id] = @ + 1]
      /\ \/ /\ Register(id, call[t].prio)
            /\ held' = [held EXCEPT ![t] = @ \cup {<<d, id>>}]
         \/ UNCHANGED <<handle, created, held>>
      /\ Return(t)
      /\ UNCHANGED <<initialized, flags, once, pool, rejected, work, done, sync>>
  BY <1>1, <1>2, <1>3, Zenon DEF PickStream
<1>5. TurnInv' /\ next' \in [Classes -> [Devices -> Nat]] /\ picked' \in [Ids -> Nat]
  BY <1>1, <1>3, <1>4, PickTurn, Zenon
<1>6. /\ handle' \in [Ids -> StreamHandle \cup {None}] /\ created' \in Nat /\ HandleInv'
      /\ \A i \in Ids : handle[i] # None => handle'[i] # None
      /\ Register(id, call[t].prio) => handle'[id] # None
  BY <1>1, <1>4, RegisterHandle
<1>7. /\ held' \in [Threads -> SUBSET (Devices \X Ids)]
      /\ \A u \in Threads : \A s \in held'[u] :
           s \in held[u] \/ (s = <<d, id>> /\ handle'[id] # None)
  <2>1. held \in [Threads -> SUBSET (Devices \X Ids)]
    BY DEF PoolInv, PoolTypeOK
  <2>2. CASE held' = held
    BY <2>1, <2>2
  <2>3. CASE /\ Register(id, call[t].prio)
             /\ held' = [held EXCEPT ![t] = @ \cup {<<d, id>>}]
    BY <1>6, <2>1, <2>3
  <2> QED
    BY <1>4, <2>2, <2>3
<1>8. PoolTypeOK'
  BY <1>4, <1>5, <1>6, <1>7, Zenon DEF PoolInv, PoolTypeOK, Return
<1>9. ListsInv' /\ SyncInv'
  BY <1>4, ZenonT(60) DEF PoolInv, ListsInv, SyncInv
<1>10. ReadyInv'
  BY <1>4 DEF PoolInv, PoolTypeOK, ReadyInv, In, Full, Return
<1>11. LiveInv'
  <2>1. ASSUME NEW s \in Devices \X Ids, Live(s) PROVE Live(s)'
    <3>1. s[2] \in Ids
      BY <2>1
    <3> QED
      BY <1>4, <1>6, <2>1, <3>1 DEF Live, InPool
  <2>2. InPool(d, id)
    BY <1>1, <1>3, Zenon DEF PoolInv, TurnInv, Full, InPool
  <2>3. handle'[id] # None => Live(<<d, id>>)'
    BY <1>1, <1>4, <2>2 DEF Live, InPool
  <2> QED
    BY <1>4, <1>7, <2>1, <2>3, Zenon DEF PoolInv, PoolTypeOK, LiveInv
<1> QED
  BY <1>5, <1>6, <1>8, <1>9, <1>10, <1>11, SMTT(30) DEF PoolInv

\* Taking the snapshot: every operation queued on the device is on a stream of
\* the snapshot.
LEMMA SyncSnapshotStep ==
    ASSUME PoolInv, NEW t \in Threads, NEW d \in Devices, SyncSnapshot(t, d)
    PROVE  PoolInv'
<1> USE NoneAssumption
<1>1. PICK new \in SyncCall :
        /\ sync' = [sync EXCEPT ![t] = new]
        /\ new.left = Registered(d) /\ new.before = {o \in Ops : Queued(o) /\ work[o][1] = d}
  <2> DEFINE before == {o \in Ops : Queued(o) /\ work[o][1] = d}
             new == [left |-> Registered(d), before |-> before]
  <2>1. Registered(d) \in SUBSET Ids /\ before \in SUBSET Ops
    BY DEF Registered
  <2>2. sync' = [sync EXCEPT ![t] = new]
    BY DEF SyncSnapshot
  <2> HIDE DEF before
  <2>3. new \in SyncCall /\ new.left = Registered(d) /\ new.before = before
    BY <2>1 DEF SyncCall
  <2> QED
    BY <2>2, <2>3, Zenon DEF before
<1>2. PoolTypeOK' /\ ReadyInv' /\ ListsInv' /\ HandleInv' /\ TurnInv' /\ LiveInv'
  <2>1. UNCHANGED <<poolState, picked, call, held, rejected, work, done>>
    BY ZenonT(60) DEF SyncSnapshot
  <2>2. PoolTypeOK'
    BY <1>1, <2>1, ZenonT(60) DEF PoolInv, PoolTypeOK, poolState
  <2>3. ReadyInv' /\ LiveInv'
    BY <2>1, PoolFrame DEF PoolInv, ReadyInv, LiveInv, In, poolState
  <2> QED
    BY <2>1, <2>2, <2>3, PoolFrame DEF poolState
<1>3. ASSUME NEW o \in new.before
      PROVE  work[o] # None /\ work[o][2] \in new.left
  <2>1. o \in Ops /\ work[o] # None /\ work[o] \in Devices \X Ids /\ Live(work[o]) /\ work[o][1] = d
    BY <1>1, <1>3 DEF Queued, PoolInv, PoolTypeOK, LiveInv
  <2>2. work[o][2] \in Ids /\ handle[work[o][2]] # None /\ InPool(d, work[o][2])
    BY <2>1 DEF Live
  <2>3. \A c \in Classes : DOMAIN pool[c][d] = 1 .. Len(pool[c][d])
    BY DEF PoolInv, PoolTypeOK
  <2> QED
    BY <1>1, <2>1, <2>2, <2>3 DEF Registered, InPool
<1>4. SyncInv'
  <2>1. \A u \in Threads : sync'[u] = IF u = t THEN new ELSE sync[u]
    BY <1>1 DEF PoolInv, PoolTypeOK
  <2> QED
    BY <1>3, <2>1 DEF PoolInv, SyncInv, SyncSnapshot
<1> QED
  BY <1>2, <1>4 DEF PoolInv

\* A wait ends when nothing is queued on the stream.
LEMMA SyncOneStep ==
    ASSUME PoolInv, NEW t \in Threads, NEW id \in Ids, SyncOne(t, id)
    PROVE  PoolInv'
<1> USE NoneAssumption
<1>1. PICK new \in SyncCall :
        /\ sync' = [sync EXCEPT ![t] = new]
        /\ new.left = sync[t].left \ {id} /\ new.before = sync[t].before
  <2>1. ASSUME NEW r \in SyncCall
        PROVE  /\ [r EXCEPT !.left = @ \ {id}] \in SyncCall
               /\ [r EXCEPT !.left = @ \ {id}].left = r.left \ {id}
               /\ [r EXCEPT !.left = @ \ {id}].before = r.before
    BY DEF SyncCall
  <2>2. sync[t] \in SyncCall
    BY DEF SyncOne, PoolInv, PoolTypeOK
  <2>3. sync' = [sync EXCEPT ![t] = [sync[t] EXCEPT !.left = @ \ {id}]]
    BY DEF SyncOne
  <2> QED
    BY <2>1, <2>2, <2>3, Zenon
<1>2. PoolTypeOK' /\ ReadyInv' /\ ListsInv' /\ HandleInv' /\ TurnInv' /\ LiveInv'
  <2>1. UNCHANGED <<poolState, picked, call, held, rejected, work, done>>
    BY DEF SyncOne
  <2>2. PoolTypeOK'
    BY <1>1, <2>1 DEF PoolInv, PoolTypeOK, poolState
  <2>3. ReadyInv' /\ LiveInv'
    BY <2>1, PoolFrame DEF PoolInv, ReadyInv, LiveInv, In, poolState
  <2> QED
    BY <2>1, <2>2, <2>3, PoolFrame DEF poolState
<1>3. ASSUME NEW o \in new.before, o \notin done
      PROVE  work[o] # None /\ work[o][2] \in new.left
  <2>1. o \in Ops /\ work[o] # None /\ work[o][2] \in sync[t].left
    BY <1>1, <1>3 DEF SyncOne, PoolInv, SyncInv, SyncCall
  <2>2. work[o][2] # id
    BY <1>3, <2>1 DEF SyncOne, Queued
  <2> QED
    BY <1>1, <2>1, <2>2
<1>4. SyncInv'
  <2>1. \A u \in Threads : sync'[u] = IF u = t THEN new ELSE sync[u]
    BY <1>1 DEF PoolInv, PoolTypeOK
  <2> QED
    BY <1>3, <2>1, Zenon DEF PoolInv, SyncInv, SyncOne
<1> QED
  BY <1>2, <1>4 DEF PoolInv

\* Every step of the pool's callers and of flex preserves the invariant.
LEMMA NextPoolInv == PoolInv /\ [Next]_vars => PoolInv'
<1> SUFFICES ASSUME PoolInv, [Next]_vars PROVE PoolInv'
  OBVIOUS
<1> USE NoneAssumption
<1>1. ASSUME NEW t \in Threads, NEW fn \in {"default", "host", "pool"}, NEW d \in Devices,
             NEW p \in Priorities, Call(t, fn, d, p)
      PROVE  PoolInv'
  <2>1. PICK c \in PoolCall : call' = [call EXCEPT ![t] = c] /\ c.at = "lookup"
    <3> DEFINE c == [fn |-> fn, dev |-> d, prio |-> p, at |-> "lookup"]
    <3>1. c \in PoolCall /\ c.at = "lookup"
      BY Zenon DEF PoolCall
    <3> QED
      BY <1>1, <3>1, Zenon DEF Call
  <2> QED
    BY <1>1, <2>1, CallStep, Zenon DEF Call, poolState, PoolInv, PoolTypeOK
<1>2. ASSUME NEW t \in Threads, FindFlag(t)
      PROVE  PoolInv'
  <2>1. call[t] \in PoolCall
    BY <1>2 DEF FindFlag, In, PoolInv, PoolTypeOK
  <2>2. PICK c \in PoolCall : call' = [call EXCEPT ![t] = c] /\ c.at \in {"flag", "inserting"}
    BY <1>2, <2>1, GotoCall, Zenon DEF FindFlag, PoolInv
  <2> QED
    BY <1>2, <2>2, CallStep, Zenon DEF FindFlag, poolState, PoolInv, PoolTypeOK
<1>3. ASSUME NEW t \in Threads, InsertFlag(t)
      PROVE  PoolInv'
  <2>1. call[t] \in PoolCall /\ call[t].dev \in Devices
    BY <1>3, Zenon DEF InsertFlag, In, PoolInv, PoolTypeOK, PoolCall
  <2>2. PICK c \in PoolCall : call' = [call EXCEPT ![t] = c] /\ c.at \in {"flag", "own flag"}
    <3>1. PICK where \in {"flag", "own flag"} : Goto(t, where)
      BY <1>3, Zenon DEF InsertFlag
    <3> QED
      BY <2>1, <3>1, GotoCall, Zenon DEF PoolInv
  <2>3. flags' \subseteq Devices
    BY <1>3, <2>1, Zenon DEF InsertFlag, PoolInv, PoolTypeOK
  <2> QED
    BY <1>3, <2>2, <2>3, CallStep, Zenon DEF InsertFlag, PoolInv, PoolTypeOK
<1>4. ASSUME NEW t \in Threads, AlreadyInitialized(t)
      PROVE  PoolInv'
  <2>1. call[t] \in PoolCall /\ call[t].dev \in once
    BY <1>4 DEF AlreadyInitialized, In, PoolInv, PoolTypeOK
  <2>2. PICK c \in PoolCall : call' = [call EXCEPT ![t] = c] /\ c.dev \in once
    BY <1>4, <2>1, GotoCall, Zenon DEF AlreadyInitialized, PoolInv
  <2>3. c.dev = initialized /\ Full(initialized)
    BY <2>2 DEF PoolInv, ReadyInv
  <2> QED
    BY <1>4, <2>2, <2>3, CallStep, Zenon DEF AlreadyInitialized, poolState, PoolInv, PoolTypeOK
<1>5. ASSUME NEW t \in Threads, InitRejected(t)
      PROVE  PoolInv'
  <2>1. call[t] \in PoolCall /\ call[t].dev \in Devices
    BY <1>5, Zenon DEF InitRejected, RunsImpl, In, PoolInv, PoolTypeOK, PoolCall
  <2> QED
    BY <1>5, <2>1, CallStep, Zenon DEF InitRejected, Return, poolState, PoolInv, PoolTypeOK
<1>6. ASSUME NEW t \in Threads, GetDefault(t)
      PROVE  PoolInv'
  <2>1. PICK d \in Devices : d = call[t].dev /\ d = initialized
    BY <1>6, ZenonT(60) DEF GetDefault, In, PoolInv, PoolTypeOK, ReadyInv, PoolCall
  <2>2. PoolTypeOK'
    <3>1. <<d, 0>> \in Devices \X Ids
      BY SizeAssumption DEF Ids, LastId
    <3>2. call' \in [Threads -> PoolCall \cup {None}]
      BY <1>6, Zenon DEF GetDefault, Return, PoolInv, PoolTypeOK
    <3>3. held' \in [Threads -> SUBSET (Devices \X Ids)]
      BY <1>6, <2>1, <3>1 DEF GetDefault, PoolInv, PoolTypeOK
    <3> QED
      BY <1>6, <3>2, <3>3, ZenonT(30) DEF GetDefault, poolState, PoolInv, PoolTypeOK
  <2>3. ReadyInv'
    BY <1>6, PoolFrame DEF GetDefault, Return, In, poolState, PoolInv, PoolTypeOK, ReadyInv
  <2>4. Live(<<d, 0>>)
    BY <2>1 DEF Live, InPool, PoolInv, HandleInv
  <2>5. held' = [held EXCEPT ![t] = @ \cup {<<d, 0>>}]
    BY <1>6, <2>1, ZenonT(60) DEF GetDefault
  <2>6. LiveInv'
    <3>1. \A u \in Threads : \A s \in held'[u] : s \in held[u] \/ s = <<d, 0>>
      BY <2>5 DEF PoolInv, PoolTypeOK
    <3>2. \A s : Live(s)' <=> Live(s)
      BY <1>6, PoolFrame DEF GetDefault, poolState
    <3> QED
      BY <1>6, <2>4, <3>1, <3>2 DEF GetDefault, PoolInv, LiveInv
  <2> QED
    BY <1>6, <2>2, <2>3, <2>6, PoolFrame, Zenon DEF GetDefault, poolState, PoolInv, SyncInv
<1>7. ASSUME NEW t \in Threads, NEW s \in held[t], NEW o \in Ops, Submit(t, s, o)
      PROVE  PoolInv'
  <2>1. s \in Devices \X Ids /\ Live(s)
    BY ZenonT(60) DEF PoolInv, PoolTypeOK, LiveInv
  <2>2. PoolTypeOK'
    BY <1>7, <2>1, SMTT(30) DEF Submit, poolState, PoolInv, PoolTypeOK
  <2>3. ReadyInv' /\ LiveInv'
    BY <1>7, <2>1, PoolFrame, Zenon DEF Submit, poolState, PoolInv, PoolTypeOK, ReadyInv, LiveInv, In
  <2>4. SyncInv'
    BY <1>7, <2>1, Zenon DEF Submit, PoolInv, PoolTypeOK, SyncInv, SyncCall
  <2> QED
    BY <1>7, <2>2, <2>3, <2>4, PoolFrame DEF Submit, poolState, PoolInv
<1>8. ASSUME NEW t \in Threads, SyncReturn(t)
      PROVE  PoolInv'
  <2>1. PoolTypeOK' /\ SyncInv'
    BY <1>8, ZenonT(60) DEF SyncReturn, poolState, PoolInv, PoolTypeOK, SyncInv
  <2>2. ReadyInv' /\ LiveInv'
    BY <1>8, PoolFrame DEF SyncReturn, poolState, PoolInv, ReadyInv, LiveInv, In
  <2> QED
    BY <1>8, <2>1, <2>2, PoolFrame, ZenonT(60) DEF SyncReturn, poolState, PoolInv
<1>9. ASSUME NEW o \in Ops, Complete(o)
      PROVE  PoolInv'
  <2>1. PoolTypeOK' /\ SyncInv'
    BY <1>9, SMTT(30) DEF Complete, poolState, PoolInv, PoolTypeOK, SyncInv
  <2>2. ReadyInv' /\ LiveInv'
    BY <1>9, PoolFrame DEF Complete, poolState, PoolInv, ReadyInv, LiveInv, In
  <2> QED
    BY <1>9, <2>1, <2>2, PoolFrame, ZenonT(60) DEF Complete, poolState, PoolInv
<1>10. CASE UNCHANGED vars
  <2>1. PoolTypeOK' /\ SyncInv'
    BY <1>10, SMTT(30) DEF vars, PoolInv, PoolTypeOK, SyncInv
  <2>2. ReadyInv' /\ LiveInv'
    BY <1>10, PoolFrame DEF vars, PoolInv, ReadyInv, LiveInv, In
  <2> QED
    BY <1>10, <2>1, <2>2, PoolFrame, ZenonT(60) DEF vars, PoolInv
<1> QED
  BY <1>1, <1>2, <1>3, <1>4, <1>5, <1>6, <1>7, <1>8, <1>9, <1>10,
     InitImplStep, PickStreamStep, SyncSnapshotStep, SyncOneStep
     DEF Next, Initialize

LEMMA PoolInvariant == Spec => []PoolInv
BY InitPoolInv, NextPoolInv, PTL DEF Spec

\* Every stream that a call of spyre_stream.cpp returned belongs to the device
\* the pool was initialised for and has a flex stream no other id has.
THEOREM HeldStreamsResolve == Spec => []HeldResolves
<1>1. PoolInv => HeldResolves
  <2> SUFFICES ASSUME PoolInv, NEW t \in Threads, NEW s \in held[t]
               PROVE  /\ s[1] = initialized /\ handle[s[2]] # None
                      /\ \A id \in Ids \ {s[2]} :
                           handle[id] # None => handle[id].serial # handle[s[2]].serial
    BY Zenon DEF HeldResolves
  <2>1. s[1] = initialized /\ handle[s[2]] # None
    BY Zenon DEF PoolInv, LiveInv, Live
  <2>2. s[2] \in Ids
    BY DEF PoolInv, PoolTypeOK
  <2> QED
    BY <2>1, <2>2, Zenon DEF PoolInv, HandleInv
<1> QED
  BY <1>1, PoolInvariant, PTL

\* getStreamFromPool and getHostComputeStream hand out the streams of a class
\* in turn, and a call that passed initialisation finds a stream to hand out.
THEOREM PoolRoundRobin == Spec => []RoundRobin
<1>1. PoolInv => RoundRobin
  <2> SUFFICES ASSUME PoolInv PROVE RoundRobin
    OBVIOUS
  <2>0. \A c \in Classes, d \in Devices : DOMAIN pool[c][d] = 1 .. Len(pool[c][d])
    BY DEF PoolInv, PoolTypeOK
  <2>1. ASSUME NEW c \in Classes, NEW d \in Devices,
               NEW i \in DOMAIN pool[c][d], NEW j \in DOMAIN pool[c][d]
        PROVE  picked[pool[c][d][i]] <= picked[pool[c][d][j]] + 1
    <3>1. d = initialized /\ initialized # None /\ i \in 1 .. Size(c) /\ j \in 1 .. Size(c)
      <4>1. PICK n \in Nat : n = Len(pool[c][d]) /\ i \in 1 .. n /\ j \in 1 .. n
        <5>1. Len(pool[c][d]) \in Nat
          BY DEF PoolInv, PoolTypeOK
        <5> QED
          BY <2>0, <5>1, Zenon
      <4>2. n <= Size(c) /\ (d # initialized => n = 0)
        BY <4>1, Zenon DEF PoolInv, ListsInv
      <4>3. d = initialized
        BY <4>1, <4>2
      <4>4. initialized # None
        BY <4>3, NoneAssumption, Zenon
      <4> QED
        BY <4>1, <4>2, <4>3, <4>4, ClassBlocks
    <3>2. pool[c][d][i] = First(c) + i - 1 /\ pool[c][d][j] = First(c) + j - 1
      BY <2>0, ZenonT(30) DEF PoolInv, ListsInv
    <3>3. First(c) + i - 1 \in Ids /\ First(c) + j - 1 \in Ids
      BY <3>1, ClassBlocks DEF Ids
    <3>4. picked[First(c) + i - 1] \in Nat /\ picked[First(c) + j - 1] \in Nat
      BY <3>3, ZenonT(60) DEF PoolInv, PoolTypeOK
    <3>5. CASE i = j
      BY <3>2, <3>4, <3>5
    <3>6. CASE i < j
      BY <3>1, <3>2, <3>4, <3>6 DEF PoolInv, TurnInv
    <3>7. CASE j < i
      BY <3>1, <3>2, <3>4, <3>7 DEF PoolInv, TurnInv
    <3> QED
      BY <3>1, <3>5, <3>6, <3>7, ClassBlocks, SMTT(30)
  <2>2. ASSUME NEW t \in Threads, In(t, "ready"), NEW c \in Classes
        PROVE  next[c][call[t].dev] \in DOMAIN pool[c][call[t].dev]
    <3>1. PICK d \in Devices : d = call[t].dev /\ d = initialized /\ Full(d)
      BY <2>2, Zenon DEF In, PoolInv, PoolTypeOK, ReadyInv, PoolCall
    <3> QED
      BY <2>0, <3>1 DEF PoolInv, TurnInv, Full
  <2> QED
    BY <2>1, <2>2 DEF RoundRobin
<1> QED
  BY <1>1, PoolInvariant, PTL

\* synchronizeDevice returns only when everything queued on the device at the
\* time of its snapshot has completed.
THEOREM SynchronizeCovers == Spec => []SyncCovers
<1>1. PoolInv => SyncCovers
  BY DEF PoolInv, PoolTypeOK, SyncInv, SyncCall, SyncCovers
<1> QED
  BY <1>1, PoolInvariant, PTL

-----------------------------------------------------------------------------
(* StreamContext *)

\* A Stream object is used by one thread.
PrivateStreams == \A s \in Streams : \A t, u \in Users[s] : t = u

StreamsOf(t) == {s \in Streams : t \in Users[s]}

\* The blocks of a thread, the one whose __enter__ is half done included.
Entered(t) == IF entering[t] = Default THEN blocks[t] ELSE Append(blocks[t], entering[t])

\* The stream that is current around block j of q.
Around(q, j) == IF j = 1 THEN Default ELSE q[j - 1]
InnermostOf(q) == IF q = <<>> THEN Default ELSE Top(q)

\* p, the stack of stream s, lists for the blocks of s in q, in their order, the
\* stream around each; m and n are the lengths of p and q.
SavedIn(p, m, q, n, s) ==
    \E pos \in [1 .. m -> 1 .. n] :
        /\ \A a, b \in 1 .. m : a < b => pos[a] < pos[b]
        /\ \A a \in 1 .. m : q[pos[a]] = s /\ p[a] = Around(q, pos[a])
        /\ \A j \in 1 .. n : q[j] = s => \E a \in 1 .. m : pos[a] = j

Saved(p, q, s) == SavedIn(p, Len(p), q, Len(q), s)

ContextInv ==
    /\ current \in [CtxThreads -> Streams \cup {Default}]
    /\ prev \in [Streams -> Seq(Streams \cup {Default})]
    /\ entering \in [CtxThreads -> Streams \cup {Default}]
    /\ DOMAIN blocks = CtxThreads
    /\ \A t \in CtxThreads : /\ blocks[t] \in Seq(StreamsOf(t))
                             /\ entering[t] \in StreamsOf(t) \cup {Default}
    /\ raised = {}
    /\ \A t \in CtxThreads : \A s \in StreamsOf(t) : Saved(prev[s], Entered(t), s)
    /\ InnermostIsCurrent

LEMMA LastOrBefore == \A n \in Nat : \A a \in 1 .. n + 1 : a \in 1 .. n \/ a = n + 1
  OBVIOUS

\* A block of s is entered ...
LEMMA SavedPush ==
    ASSUME NEW S, NEW p \in Seq(S), NEW T, NEW q \in Seq(T), NEW s, Saved(p, q, s)
    PROVE  Saved(Append(p, InnermostOf(q)), Append(q, s), s)
<1>2. PICK m \in Nat, n \in Nat : m = Len(p) /\ n = Len(q)
  OBVIOUS
<1>1. PICK pos \in [1 .. m -> 1 .. n] :
        /\ \A a, b \in 1 .. m : a < b => pos[a] < pos[b]
        /\ \A a \in 1 .. m : q[pos[a]] = s /\ p[a] = Around(q, pos[a])
        /\ \A j \in 1 .. n : q[j] = s => \E a \in 1 .. m : pos[a] = j
  BY <1>2, Zenon DEF Saved, SavedIn
<1>3. PICK pp : pp = Append(p, InnermostOf(q))
  BY Zenon
<1>4. PICK qq : qq = Append(q, s)
  BY Zenon
<1>5. Len(pp) = m + 1 /\ pp[m + 1] = InnermostOf(q) /\ \A a \in 1 .. m : pp[a] = p[a]
  BY <1>2, <1>3
<1>6. Len(qq) = n + 1 /\ qq[n + 1] = s /\ \A j \in 1 .. n : qq[j] = q[j]
  BY <1>2, <1>4
<1>7. InnermostOf(q) = Around(qq, n + 1)
  BY <1>2, <1>6 DEF InnermostOf, Around, Top
<1> DEFINE new == [a \in 1 .. m + 1 |-> IF a = m + 1 THEN n + 1 ELSE pos[a]]
<1>8. /\ new \in [1 .. m + 1 -> 1 .. n + 1] /\ new[m + 1] = n + 1
      /\ \A a \in 1 .. m : new[a] = pos[a] /\ new[a] \in 1 .. n
  <2>1. \A a \in 1 .. m : pos[a] \in 1 .. n /\ a # m + 1
    BY <1>1, <1>2
  <2>2. \A a \in 1 .. m : new[a] = pos[a]
    BY <2>1, <1>2
  <2>3. new[m + 1] = n + 1
    BY <1>2
  <2>4. \A a \in 1 .. m + 1 : new[a] \in 1 .. n + 1
    <3> HIDE DEF new
    <3>1. \A a \in 1 .. m : new[a] \in 1 .. n + 1
      BY <2>1, <2>2
    <3>2. n + 1 \in 1 .. n + 1
      OBVIOUS
    <3> QED
      BY <2>3, <3>1, <3>2, LastOrBefore, Zenon
  <2> QED
    BY <2>1, <2>2, <2>3, <2>4
<1> HIDE DEF new
<1>9. \A a, b \in 1 .. m + 1 : a < b => new[a] < new[b]
  <2> SUFFICES ASSUME NEW a \in 1 .. m + 1, NEW b \in 1 .. m + 1, a < b PROVE new[a] < new[b]
    OBVIOUS
  <2>1. a \in 1 .. m
    BY <1>2
  <2>2. CASE b = m + 1
    BY <1>2, <1>8, <2>1, <2>2
  <2>3. CASE b \in 1 .. m
    BY <1>1, <1>2, <1>8, <2>1, <2>3
  <2> QED
    BY <2>2, <2>3, LastOrBefore
<1>10. \A a \in 1 .. m + 1 : qq[new[a]] = s /\ pp[a] = Around(qq, new[a])
  <2> SUFFICES ASSUME NEW a \in 1 .. m PROVE qq[new[a]] = s /\ pp[a] = Around(qq, new[a])
    BY <1>2, <1>5, <1>6, <1>7, <1>8
  <2>1. q[pos[a]] = s /\ p[a] = Around(q, pos[a]) /\ pos[a] \in 1 .. n
    BY <1>1, Zenon
  <2>2. pos[a] # 1 => pos[a] - 1 \in 1 .. n
    BY <2>1, <1>2
  <2> QED
    BY <1>5, <1>6, <1>8, <2>1, <2>2 DEF Around
<1>11. \A j \in 1 .. n + 1 : qq[j] = s => \E a \in 1 .. m + 1 : new[a] = j
  <2> SUFFICES ASSUME NEW j \in 1 .. n + 1, qq[j] = s PROVE \E a \in 1 .. m + 1 : new[a] = j
    OBVIOUS
  <2>1. CASE j = n + 1
    BY <1>2, <1>8, <2>1
  <2>2. CASE j \in 1 .. n
    <3>1. PICK a \in 1 .. m : pos[a] = j
      BY <1>1, <1>2, <1>6, <2>2
    <3> QED
      BY <1>2, <1>8, <3>1
  <2> QED
    BY <2>1, <2>2, LastOrBefore
<1>12. SavedIn(pp, m + 1, qq, n + 1, s)
  BY <1>8, <1>9, <1>10, <1>11, Zenon DEF SavedIn
<1>13. Saved(pp, qq, s)
  BY <1>5, <1>6, <1>12, Zenon DEF Saved
<1> QED
  BY <1>3, <1>4, <1>13

\* ... or one of another stream.
LEMMA SavedOther ==
    ASSUME NEW S, NEW p \in Seq(S), NEW T, NEW q \in Seq(T), NEW s, NEW u, u # s
    PROVE  Saved(p, q, u) <=> Saved(p, Append(q, s), u)
<1>2. PICK m \in Nat, n \in Nat : m = Len(p) /\ n = Len(q)
  OBVIOUS
<1>4. PICK qq : qq = Append(q, s)
  BY Zenon
<1>6. Len(qq) = n + 1 /\ qq[n + 1] = s /\ \A j \in 1 .. n : qq[j] = q[j]
  BY <1>2, <1>4
<1>7. \A j \in 1 .. n : Around(qq, j) = Around(q, j)
  BY <1>2, <1>6 DEF Around
<1>8. ASSUME Saved(p, q, u) PROVE Saved(p, qq, u)
  <2>1. PICK pos \in [1 .. m -> 1 .. n] :
          /\ \A a, b \in 1 .. m : a < b => pos[a] < pos[b]
          /\ \A a \in 1 .. m : q[pos[a]] = u /\ p[a] = Around(q, pos[a])
          /\ \A j \in 1 .. n : q[j] = u => \E a \in 1 .. m : pos[a] = j
    BY <1>2, <1>8, Zenon DEF Saved, SavedIn
  <2>2. pos \in [1 .. m -> 1 .. n + 1]
    BY <2>1
  <2>3. \A a \in 1 .. m : qq[pos[a]] = u /\ p[a] = Around(qq, pos[a])
    BY <1>6, <1>7, <2>1
  <2>4. \A j \in 1 .. n + 1 : qq[j] = u => \E a \in 1 .. m : pos[a] = j
    BY <1>6, <2>1
  <2>5. SavedIn(p, m, qq, n + 1, u)
    BY <2>1, <2>2, <2>3, <2>4, Zenon DEF SavedIn
  <2> QED
    BY <1>2, <1>6, <2>5, Zenon DEF Saved
<1>9. ASSUME Saved(p, qq, u) PROVE Saved(p, q, u)
  <2>1. PICK pos \in [1 .. m -> 1 .. n + 1] :
          /\ \A a, b \in 1 .. m : a < b => pos[a] < pos[b]
          /\ \A a \in 1 .. m : qq[pos[a]] = u /\ p[a] = Around(qq, pos[a])
          /\ \A j \in 1 .. n + 1 : qq[j] = u => \E a \in 1 .. m : pos[a] = j
    <3>1. SavedIn(p, m, qq, n + 1, u)
      BY <1>2, <1>6, <1>9, Zenon DEF Saved
    <3> QED
      BY <3>1, Zenon DEF SavedIn
  <2>2. \A a \in 1 .. m : pos[a] \in 1 .. n
    BY <1>6, <2>1
  <2>3. pos \in [1 .. m -> 1 .. n]
    BY <2>1, <2>2
  <2>4. \A a \in 1 .. m : q[pos[a]] = u /\ p[a] = Around(q, pos[a])
    BY <1>6, <1>7, <2>1, <2>2
  <2>5. \A j \in 1 .. n : q[j] = u => \E a \in 1 .. m : pos[a] = j
    BY <1>6, <2>1
  <2> QED
    BY <1>2, <2>1, <2>3, <2>4, <2>5, Zenon DEF Saved, SavedIn
<1> QED
  BY <1>4, <1>8, <1>9

\* The block of s entered last is left: its stack holds the stream around it.
LEMMA SavedPop ==
    ASSUME NEW S, NEW p \in Seq(S), NEW T, NEW q \in Seq(T), q # <<>>, Saved(p, q, Top(q))
    PROVE  /\ p # <<>> /\ Pop(p) \in Seq(S) /\ Pop(q) \in Seq(T)
           /\ Top(p) = InnermostOf(Pop(q)) /\ Saved(Pop(p), Pop(q), Top(q))
           /\ q = Append(Pop(q), Top(q))
<1> DEFINE s == Top(q)
<1> HIDE DEF s
<1>0. s = Top(q) /\ Saved(p, q, s)
  BY Zenon DEF s
<1>1. PICK m \in Nat, n \in Nat : m = Len(p) /\ n = Len(q)
  OBVIOUS
<1>2. PICK pos \in [1 .. m -> 1 .. n] :
        /\ \A a, b \in 1 .. m : a < b => pos[a] < pos[b]
        /\ \A a \in 1 .. m : q[pos[a]] = s /\ p[a] = Around(q, pos[a])
        /\ \A j \in 1 .. n : q[j] = s => \E a \in 1 .. m : pos[a] = j
  <2>1. SavedIn(p, m, q, n, s)
    BY <1>0, <1>1, Zenon DEF Saved
  <2> QED
    BY <2>1, ZenonT(60) DEF SavedIn
<1>3. n \in 1 .. n /\ q[n] = s
  BY <1>0, <1>1 DEF Top
<1>4. PICK k \in 1 .. m : pos[k] = n
  BY <1>2, <1>3
<1>5. k = m
  <2>1. pos[m] \in 1 .. n
    BY <1>1, <1>2, <1>4
  <2> QED
    BY <1>1, <1>2, <1>4, <2>1
<1>6. PICK pp : pp = Pop(p)
  BY Zenon
<1>7. PICK qq : qq = Pop(q)
  BY Zenon
<1>8. pp \in Seq(S) /\ Len(pp) = m - 1 /\ \A a \in 1 .. m - 1 : pp[a] = p[a]
  BY <1>1, <1>4, <1>6 DEF Pop
<1>9. qq \in Seq(T) /\ Len(qq) = n - 1 /\ \A a \in 1 .. n - 1 : qq[a] = q[a]
  BY <1>1, <1>3, <1>7 DEF Pop
<1>10. p # <<>> /\ Top(p) = p[m]
  BY <1>1, <1>4 DEF Top
<1>11. p[m] = Around(q, n)
  BY <1>2, <1>4, <1>5
<1>12. Around(q, n) = InnermostOf(qq)
  <2>1. CASE n = 1
    <3>1. qq = <<>>
      BY <1>9, <2>1
    <3> QED
      BY <2>1, <3>1 DEF Around, InnermostOf
  <2>2. CASE n # 1
    <3>1. qq # <<>> /\ n - 1 \in 1 .. n - 1
      BY <1>1, <1>3, <1>9, <2>2
    <3> QED
      BY <1>9, <2>2, <3>1 DEF Around, InnermostOf, Top
  <2> QED
    BY <2>1, <2>2
<1>13. Saved(pp, qq, s)
  <2> DEFINE new == [a \in 1 .. m - 1 |-> pos[a]]
  <2>1. \A a \in 1 .. m - 1 : a \in 1 .. m /\ pos[a] < pos[m] /\ pos[a] \in 1 .. n - 1
    BY <1>1, <1>2, <1>4, <1>5
  <2>2. new \in [1 .. m - 1 -> 1 .. n - 1] /\ \A a \in 1 .. m - 1 : new[a] = pos[a]
    BY <2>1
  <2> HIDE DEF new
  <2>3. \A a, b \in 1 .. m - 1 : a < b => new[a] < new[b]
    BY <1>2, <2>1, <2>2
  <2>4. \A a \in 1 .. m - 1 : qq[new[a]] = s /\ pp[a] = Around(qq, new[a])
    <3> SUFFICES ASSUME NEW a \in 1 .. m - 1 PROVE qq[new[a]] = s /\ pp[a] = Around(qq, new[a])
      OBVIOUS
    <3>1. q[pos[a]] = s /\ p[a] = Around(q, pos[a]) /\ pos[a] \in 1 .. n - 1
      BY <1>2, <2>1
    <3>2. pos[a] # 1 => pos[a] - 1 \in 1 .. n - 1
      BY <3>1, <1>1
    <3> QED
      BY <1>8, <1>9, <2>2, <3>1, <3>2, Zenon DEF Around
  <2>5. ASSUME NEW j \in 1 .. n - 1, qq[j] = s PROVE \E a \in 1 .. m - 1 : new[a] = j
    <3>1. j \in 1 .. n /\ q[j] = s
      BY <1>1, <1>9, <2>5
    <3>2. PICK a \in 1 .. m : pos[a] = j
      BY <1>2, <3>1
    <3>3. a # m
      BY <1>1, <1>4, <1>5, <3>2
    <3> QED
      BY <1>1, <2>2, <3>2, <3>3
  <2>6. SavedIn(pp, m - 1, qq, n - 1, s)
    BY <2>2, <2>3, <2>4, <2>5, Zenon DEF SavedIn
  <2> QED
    BY <1>8, <1>9, <2>6, Zenon DEF Saved
<1>14. q = Append(qq, s)
  <2>1. s \in T
    BY <1>1, <1>3
  <2>2. PICK r : r = Append(qq, s)
    BY Zenon
  <2>3. r \in Seq(T)
    BY <1>9, <2>1, <2>2
  <2>4. Len(r) = n /\ r[n] = s /\ \A a \in 1 .. n - 1 : r[a] = qq[a]
    BY <1>1, <1>3, <1>9, <2>2
  <2>5. \A a \in 1 .. n : a = n \/ a \in 1 .. n - 1
    BY <1>1
  <2>6. \A a \in 1 .. n : r[a] = q[a]
    BY <1>3, <1>9, <2>4, <2>5, Zenon
  <2>7. r = q
    BY <1>1, <2>4, <2>6, <2>3
  <2> QED
    BY <2>2, <2>7
<1> QED
  BY <1>0, <1>6, <1>7, <1>8, <1>9, <1>10, <1>11, <1>12, <1>13, <1>14
LEMMA ContextStart == ContextInit => ContextInv
<1> SUFFICES ASSUME ContextInit PROVE ContextInv
  OBVIOUS
<1>1. <<>> \in Seq(Streams \cup {Default}) /\ \A t : <<>> \in Seq(StreamsOf(t))
  OBVIOUS
<1>2. \A s : Saved(<<>>, <<>>, s)
  <2>1. Len(<<>>) = 0 /\ 1 .. 0 = {}
    OBVIOUS
  <2>2. [x \in {} |-> 0] \in [{} -> {}]
    OBVIOUS
  <2> QED
    BY <2>1, <2>2, Zenon DEF Saved, SavedIn
<1>3. \A t \in CtxThreads : Entered(t) = <<>>
  BY DEF Entered, ContextInit
<1>4. \A t \in CtxThreads : \A s \in StreamsOf(t) : Saved(prev[s], Entered(t), s)
  BY <1>2, <1>3 DEF ContextInit, StreamsOf
<1>5. InnermostIsCurrent
  BY DEF ContextInit, InnermostIsCurrent
<1> QED
  BY <1>1, <1>4, <1>5 DEF ContextInit, ContextInv

\* What the innermost block of a thread is, in terms of InnermostOf.
LEMMA CurrentIs == InnermostIsCurrent <=> \A t \in CtxThreads : current[t] = InnermostOf(blocks[t])
  BY SMTT(30) DEF InnermostIsCurrent, InnermostOf

\* A step changes the stack of a stream its own thread uses.
LEMMA EnterSaveKeeps ==
    ASSUME PrivateStreams, ContextInv, NEW t \in CtxThreads, NEW s \in Streams, EnterSave(t, s)
    PROVE  ContextInv'
<1> USE DEF StreamsOf
<1>1. s \in StreamsOf(t) /\ s # Default /\ \A u \in CtxThreads : s \in StreamsOf(u) => u = t
  BY UsersAssumption, ZenonT(60) DEF PrivateStreams, EnterSave
<1>2. /\ prev' \in [Streams -> Seq(Streams \cup {Default})]
      /\ prev'[s] = Append(prev[s], current[t])
      /\ \A r \in Streams : r # s => prev'[r] = prev[r]
  BY SMTT(30) DEF ContextInv, EnterSave, Push
<1>3. /\ entering' \in [CtxThreads -> Streams \cup {Default}]
      /\ entering'[t] = s /\ \A u \in CtxThreads : u # t => entering'[u] = entering[u]
  BY DEF ContextInv, EnterSave
<1>4. UNCHANGED <<current, blocks, raised>>
  BY Zenon DEF EnterSave
<1>5. ASSUME NEW u \in CtxThreads PROVE entering'[u] \in StreamsOf(u) \cup {Default}
  BY <1>1, <1>3, Zenon DEF ContextInv
<1>6. ASSUME NEW u \in CtxThreads, NEW r \in StreamsOf(u) PROVE Saved(prev[r], Entered(u), r)'
  <2>1. Saved(prev[r], Entered(u), r)
    BY Zenon DEF ContextInv
  <2>2. prev[r] \in Seq(Streams \cup {Default}) /\ blocks[u] \in Seq(StreamsOf(u))
    BY DEF ContextInv
  <2>3. CASE u # t
    <3>1. Entered(u)' = Entered(u)
      BY <1>3, <1>4, <2>3 DEF Entered
    <3>2. prev'[r] = prev[r]
      BY <1>1, <1>2, <2>3
    <3> QED
      BY <2>1, <3>1, <3>2
  <2>4. CASE u = t
    <3>1. Entered(t) = blocks[t] /\ Entered(t)' = Append(blocks[t], s)
      BY <1>1, <1>3, <1>4 DEF Entered, EnterSave
    <3>2. CASE r = s
      <4>1. current[t] = InnermostOf(blocks[t])
        BY CurrentIs DEF ContextInv
      <4>2. Saved(Append(prev[s], InnermostOf(blocks[t])), Append(blocks[t], s), s)
        BY <2>1, <2>2, <2>4, <3>1, <3>2, SavedPush, Zenon
      <4> QED
        BY <1>2, <2>4, <3>1, <3>2, <4>1, <4>2, Zenon
    <3>3. CASE r # s
      <4>1. Saved(prev[r], Append(blocks[t], s), r)
        BY <2>1, <2>2, <2>4, <3>1, <3>3, SavedOther, ZenonT(60)
      <4> QED
        BY <1>2, <2>4, <3>1, <3>3, <4>1
    <3> QED
      BY <3>2, <3>3, Zenon
  <2> QED
    BY <2>3, <2>4, Zenon
<1>7. InnermostIsCurrent'
  BY <1>4 DEF ContextInv, InnermostIsCurrent
<1> QED
  BY <1>2, <1>3, <1>4, <1>5, <1>6, <1>7, Zenon DEF ContextInv

LEMMA EnterSetKeeps ==
    ASSUME ContextInv, NEW t \in CtxThreads, EnterSet(t)
    PROVE  ContextInv'
<1> USE DEF StreamsOf
<1>1. PICK s \in Streams : s = entering[t] /\ s \in StreamsOf(t) /\ s # Default
  BY Zenon DEF ContextInv, EnterSet
<1>2. blocks[t] \in Seq(StreamsOf(t))
  BY DEF ContextInv
<1>3. PICK bs : bs = Append(blocks[t], s)
  BY Zenon
<1>4. bs \in Seq(StreamsOf(t)) /\ bs # <<>> /\ Top(bs) = s
  BY <1>1, <1>2, <1>3 DEF Top
<1>5. /\ DOMAIN blocks' = CtxThreads
      /\ blocks'[t] = bs /\ \A u \in CtxThreads : u # t => blocks'[u] = blocks[u]
  BY <1>1, <1>3 DEF ContextInv, EnterSet
<1>6. /\ current' \in [CtxThreads -> Streams \cup {Default}]
      /\ current'[t] = s /\ \A u \in CtxThreads : u # t => current'[u] = current[u]
  BY <1>1, ZenonT(60) DEF ContextInv, EnterSet
<1>7. /\ entering' \in [CtxThreads -> Streams \cup {Default}]
      /\ entering'[t] = Default /\ \A u \in CtxThreads : u # t => entering'[u] = entering[u]
  BY DEF ContextInv, EnterSet
<1>8. UNCHANGED <<prev, raised>>
  BY DEF EnterSet
<1>9. ASSUME NEW u \in CtxThreads
      PROVE  /\ Entered(u)' = Entered(u)
             /\ blocks'[u] \in Seq(StreamsOf(u)) /\ entering'[u] \in StreamsOf(u) \cup {Default}
  <2>1. CASE u = t
    BY <1>1, <1>3, <1>4, <1>5, <1>7, <2>1, ZenonT(30) DEF Entered
  <2>2. CASE u # t
    <3>1. blocks'[u] = blocks[u] /\ entering'[u] = entering[u]
      BY <1>5, <1>7, <2>2, Zenon
    <3>2. Entered(u)' = Entered(u)
      BY <3>1, Zenon DEF Entered
    <3> QED
      BY <3>1, <3>2, Zenon DEF ContextInv
  <2> QED
    BY <2>1, <2>2, Zenon
<1>10. \A u \in CtxThreads : \A r \in StreamsOf(u) : Saved(prev[r], Entered(u), r)'
  BY <1>8, <1>9, Zenon DEF ContextInv
<1>11. InnermostIsCurrent'
  BY <1>4, <1>5, <1>6, Zenon DEF ContextInv, InnermostIsCurrent
<1> QED
  BY <1>5, <1>6, <1>7, <1>8, <1>9, <1>10, <1>11, Zenon DEF ContextInv

LEMMA ExitKeeps ==
    ASSUME PrivateStreams, ContextInv, NEW t \in CtxThreads, Exit(t)
    PROVE  ContextInv'
<1> USE DEF StreamsOf
<1>1. blocks[t] \in Seq(StreamsOf(t)) /\ blocks[t] # <<>> /\ entering[t] = Default
  BY DEF ContextInv, Exit
<1>2. PICK s : s = Top(blocks[t])
  BY Zenon
<1>3. s \in StreamsOf(t)
  <2> HIDE DEF StreamsOf
  <2>1. PICK T, q : T = StreamsOf(t) /\ q = blocks[t] /\ q \in Seq(T)
    BY <1>1, Zenon
  <2>2. Len(q) \in 1 .. Len(q)
    BY <1>1, <2>1
  <2> QED
    BY <1>2, <2>1, <2>2 DEF Top
<1>4. \A u \in CtxThreads : s \in StreamsOf(u) => u = t
  BY <1>3, ZenonT(60) DEF PrivateStreams
<1>5. prev[s] \in Seq(Streams \cup {Default}) /\ Entered(t) = blocks[t]
  BY <1>1, <1>3, ZenonT(60) DEF ContextInv, Entered
<1>6. Saved(prev[s], blocks[t], s)
  BY <1>3, <1>5 DEF ContextInv
<1>7. /\ prev[s] # <<>> /\ Pop(prev[s]) \in Seq(Streams \cup {Default})
      /\ Pop(blocks[t]) \in Seq(StreamsOf(t))
      /\ Top(prev[s]) = InnermostOf(Pop(blocks[t])) /\ Saved(Pop(prev[s]), Pop(blocks[t]), s)
      /\ blocks[t] = Append(Pop(blocks[t]), s)
  <2> HIDE DEF StreamsOf
  <2>1. PICK S, T : S = Streams \cup {Default} /\ T = StreamsOf(t)
    BY Zenon
  <2>2. PICK p \in Seq(S), q \in Seq(T) : p = prev[s] /\ q = blocks[t]
    BY <1>1, <1>5, <2>1, Zenon
  <2>3. q # <<>> /\ Saved(p, q, Top(q))
    BY <1>1, <1>2, <1>6, <2>2, Zenon
  <2>4. /\ p # <<>> /\ Pop(p) \in Seq(S) /\ Pop(q) \in Seq(T)
        /\ Top(p) = InnermostOf(Pop(q)) /\ Saved(Pop(p), Pop(q), Top(q))
        /\ q = Append(Pop(q), Top(q))
    BY <2>2, <2>3, SavedPop, ZenonT(60)
  <2> QED
    BY <1>2, <2>1, <2>2, <2>4, Zenon
<1>8. PICK bs : bs = Pop(blocks[t])
  BY Zenon
<1>9. PICK c : c = Top(prev[s])
  BY Zenon
<1>10. c \in Streams \cup {Default}
  BY <1>5, <1>7, <1>9, SMTT(30) DEF Top
<1>11. /\ DOMAIN blocks' = CtxThreads
       /\ blocks'[t] = bs /\ \A u \in CtxThreads : u # t => blocks'[u] = blocks[u]
  BY <1>8 DEF ContextInv, Exit
<1>12. /\ current' \in [CtxThreads -> Streams \cup {Default}]
       /\ current'[t] = c /\ \A u \in CtxThreads : u # t => current'[u] = current[u]
  BY <1>2, <1>7, <1>9, <1>10, Zenon DEF ContextInv, Exit
<1>13. /\ prev' \in [Streams -> Seq(Streams \cup {Default})]
       /\ prev'[s] = Pop(prev[s]) /\ \A r \in Streams : r # s => prev'[r] = prev[r]
  BY <1>2, <1>3, <1>7, Zenon DEF ContextInv, Exit
<1>14. UNCHANGED <<entering, raised>>
  BY <1>2, <1>7, Zenon DEF Exit
<1>15. \A u \in CtxThreads : u # t => Entered(u)' = Entered(u)
  BY <1>11, <1>14 DEF Entered
<1>16. Entered(t)' = bs
  BY <1>1, <1>11, <1>14 DEF Entered
<1>17. ASSUME NEW u \in CtxThreads PROVE blocks'[u] \in Seq(StreamsOf(u))
  BY <1>7, <1>8, <1>11, Zenon DEF ContextInv
<1>18. ASSUME NEW u \in CtxThreads, NEW r \in StreamsOf(u) PROVE Saved(prev[r], Entered(u), r)'
  <2>1. Saved(prev[r], Entered(u), r) /\ prev[r] \in Seq(Streams \cup {Default})
    BY DEF ContextInv
  <2>2. CASE u # t
    BY <1>4, <1>13, <1>15, <2>1, <2>2, Zenon
  <2>3. CASE u = t /\ r = s
    BY <1>7, <1>8, <1>13, <1>16, <2>3, Zenon
  <2>4. CASE u = t /\ r # s
    <3>1. Saved(prev[r], Append(bs, s), r)
      BY <1>5, <1>7, <1>8, <2>1, <2>4, Zenon
    <3>2. Saved(prev[r], bs, r)
      BY <1>7, <1>8, <2>1, <2>4, <3>1, SavedOther, Zenon
    <3> QED
      BY <1>13, <1>16, <2>4, <3>2
  <2> QED
    BY <2>2, <2>3, <2>4, Zenon
<1>19. ASSUME NEW u \in CtxThreads PROVE current'[u] = InnermostOf(blocks'[u])
  <2>1. current[u] = InnermostOf(blocks[u])
    BY CurrentIs, Zenon DEF ContextInv
  <2> QED
    BY <1>7, <1>8, <1>9, <1>11, <1>12, <2>1, ZenonT(30)
<1>20. InnermostIsCurrent'
  BY <1>19 DEF InnermostIsCurrent, InnermostOf
<1> QED
  BY <1>11, <1>12, <1>13, <1>14, <1>17, <1>18, <1>20, Zenon DEF ContextInv

\* For any number of threads, streams and nested blocks: when no Stream object
\* is shared by threads, the stack in the object gives every __exit__ the stream
\* that was current before its block, whatever the other threads do between the
\* two statements of an __enter__.
THEOREM WithBlocksRestore == ASSUME PrivateStreams PROVE ContextSpec => []InnermostIsCurrent
<1>1. ContextInv /\ [ContextNext]_contextVars => ContextInv'
  <2> SUFFICES ASSUME ContextInv, [ContextNext]_contextVars PROVE ContextInv'
    OBVIOUS
  <2>1. ASSUME NEW t \in CtxThreads, NEW s \in Streams, EnterSave(t, s) PROVE ContextInv'
    BY <2>1, EnterSaveKeeps
  <2>2. ASSUME NEW t \in CtxThreads, EnterSet(t) PROVE ContextInv'
    BY <2>2, EnterSetKeeps
  <2>3. ASSUME NEW t \in CtxThreads, Exit(t) PROVE ContextInv'
    BY <2>3, ExitKeeps
  <2>4. CASE UNCHANGED contextVars
    <3>1. \A t \in CtxThreads : Entered(t)' = Entered(t)
      BY <2>4 DEF contextVars, Entered
    <3> QED
      BY <2>4, <3>1, Zenon DEF contextVars, ContextInv, InnermostIsCurrent
  <2> QED
    BY <2>1, <2>2, <2>3, <2>4 DEF ContextNext
<1>2. ContextInv => InnermostIsCurrent
  BY DEF ContextInv
<1> QED
  BY <1>1, <1>2, ContextStart, PTL DEF ContextSpec
================================================================================
