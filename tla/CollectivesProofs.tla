--------------------------- MODULE CollectivesProofs ---------------------------
(*****************************************************************************)
(* Proofs about Collectives, for any number of callers, storages, plans and  *)
(* schedules.                                                                *)
(*****************************************************************************)
EXTENDS Collectives, FiniteSetTheorems, TLAPS

Queue == Seq([op : {"comm", "use"}, work : Nat])

CollTypeOK ==
    /\ pending \in [Allocs -> PendingWork \cup {Nothing}]
    /\ local \in [Waiters -> PendingWork \cup {Nothing}]
    /\ works \in Seq([borrowed : SUBSET Allocs, state : {"running", "done", "error"}])
    /\ comms \subseteq 1 .. Len(works) /\ user \subseteq Allocs
    /\ pc \in [Waiters -> {"idle", "taken", "assemble", "unwinding"}]
    /\ stream \in [Waiters -> StreamNames]
    /\ queue \in [StreamNames -> Queue]
    /\ enforce \in BOOLEAN /\ broken \in BOOLEAN /\ late \in BOOLEAN

Running(w) == works[w].state = "running"

\* An entry is filed under the storage it delivers and keeps what its schedule
\* borrows.
EntryInv ==
    \A a \in Allocs : pending[a] # Nothing =>
        /\ pending[a].key = a /\ a \in pending[a].hold
        /\ pending[a].work \in 1 .. Len(works)
        /\ pending[a].keep = works[pending[a].work].borrowed

\* The entry of a wait_work call, or the schedule an exception destroys, at
\* each point of the call.
WaiterInv ==
    \A t \in Waiters :
        /\ pc[t] = "idle" <=> local[t] = Nothing
        /\ local[t] # Nothing =>
             local[t].key \in user /\ local[t].work \in 1 .. Len(works)
        /\ pc[t] = "taken" => local[t].keep = works[local[t].work].borrowed
        /\ pc[t] = "assemble" /\ Running(local[t].work) =>
             local[t].work \in comms /\ stream[t] = "default"

\* No two entries, calls, or entry and call, have the same schedule.
OwnerInv ==
    /\ \A a, b \in Allocs : pending[a] # Nothing /\ pending[b] # Nothing /\ a # b =>
         pending[a].work # pending[b].work
    /\ \A t, u \in Waiters : local[t] # Nothing /\ local[u] # Nothing /\ t # u =>
         local[t].work # local[u].work
    /\ \A a \in Allocs, t \in Waiters : pending[a] # Nothing /\ local[t] # Nothing =>
         pending[a].work # local[t].work

\* While the default stream is healthy a running schedule is with the library,
\* in the map, or with a call that keeps what it borrows or was given it.
RunningInv ==
    ~broken =>
      \A w \in 1 .. Len(works) : Running(w) =>
        \/ w \in comms
        \/ \E a \in Allocs : pending[a] # Nothing /\ pending[a].work = w
        \/ \E t \in Waiters :
             /\ local[t] # Nothing /\ local[t].work = w
             /\ works[w].borrowed \subseteq local[t].keep \cup {local[t].key}

\* A running schedule is still in the queue of the default stream, and what
\* uses its result before it is over comes after it in that queue.
QueueInv ==
    /\ \A s \in StreamNames : \A i \in 1 .. Len(queue[s]) : queue[s][i].work \in 1 .. Len(works)
    /\ \A w \in 1 .. Len(works) : Running(w) =>
         \E i \in 1 .. Len(queue["default"]) : queue["default"][i] = [op |-> "comm", work |-> w]
    /\ \A s \in StreamNames : \A i \in 1 .. Len(queue[s]) :
         queue[s][i].op = "use" /\ Running(queue[s][i].work) =>
             /\ s = "default"
             /\ \E j \in 1 .. (i - 1) :
                  queue["default"][j] = [op |-> "comm", work |-> queue[s][i].work]

CollInv == CollTypeOK /\ EntryInv /\ WaiterInv /\ OwnerInv /\ RunningInv /\ QueueInv /\ ~late

-----------------------------------------------------------------------------
Work == [borrowed : SUBSET Allocs, state : {"running", "done", "error"}]

\* Which storages are alive, reference by reference.
LEMMA AliveMember ==
    ASSUME NEW x
    PROVE  x \in Alive <=>
             \/ x \in user
             \/ \E a \in Allocs : pending[a] # Nothing /\ x \in HeldBy(pending[a])
             \/ \E t \in Waiters : local[t] # Nothing /\ x \in HeldBy(local[t])
             \/ \E w \in comms : x \in works[w].borrowed
<1>1. x \in UNION {HeldBy(p) : p \in Filed \ {Nothing}} <=>
          \E p \in Filed : p # Nothing /\ x \in HeldBy(p)
  BY Zenon
<1>2. \A p : p \in Filed <=> (\E a \in Allocs : p = pending[a]) \/ (\E t \in Waiters : p = local[t])
  BY Zenon DEF Filed
<1>3. x \in UNION {works[w].borrowed : w \in comms} <=> \E w \in comms : x \in works[w].borrowed
  BY Zenon
<1>4. x \in Alive <=> \/ x \in user
                      \/ x \in UNION {HeldBy(p) : p \in Filed \ {Nothing}}
                      \/ x \in UNION {works[w].borrowed : w \in comms}
  BY Zenon DEF Alive
<1>5. (\E p \in Filed : p # Nothing /\ x \in HeldBy(p)) <=>
          \/ \E a \in Allocs : pending[a] # Nothing /\ x \in HeldBy(pending[a])
          \/ \E t \in Waiters : local[t] # Nothing /\ x \in HeldBy(local[t])
  <2>1. ASSUME NEW p \in Filed, p # Nothing, x \in HeldBy(p)
        PROVE  \/ \E a \in Allocs : pending[a] # Nothing /\ x \in HeldBy(pending[a])
               \/ \E t \in Waiters : local[t] # Nothing /\ x \in HeldBy(local[t])
    BY <1>2, <2>1, Zenon
  <2>2. \A a \in Allocs : pending[a] \in Filed
    BY <1>2
  <2>3. \A t \in Waiters : local[t] \in Filed
    BY <1>2
  <2> QED
    BY <2>1, <2>2, <2>3, Zenon
<1> QED
  BY <1>1, <1>3, <1>4, <1>5

LEMMA InitCollInv == CollInit => CollInv
<1> SUFFICES ASSUME CollInit PROVE CollInv
  OBVIOUS
<1>1. CollTypeOK
  <2>1. <<>> \in Queue
    BY DEF Queue
  <2>2. queue \in [StreamNames -> Queue] /\ works \in Seq(Work) /\ comms = {}
    BY <2>1 DEF CollInit
  <2> QED
    BY <2>2, Zenon DEF CollInit, CollTypeOK, Work
<1> QED
  BY <1>1 DEF CollInit, CollInv, EntryInv, WaiterInv, OwnerInv, RunningInv, QueueInv

\* start(): the schedule is numbered one up and joins the default stream.
LEMMA StartFacts ==
    ASSUME CollInv, NEW borrowed \in SUBSET Allocs, Start(borrowed)
    PROVE  /\ works' \in Seq(Work) /\ Len(works') = Len(works) + 1
           /\ \A w \in 1 .. Len(works) : works'[w] = works[w]
           /\ works'[Len(works) + 1] = [borrowed |-> borrowed, state |-> "running"]
           /\ queue' \in [StreamNames -> Queue] /\ QueueInv'
<1>1. works \in Seq(Work) /\ queue \in [StreamNames -> Queue]
  BY DEF CollInv, CollTypeOK, Work
<1>2. PICK n \in Nat : n = Len(works)
  BY <1>1
<1>3. [borrowed |-> borrowed, state |-> "running"] \in Work
  BY DEF Work
<1>4. /\ works' \in Seq(Work) /\ Len(works') = n + 1
      /\ \A w \in 1 .. n : works'[w] = works[w]
      /\ works'[n + 1] = [borrowed |-> borrowed, state |-> "running"]
  BY <1>1, <1>2, <1>3 DEF Start
<1>5. PICK op \in [op : {"comm", "use"}, work : Nat] :
        /\ op = [op |-> "comm", work |-> n + 1]
        /\ queue' = [queue EXCEPT !["default"] = Append(@, op)]
  <2>1. [op |-> "comm", work |-> n + 1] \in [op : {"comm", "use"}, work : Nat]
    BY <1>2
  <2>2. queue' = [queue EXCEPT !["default"] = Append(@, [op |-> "comm", work |-> n + 1])]
    BY <1>2 DEF Start
  <2> QED
    BY <2>1, <2>2, Zenon
<1>6. "default" \in StreamNames /\ queue["default"] \in Queue
  BY <1>1 DEF StreamNames
<1>7. PICK m \in Nat : m = Len(queue["default"])
  BY <1>6 DEF Queue
<1>8. /\ queue' \in [StreamNames -> Queue]
      /\ queue'["default"] = Append(queue["default"], op)
      /\ \A s \in StreamNames : s # "default" => queue'[s] = queue[s]
  BY <1>1, <1>5, <1>6 DEF Queue
<1>9. /\ Len(queue'["default"]) = m + 1 /\ queue'["default"][m + 1] = op
      /\ \A i \in 1 .. m : queue'["default"][i] = queue["default"][i]
  BY <1>6, <1>7, <1>8 DEF Queue
<1>10. ASSUME NEW s \in StreamNames, NEW i \in 1 .. Len(queue'[s])
       PROVE  \/ i \in 1 .. Len(queue[s]) /\ queue'[s][i] = queue[s][i]
              \/ s = "default" /\ i = m + 1 /\ queue'[s][i] = op
  <2>1. CASE s # "default"
    BY <1>8, <1>10, <2>1, Zenon
  <2>2. CASE s = "default"
    <3>1. i \in 1 .. m + 1
      BY <1>9, <1>10, <2>2, Zenon
    <3>2. i \in 1 .. m \/ i = m + 1
      BY <1>7, <3>1
    <3> QED
      BY <1>7, <1>9, <2>2, <3>2, ZenonT(60)
  <2> QED
    BY <2>1, <2>2, Zenon
<1>11. QueueInv'
  <2>1. \A s \in StreamNames : \A i \in 1 .. Len(queue'[s]) : queue'[s][i].work \in 1 .. Len(works')
    BY <1>2, <1>4, <1>5, <1>10 DEF CollInv, QueueInv
  <2>2. ASSUME NEW w \in 1 .. Len(works'), works'[w].state = "running"
        PROVE  \E i \in 1 .. Len(queue'["default"]) : queue'["default"][i] = [op |-> "comm", work |-> w]
    <3>1. CASE w = n + 1
      BY <1>5, <1>9, <3>1
    <3>2. CASE w \in 1 .. n
      <4>1. PICK i \in 1 .. m : queue["default"][i] = [op |-> "comm", work |-> w]
        BY <1>2, <1>4, <1>7, <2>2, <3>2, ZenonT(60) DEF CollInv, QueueInv, Running
      <4>2. i \in 1 .. m + 1
        BY <1>7, <4>1
      <4> QED
        BY <1>9, <4>1, <4>2, Zenon
    <3> QED
      BY <1>4, <3>1, <3>2
  <2>3. ASSUME NEW s \in StreamNames, NEW i \in 1 .. Len(queue'[s]), queue'[s][i].op = "use",
               works'[queue'[s][i].work].state = "running"
        PROVE  /\ s = "default"
               /\ \E j \in 1 .. (i - 1) :
                    queue'["default"][j] = [op |-> "comm", work |-> queue'[s][i].work]
    <3>1. i \in 1 .. Len(queue[s]) /\ queue'[s][i] = queue[s][i]
      BY <1>5, <1>10, <2>3
    <3>2. works'[queue[s][i].work] = works[queue[s][i].work]
      BY <1>2, <1>4, <3>1 DEF CollInv, QueueInv
    <3>3. s = "default" /\ \E j \in 1 .. (i - 1) :
                    queue["default"][j] = [op |-> "comm", work |-> queue[s][i].work]
      BY <2>3, <3>1, <3>2 DEF CollInv, QueueInv, Running
    <3>4. PICK j \in 1 .. (i - 1) :
                    queue["default"][j] = [op |-> "comm", work |-> queue[s][i].work]
      BY <3>3
    <3>5. j \in 1 .. m /\ queue'["default"][j] = queue["default"][j]
      <4>1. i \in 1 .. m
        BY <1>7, <3>1, <3>3, Zenon
      <4>2. j \in 1 .. m
        BY <1>7, <3>4, <4>1
      <4> QED
        BY <1>9, <4>2, Zenon
    <3> QED
      BY <3>1, <3>3, <3>4, <3>5, Zenon
  <2> QED
    BY <2>1, <2>2, <2>3 DEF QueueInv, Running
<1> QED
  BY <1>2, <1>4, <1>8, <1>11

\* A new schedule is filed under a storage nothing is filed under.
LEMMA FileStep ==
    ASSUME CollInv, NEW key \in Allocs, NEW borrowed \in SUBSET Allocs,
           NEW rankOutputs \in SUBSET Allocs,
           pending[key] = Nothing, Start(borrowed), File(key, borrowed, rankOutputs),
           user \subseteq user', user' \subseteq Allocs, UNCHANGED <<local, pc>>, RunFrame
    PROVE  CollInv'
<1> USE NothingAssumption
<1>0. PICK n \in Nat : n = Len(works)
  BY DEF CollInv, CollTypeOK
<1>1. /\ works' \in Seq(Work) /\ Len(works') = n + 1
      /\ \A w \in 1 .. n : works'[w] = works[w]
      /\ works'[n + 1] = [borrowed |-> borrowed, state |-> "running"]
      /\ queue' \in [StreamNames -> Queue] /\ QueueInv'
  BY <1>0, StartFacts
<1>2. PICK p \in PendingWork :
        /\ p.key = key /\ p.work = n + 1 /\ key \in p.hold /\ p.keep = borrowed
        /\ pending' = [pending EXCEPT ![key] = p]
  <2> DEFINE p == [key |-> key, work |-> n + 1, hold |-> {key} \cup rankOutputs, keep |-> borrowed]
  <2>1. p \in PendingWork /\ p.key = key /\ p.work = n + 1 /\ key \in p.hold /\ p.keep = borrowed
    BY DEF PendingWork
  <2> QED
    BY <1>0, <2>1, Zenon DEF File
<1>3. /\ pending' \in [Allocs -> PendingWork \cup {Nothing}]
      /\ \A a \in Allocs : pending'[a] = IF a = key THEN p ELSE pending[a]
  BY <1>2 DEF CollInv, CollTypeOK
<1>4. CollTypeOK'
  BY <1>0, <1>1, <1>3 DEF CollInv, CollTypeOK, Work, RunFrame
<1>5. EntryInv'
  <2>1. ASSUME NEW a \in Allocs, pending[a] # Nothing
        PROVE  /\ pending[a].key = a /\ a \in pending[a].hold /\ pending[a].work \in 1 .. n
               /\ pending[a].keep = works'[pending[a].work].borrowed
    BY <1>0, <1>1, <2>1 DEF CollInv, EntryInv
  <2> QED
    BY <1>1, <1>2, <1>3, <2>1 DEF EntryInv
<1>6. WaiterInv'
  <2>1. ASSUME NEW t \in Waiters, local[t] # Nothing
        PROVE  /\ local[t].key \in user' /\ local[t].work \in 1 .. n
               /\ works'[local[t].work] = works[local[t].work]
    BY <1>0, <1>1, <2>1 DEF CollInv, WaiterInv
  <2> QED
    BY <1>1, <2>1 DEF CollInv, WaiterInv, Running, RunFrame
<1>7. OwnerInv'
  <2>1. \A a \in Allocs : pending[a] # Nothing => pending[a].work # p.work
    BY <1>0, <1>2 DEF CollInv, EntryInv
  <2>2. \A t \in Waiters : local[t] # Nothing => local[t].work # p.work
    BY <1>0, <1>2 DEF CollInv, WaiterInv
  <2> QED
    BY <1>3, <2>1, <2>2 DEF CollInv, OwnerInv
<1>8. RunningInv'
  <2> SUFFICES ASSUME ~broken, NEW w \in 1 .. n + 1, works'[w].state = "running"
               PROVE  \/ w \in comms
                      \/ \E a \in Allocs : pending'[a] # Nothing /\ pending'[a].work = w
                      \/ \E t \in Waiters :
                           /\ local[t] # Nothing /\ local[t].work = w
                           /\ works'[w].borrowed \subseteq local[t].keep \cup {local[t].key}
    BY <1>1 DEF RunningInv, Running, RunFrame
  <2>1. CASE w = n + 1
    BY <1>2, <1>3, <2>1
  <2>2. CASE w \in 1 .. n
    <3>1. works'[w] = works[w]
      BY <1>1, <2>2
    <3>2. \/ w \in comms
          \/ \E a \in Allocs : pending[a] # Nothing /\ pending[a].work = w
          \/ \E t \in Waiters :
               /\ local[t] # Nothing /\ local[t].work = w
               /\ works[w].borrowed \subseteq local[t].keep \cup {local[t].key}
      BY <1>0, <2>2, <3>1 DEF CollInv, RunningInv, Running
    <3> QED
      BY <1>3, <3>1, <3>2
  <2> QED
    BY <2>1, <2>2
<1> QED
  BY <1>1, <1>4, <1>5, <1>6, <1>7, <1>8 DEF CollInv, RunFrame

\* A storage nobody references has no entry.
LEMMA FreshHasNoEntry ==
    ASSUME CollInv, NEW a \in Allocs, a \notin Alive
    PROVE  pending[a] = Nothing
BY AliveMember DEF CollInv, EntryInv, HeldBy

\* allreduce_run on a tensor that still has an entry: the schedule belongs to
\* the unwinding call, whose caller holds the tensor.
LEMMA DuplicateStep ==
    ASSUME CollInv, NEW t \in Waiters, NEW in \in Allocs, in \in user,
           pc[t] = "idle", Start({in}),
           pc' = [pc EXCEPT ![t] = "unwinding"],
           local' = [local EXCEPT ![t] =
               [key |-> in, work |-> Len(works) + 1, hold |-> {}, keep |-> {}]],
           UNCHANGED <<pending, user>>, RunFrame
    PROVE  CollInv'
<1> USE NothingAssumption
<1>0. PICK n \in Nat : n = Len(works)
  BY DEF CollInv, CollTypeOK
<1>1. /\ works' \in Seq(Work) /\ Len(works') = n + 1
      /\ \A w \in 1 .. n : works'[w] = works[w]
      /\ works'[n + 1] = [borrowed |-> {in}, state |-> "running"]
      /\ queue' \in [StreamNames -> Queue] /\ QueueInv'
  <2>1. PICK b \in SUBSET Allocs : b = {in}
    BY Zenon
  <2> QED
    BY <1>0, <2>1, StartFacts, Zenon
<1>2. PICK p \in PendingWork :
        /\ p.key = in /\ p.work = n + 1
        /\ local' = [local EXCEPT ![t] = p]
  <2> DEFINE p == [key |-> in, work |-> n + 1, hold |-> {}, keep |-> {}]
  <2>1. p \in PendingWork /\ p.key = in /\ p.work = n + 1
    BY DEF PendingWork
  <2> QED
    BY <1>0, <2>1, Zenon
<1>3. /\ local' \in [Waiters -> PendingWork \cup {Nothing}]
      /\ \A u \in Waiters : local'[u] = IF u = t THEN p ELSE local[u]
      /\ pc' \in [Waiters -> {"idle", "taken", "assemble", "unwinding"}]
      /\ \A u \in Waiters : pc'[u] = IF u = t THEN "unwinding" ELSE pc[u]
  BY <1>2, ZenonT(60) DEF CollInv, CollTypeOK
<1>4. CollTypeOK'
  BY <1>0, <1>1, <1>3 DEF CollInv, CollTypeOK, Work, RunFrame
<1>5. EntryInv'
  BY <1>0, <1>1 DEF CollInv, EntryInv
<1>6. WaiterInv'
  <2>1. ASSUME NEW u \in Waiters, local[u] # Nothing
        PROVE  /\ local[u].key \in user /\ local[u].work \in 1 .. n
               /\ works'[local[u].work] = works[local[u].work]
    BY <1>0, <1>1, <2>1, ZenonT(60) DEF CollInv, WaiterInv
  <2>2. ASSUME NEW u \in Waiters \ {t}
        PROVE  /\ pc'[u] = "idle" <=> local'[u] = Nothing
               /\ local'[u] # Nothing => local'[u].key \in user /\ local'[u].work \in 1 .. n + 1
               /\ pc'[u] = "taken" => local'[u].keep = works'[local'[u].work].borrowed
               /\ pc'[u] = "assemble" /\ Running(local[u].work)' =>
                    local'[u].work \in comms /\ stream[u] = "default"
    BY <1>0, <1>3, <2>1 DEF CollInv, WaiterInv, Running
  <2>3. /\ pc'[t] = "unwinding" /\ local'[t] = p /\ p # Nothing
        /\ p.key \in user /\ p.work \in 1 .. n + 1
    BY <1>2, <1>3
  <2> QED
    BY <1>1, <1>3, <2>2, <2>3, ZenonT(60) DEF WaiterInv, Running, RunFrame
<1>7. OwnerInv'
  <2>1. \A a \in Allocs : pending[a] # Nothing => pending[a].work # p.work
    BY <1>0, <1>2 DEF CollInv, EntryInv
  <2>2. \A u \in Waiters : local[u] # Nothing => local[u].work # p.work
    BY <1>0, <1>2 DEF CollInv, WaiterInv
  <2> QED
    BY <1>3, <2>1, <2>2 DEF CollInv, OwnerInv
<1>8. RunningInv'
  <2> SUFFICES ASSUME ~broken, NEW w \in 1 .. n + 1, works'[w].state = "running"
               PROVE  \/ w \in comms
                      \/ \E a \in Allocs : pending[a] # Nothing /\ pending[a].work = w
                      \/ \E u \in Waiters :
                           /\ local'[u] # Nothing /\ local'[u].work = w
                           /\ works'[w].borrowed \subseteq local'[u].keep \cup {local'[u].key}
    BY <1>1 DEF RunningInv, Running, RunFrame
  <2>1. CASE w = n + 1
    <3>1. local'[t] = p /\ p # Nothing /\ works'[w].borrowed = {p.key}
      BY <1>1, <1>2, <1>3, <2>1
    <3> QED
      BY <1>2, <2>1, <3>1, Zenon
  <2>2. CASE w \in 1 .. n
    <3>1. works'[w] = works[w]
      BY <1>1, <2>2
    <3>2. \/ w \in comms
          \/ \E a \in Allocs : pending[a] # Nothing /\ pending[a].work = w
          \/ \E u \in Waiters :
               /\ local[u] # Nothing /\ local[u].work = w
               /\ works[w].borrowed \subseteq local[u].keep \cup {local[u].key}
      BY <1>0, <2>2, <3>1 DEF CollInv, RunningInv, Running
    <3>3. local[t] = Nothing
      BY DEF CollInv, WaiterInv
    <3> QED
      BY <1>3, <3>1, <3>2, <3>3
  <2> QED
    BY <2>1, <2>2
<1> QED
  BY <1>1, <1>4, <1>5, <1>6, <1>7, <1>8 DEF CollInv, RunFrame

LEMMA QueueFrame ==
    ASSUME QueueInv, UNCHANGED <<works, queue>>
    PROVE  QueueInv'
<1>1. works' = works /\ queue' = queue
  OBVIOUS
<1> QED
  BY <1>1, SMTT(30) DEF QueueInv, Running

\* wait_work moves the entry out of the map: what the map kept, the call keeps.
LEMMA TakeEntryStep ==
    ASSUME CollInv, NEW t \in Waiters, NEW a \in Allocs, TakeEntry(t, a)
    PROVE  CollInv'
<1> USE NothingAssumption
<1>1. PICK p \in PendingWork : p = pending[a]
  BY DEF CollInv, CollTypeOK, TakeEntry
<1>2. /\ local' \in [Waiters -> PendingWork \cup {Nothing}]
      /\ \A u \in Waiters : local'[u] = IF u = t THEN p ELSE local[u]
      /\ pc' \in [Waiters -> {"idle", "taken", "assemble", "unwinding"}]
      /\ \A u \in Waiters : pc'[u] = IF u = t THEN "taken" ELSE pc[u]
      /\ pending' \in [Allocs -> PendingWork \cup {Nothing}]
      /\ \A b \in Allocs : pending'[b] = IF b = a THEN Nothing ELSE pending[b]
  BY <1>1 DEF CollInv, CollTypeOK, TakeEntry
<1>3. UNCHANGED <<comms, user, queue, works, stream, enforce, broken, late>> /\ a \in user /\ pc[t] = "idle"
  BY DEF TakeEntry, WaitFrame
<1>4. p.key = a /\ p.work \in 1 .. Len(works) /\ p.keep = works[p.work].borrowed /\ p # Nothing
  BY <1>1 DEF CollInv, EntryInv
<1>5. CollTypeOK'
  BY <1>2, <1>3, ZenonT(60) DEF CollInv, CollTypeOK
<1>6. EntryInv'
  BY <1>2, <1>3 DEF CollInv, EntryInv
<1>7. WaiterInv'
  BY <1>2, <1>3, <1>4, ZenonT(60) DEF CollInv, WaiterInv, Running
<1>8. OwnerInv'
  BY <1>1, <1>2, <1>4 DEF CollInv, OwnerInv
<1>9. RunningInv'
  <2> SUFFICES ASSUME ~broken, NEW w \in 1 .. Len(works), Running(w)
               PROVE  \/ w \in comms
                      \/ \E b \in Allocs : pending'[b] # Nothing /\ pending'[b].work = w
                      \/ \E u \in Waiters :
                           /\ local'[u] # Nothing /\ local'[u].work = w
                           /\ works[w].borrowed \subseteq local'[u].keep \cup {local'[u].key}
    BY <1>3 DEF RunningInv, Running
  <2>1. CASE w = p.work
    BY <1>2, <1>4, <2>1
  <2>2. CASE w # p.work
    <3>1. local[t] = Nothing
      BY <1>3 DEF CollInv, WaiterInv
    <3>2. \/ w \in comms
          \/ \E b \in Allocs : pending[b] # Nothing /\ pending[b].work = w
          \/ \E u \in Waiters :
               /\ local[u] # Nothing /\ local[u].work = w
               /\ works[w].borrowed \subseteq local[u].keep \cup {local[u].key}
      BY DEF CollInv, RunningInv
    <3> QED
      BY <1>1, <1>2, <2>2, <3>1, <3>2
  <2> QED
    BY <2>1, <2>2
<1>10. QueueInv'
  BY <1>3, QueueFrame DEF CollInv
<1> QED
  BY <1>3, <1>5, <1>6, <1>7, <1>8, <1>9, <1>10 DEF CollInv

\* A call ends, its schedule being over or with the library.
LEMMA CallEnds ==
    ASSUME CollInv, NEW t \in Waiters, local[t] # Nothing,
           Running(local[t].work) => local[t].work \in comms \/ broken,
           pc' = [pc EXCEPT ![t] = "idle"], local' = [local EXCEPT ![t] = Nothing],
           UNCHANGED <<pending, comms, user, works, stream, enforce, broken>>
    PROVE  EntryInv' /\ WaiterInv' /\ OwnerInv' /\ RunningInv'
<1>1. /\ \A u \in Waiters : local'[u] = IF u = t THEN Nothing ELSE local[u]
      /\ \A u \in Waiters : pc'[u] = IF u = t THEN "idle" ELSE pc[u]
  BY DEF CollInv, CollTypeOK
<1>2. EntryInv'
  BY DEF CollInv, EntryInv
<1>3. WaiterInv'
  BY <1>1 DEF CollInv, WaiterInv, Running
<1>4. OwnerInv'
  BY <1>1 DEF CollInv, OwnerInv
<1>5. RunningInv'
  BY <1>1 DEF CollInv, RunningInv, Running
<1> QED
  BY <1>2, <1>3, <1>4, <1>5, ZenonT(60)

\* The result is used on the caller's stream: behind the schedule if that is
\* not over.
LEMMA AssembleStep ==
    ASSUME CollInv, NEW t \in Waiters, Assemble(t)
    PROVE  CollInv'
<1> USE NothingAssumption
<1>1. /\ local[t] \in PendingWork /\ local[t] # Nothing /\ local[t].work \in 1 .. Len(works)
      /\ Running(local[t].work) => local[t].work \in comms /\ stream[t] = "default"
      /\ stream[t] \in StreamNames
  BY DEF Assemble, CollInv, CollTypeOK, WaiterInv
<1>2. EntryInv' /\ WaiterInv' /\ OwnerInv' /\ RunningInv'
  BY <1>1, CallEnds, Zenon DEF Assemble, WaitFrame
<1>3. PICK r \in StreamNames, w \in 1 .. Len(works), op \in [op : {"comm", "use"}, work : Nat] :
        /\ r = stream[t] /\ w = local[t].work /\ op.op = "use" /\ op.work = w
        /\ queue' = [queue EXCEPT ![r] = Append(@, op)]
  <2> DEFINE op == [op |-> "use", work |-> local[t].work]
  <2>1. op \in [op : {"comm", "use"}, work : Nat] /\ op.op = "use" /\ op.work = local[t].work
    BY <1>1 DEF PendingWork
  <2> QED
    BY <1>1, <2>1, Zenon DEF Assemble
<1>4. queue \in [StreamNames -> Queue] /\ queue[r] \in Queue
  BY DEF CollInv, CollTypeOK
<1>5. PICK m \in Nat : m = Len(queue[r])
  BY <1>4 DEF Queue
<1>6. /\ queue' \in [StreamNames -> Queue]
      /\ queue'[r] = Append(queue[r], op)
      /\ \A s \in StreamNames : s # r => queue'[s] = queue[s]
  BY <1>3, <1>4 DEF Queue
<1>7. /\ Len(queue'[r]) = m + 1 /\ queue'[r][m + 1] = op
      /\ \A i \in 1 .. m : queue'[r][i] = queue[r][i]
  BY <1>4, <1>5, <1>6 DEF Queue
<1>8. UNCHANGED <<pending, comms, user, works, stream, enforce, broken, late>>
  BY DEF Assemble, WaitFrame
<1>9. CollTypeOK'
  BY <1>6, <1>8 DEF Assemble, CollInv, CollTypeOK
<1>10. QueueInv'
  <2>1. ASSUME NEW s \in StreamNames, NEW i \in 1 .. Len(queue[s])
        PROVE  i \in 1 .. Len(queue'[s]) /\ queue'[s][i] = queue[s][i]
    <3>1. CASE s = r
      BY <1>5, <1>7, <3>1
    <3>2. CASE s # r
      BY <1>6, <3>2
    <3> QED
      BY <3>1, <3>2
  <2>2. ASSUME NEW s \in StreamNames, NEW i \in 1 .. Len(queue'[s])
        PROVE  \/ i \in 1 .. Len(queue[s]) /\ queue'[s][i] = queue[s][i]
               \/ s = r /\ i = m + 1 /\ queue'[s][i] = op
    <3>1. CASE s = r
      BY <1>5, <1>7, <3>1, SMTT(30)
    <3>2. CASE s # r
      BY <1>6, <3>2, ZenonT(60)
    <3> QED
      BY <3>1, <3>2
  <2>3. \A s \in StreamNames : \A i \in 1 .. Len(queue'[s]) : queue'[s][i].work \in 1 .. Len(works)
    BY <1>3, <2>2 DEF CollInv, QueueInv
  <2>4. "default" \in StreamNames
    BY DEF StreamNames
  <2>5. ASSUME NEW v \in 1 .. Len(works), Running(v)
        PROVE  \E i \in 1 .. Len(queue["default"]) : /\ i \in 1 .. Len(queue'["default"])
                   /\ queue["default"][i] = [op |-> "comm", work |-> v]
                   /\ queue'["default"][i] = [op |-> "comm", work |-> v]
    <3>1. PICK i \in 1 .. Len(queue["default"]) : queue["default"][i] = [op |-> "comm", work |-> v]
      BY <2>5 DEF CollInv, QueueInv
    <3>2. i \in 1 .. Len(queue'["default"]) /\ queue'["default"][i] = queue["default"][i]
      BY <2>1, <2>4
    <3> QED
      BY <3>1, <3>2
  <2>6. ASSUME NEW s \in StreamNames, NEW i \in 1 .. Len(queue'[s]), queue'[s][i].op = "use",
               Running(queue'[s][i].work)
        PROVE  /\ s = "default"
               /\ \E j \in 1 .. (i - 1) :
                    queue'["default"][j] = [op |-> "comm", work |-> queue'[s][i].work]
    <3>1. CASE i \in 1 .. Len(queue[s]) /\ queue'[s][i] = queue[s][i]
      <4>1. s = "default"
        BY <2>6, <3>1, Zenon DEF CollInv, QueueInv
      <4>2. PICK j \in 1 .. (i - 1) : queue["default"][j] = [op |-> "comm", work |-> queue[s][i].work]
        BY <2>6, <3>1 DEF CollInv, QueueInv
      <4>3. j \in 1 .. Len(queue[s])
        BY <1>4, <1>5, <3>1, <4>1
      <4> QED
        BY <2>1, <3>1, <4>1, <4>2, <4>3, ZenonT(60)
    <3>2. CASE s = r /\ i = m + 1 /\ queue'[s][i] = op
      <4>1. s = "default" /\ Running(w)
        BY <1>1, <1>3, <2>6, <3>2
      <4>2. PICK j \in 1 .. Len(queue["default"]) : queue'["default"][j] = [op |-> "comm", work |-> w]
        BY <2>5, <4>1
      <4> QED
        BY <1>3, <1>5, <3>2, <4>1, <4>2
    <3> QED
      BY <2>2, <3>1, <3>2, ZenonT(60)
  <2> QED
    BY <1>8, <2>3, <2>5, <2>6, ZenonT(60) DEF QueueInv, Running
<1> QED
  BY <1>2, <1>8, <1>9, <1>10, ZenonT(60) DEF CollInv

\* The check failed, or the wait is over, or the library took over.
LEMMA WaitForWorkStep ==
    ASSUME CollInv, NEW t \in Waiters, WaitForWork(t)
    PROVE  CollInv'
<1> USE NothingAssumption
<1>1. UNCHANGED <<pending, comms, user, local, queue, works, stream, enforce, broken, late>>
  BY DEF WaitForWork, WaitFrame
<1>2. PICK to \in {"unwinding", "assemble"} : pc' = [pc EXCEPT ![t] = to]
  BY Zenon DEF WaitForWork
<1>3. ~Running(local[t].work) /\ pc[t] = "taken"
  BY DEF WaitForWork, State, Running
<1>4. CollTypeOK'
  BY <1>1, <1>2 DEF CollInv, CollTypeOK
<1>5. EntryInv' /\ OwnerInv'
  BY <1>1, ZenonT(60) DEF CollInv, EntryInv, OwnerInv
<1>6. RunningInv'
  BY <1>1 DEF CollInv, RunningInv, Running
<1>7. WaiterInv'
  <2>1. \A u \in Waiters : pc'[u] = IF u = t THEN to ELSE pc[u]
    BY <1>2 DEF CollInv, CollTypeOK
  <2> QED
    BY <1>1, <1>3, <2>1, ZenonT(60) DEF CollInv, WaiterInv, Running
<1> QED
  BY <1>1, <1>4, <1>5, <1>6, <1>7, QueueFrame DEF CollInv

LEMMA RelinquishStep ==
    ASSUME CollInv, NEW t \in Waiters, Relinquish(t)
    PROVE  CollInv'
<1> USE NothingAssumption
<1>1. UNCHANGED <<pending, user, queue, works, stream, enforce, broken, late>>
  BY DEF Relinquish, WaitFrame
<1>2. /\ pc[t] = "taken" /\ stream[t] = "default" /\ local[t] \in PendingWork /\ local[t] # Nothing
      /\ local[t].key \in user /\ local[t].work \in 1 .. Len(works)
  BY DEF Relinquish, SkipWait, CollInv, CollTypeOK, WaiterInv
<1>3. EntryInv'
  BY <1>1 DEF CollInv, EntryInv
<1>4. CASE Faulty(t)
  <2>1. PICK p \in PendingWork : /\ local' = [local EXCEPT ![t] = p]
                                 /\ p.key = local[t].key /\ p.work = local[t].work
    <3>1. ASSUME NEW r \in PendingWork
          PROVE  /\ [r EXCEPT !.hold = {}, !.keep = {}] \in PendingWork
                 /\ [r EXCEPT !.hold = {}, !.keep = {}].key = r.key
                 /\ [r EXCEPT !.hold = {}, !.keep = {}].work = r.work
      BY Zenon DEF PendingWork
    <3>2. local' = [local EXCEPT ![t] = [local[t] EXCEPT !.hold = {}, !.keep = {}]]
      BY <1>4, Zenon DEF Relinquish
    <3> QED
      BY <1>2, <3>1, <3>2, Zenon
  <2>2. pc' = [pc EXCEPT ![t] = "unwinding"] /\ comms' = comms
    BY <1>4 DEF Relinquish
  <2>3. /\ \A u \in Waiters : pc'[u] = IF u = t THEN "unwinding" ELSE pc[u]
        /\ \A u \in Waiters : local'[u] = IF u = t THEN p ELSE local[u]
    BY <2>1, <2>2 DEF CollInv, CollTypeOK
  <2>4. CollTypeOK'
    BY <1>1, <2>1, <2>2 DEF CollInv, CollTypeOK
  <2>5. WaiterInv'
    <3>1. UNCHANGED <<user, works, comms, stream>>
      BY <1>1, <2>2, Zenon
    <3> SUFFICES ASSUME NEW u \in Waiters
                 PROVE  /\ pc'[u] = "idle" <=> local'[u] = Nothing
                        /\ local'[u] # Nothing =>
                             local'[u].key \in user /\ local'[u].work \in 1 .. Len(works)
                        /\ pc'[u] = "taken" => local'[u].keep = works[local'[u].work].borrowed
                        /\ pc'[u] = "assemble" /\ works[local'[u].work].state = "running" =>
                             local'[u].work \in comms /\ stream[u] = "default"
      BY <3>1, Zenon DEF WaiterInv, Running
    <3>2. CASE u = t
      <4>1. pc'[u] = "unwinding" /\ local'[u] = p
        BY <2>3, <3>2, Zenon
      <4>2. p # Nothing /\ p.key \in user /\ p.work \in 1 .. Len(works)
        BY <1>2, <2>1, Zenon
      <4> QED
        BY <4>1, <4>2, Zenon
    <3>3. CASE u # t
      BY <2>3, <3>3, Zenon DEF CollInv, WaiterInv, Running
    <3> QED
      BY <3>2, <3>3, Zenon
  <2>6. OwnerInv'
    <3>1. ASSUME NEW u \in Waiters
          PROVE  (local'[u] # Nothing <=> local[u] # Nothing) /\ local'[u].work = local[u].work
      <4>1. CASE u = t
        BY <1>2, <2>1, <2>3, <4>1, Zenon
      <4>2. CASE u # t
        BY <2>3, <4>2, Zenon
      <4> QED
        BY <4>1, <4>2, Zenon
    <3>2. UNCHANGED pending
      BY <1>1, Zenon
    <3> QED
      BY <3>1, <3>2, ZenonT(60) DEF CollInv, OwnerInv
  <2>7. RunningInv'
    <3>1. ~broken => ~Running(local[t].work)
      BY <1>4 DEF Faulty, State, Running
    <3> QED
      BY <1>1, <2>1, <2>2, <2>3, <3>1 DEF CollInv, RunningInv, Running
  <2> QED
    BY <1>1, <1>3, <2>4, <2>5, <2>6, <2>7, QueueFrame, SMTT(30) DEF CollInv
<1>5. CASE ~Faulty(t)
  <2>1. pc' = [pc EXCEPT ![t] = "assemble"] /\ comms' = comms \cup {local[t].work} /\ local' = local
    BY <1>5 DEF Relinquish
  <2>2. \A u \in Waiters : pc'[u] = IF u = t THEN "assemble" ELSE pc[u]
    BY <2>1 DEF CollInv, CollTypeOK
  <2>3. CollTypeOK'
    BY <1>1, <1>2, <2>1, ZenonT(60) DEF CollInv, CollTypeOK
  <2>4. WaiterInv'
    BY <1>1, <1>2, <2>1, <2>2 DEF CollInv, WaiterInv, Running
  <2>5. OwnerInv' /\ RunningInv'
    BY <1>1, <2>1, ZenonT(60) DEF CollInv, OwnerInv, RunningInv, Running
  <2> QED
    BY <1>1, <1>3, <2>3, <2>4, <2>5, QueueFrame DEF CollInv
<1> QED
  BY <1>4, <1>5

\* The head of a stream runs: a schedule at the head of the default stream is
\* over, a use at the head of any stream is of a schedule that is over.
LEMMA ExecuteStep ==
    ASSUME CollInv, NEW r \in StreamNames, Execute(r)
    PROVE  CollInv'
<1>1. PICK q \in Queue : q = queue[r] /\ q # <<>>
  BY ZenonT(60) DEF Execute, CollInv, CollTypeOK
<1>2. PICK m \in Nat : m = Len(q) /\ m > 0
  BY <1>1 DEF Queue
<1>3. PICK op \in [op : {"comm", "use"}, work : Nat] : op = q[1] /\ op = Head(q)
  <2> DEFINE Op == [op : {"comm", "use"}, work : Nat]
  <2>1. q \in Seq(Op)
    BY DEF Queue
  <2> HIDE DEF Op
  <2>2. q[1] = Head(q) /\ q[1] \in Op
    BY <1>2, <2>1, SMTT(30)
  <2> QED
    BY <2>2 DEF Op
<1>4. op.work \in 1 .. Len(works)
  BY <1>1, <1>2, <1>3 DEF CollInv, QueueInv
<1>5. UNCHANGED <<pending, comms, user, local, pc, stream, enforce, broken>>
  BY SMTT(30) DEF Execute
<1>6. /\ queue' \in [StreamNames -> Queue]
      /\ Len(queue'[r]) = m - 1 /\ \A i \in 1 .. (m - 1) : queue'[r][i] = q[i + 1]
      /\ \A s \in StreamNames : s # r => queue'[s] = queue[s]
  <2>1. queue' = [queue EXCEPT ![r] = Tail(q)] /\ queue \in [StreamNames -> Queue]
    BY <1>1 DEF Execute, CollInv, CollTypeOK
  <2>2. Tail(q) \in Queue /\ Len(Tail(q)) = m - 1 /\ \A i \in 1 .. (m - 1) : Tail(q)[i] = q[i + 1]
    <3> DEFINE Op == [op : {"comm", "use"}, work : Nat]
    <3>1. q \in Seq(Op) /\ Queue = Seq(Op)
      BY DEF Queue
    <3> HIDE DEF Op
    <3> QED
      BY <1>1, <1>2, <3>1
  <2> QED
    BY <2>1, <2>2
<1>7. op.op = "use" => ~Running(op.work)
  <2>1. 1 \in 1 .. Len(queue[r]) /\ queue[r][1] = op
    BY <1>1, <1>2, <1>3
  <2>2. \A j : j \notin 1 .. (1 - 1)
    OBVIOUS
  <2> QED
    BY <2>1, <2>2, Zenon DEF CollInv, QueueInv
<1>8. /\ late' = FALSE /\ works' \in Seq(Work) /\ Len(works') = Len(works)
      /\ \A w \in 1 .. Len(works) : /\ works'[w].borrowed = works[w].borrowed
                                    /\ w # op.work => works'[w].state = works[w].state
      /\ works'[op.work].state # "running"
  <2>0. works \in Seq(Work)
    BY DEF CollInv, CollTypeOK, Work
  <2>1. CASE op.op = "comm"
    <3>1. PICK new \in Work : /\ works' = [works EXCEPT ![op.work] = new]
                              /\ new.borrowed = works[op.work].borrowed /\ new.state # "running"
      <4>1. ASSUME NEW w \in Work, NEW x \in {"done", "error"}
            PROVE  /\ [w EXCEPT !.state = x] \in Work
                   /\ [w EXCEPT !.state = x].borrowed = w.borrowed
                   /\ [w EXCEPT !.state = x].state = x
        BY DEF Work
      <4>2. PICK x \in {"done", "error"} : works' = [works EXCEPT ![op.work].state = x]
        BY <1>1, <1>3, <2>1 DEF Execute
      <4>3. works' = [works EXCEPT ![op.work] = [works[op.work] EXCEPT !.state = x]]
        BY <4>2
      <4>4. works[op.work] \in Work
        BY <1>4, <2>0
      <4> QED
        BY <4>1, <4>3, <4>4, Zenon
    <3>2. late' = late
      BY <1>1, <1>3, <2>1 DEF Execute
    <3> QED
      BY <1>4, <2>0, <3>1, <3>2 DEF CollInv
  <2>2. CASE op.op = "use"
    <3>1. works' = works /\ late' = (late \/ works[op.work].state = "running")
      BY <1>1, <1>3, <2>2 DEF Execute
    <3> QED
      BY <1>7, <2>0, <2>2, <3>1, ZenonT(60) DEF CollInv, Running
  <2> QED
    BY <2>1, <2>2, Zenon
<1>9. \A w \in 1 .. Len(works) : Running(w)' => Running(w) /\ w # op.work
  BY <1>8 DEF Running
<1>10. CollTypeOK'
  BY <1>5, <1>6, <1>8, ZenonT(60) DEF CollInv, CollTypeOK, Work
<1>11. EntryInv' /\ OwnerInv'
  BY <1>5, <1>8, ZenonT(60) DEF CollInv, EntryInv, OwnerInv
<1>12. WaiterInv'
  BY <1>5, <1>8, <1>9, ZenonT(60) DEF CollInv, WaiterInv, Running
<1>13. RunningInv'
  BY <1>5, <1>8, <1>9, ZenonT(60) DEF CollInv, RunningInv
<1>14. QueueInv'
  <2>1. ASSUME NEW s \in StreamNames, NEW i \in 1 .. Len(queue'[s])
        PROVE  \E k \in 1 .. Len(queue[s]) :
                  queue'[s][i] = queue[s][k] /\ k = IF s = r THEN i + 1 ELSE i
    <3>1. CASE s = r
      BY <1>1, <1>2, <1>6, <3>1
    <3>2. CASE s # r
      BY <1>6, <3>2
    <3> QED
      BY <3>1, <3>2
  <2>2. ASSUME NEW s \in StreamNames, NEW k \in 1 .. Len(queue[s]), queue[s][k] # op
        PROVE  \E i \in 1 .. Len(queue'[s]) :
                  queue'[s][i] = queue[s][k] /\ k = IF s = r THEN i + 1 ELSE i
    <3>1. CASE s = r
      <4>1. k \in 2 .. m
        BY <1>1, <1>2, <1>3, <2>2, <3>1
      <4>2. k - 1 \in 1 .. (m - 1) /\ queue'[r][k - 1] = q[k]
        BY <1>2, <1>6, <4>1
      <4> QED
        BY <1>1, <1>6, <3>1, <4>1, <4>2
    <3>2. CASE s # r
      BY <1>6, <3>2
    <3> QED
      BY <3>1, <3>2
  <2>3. "default" \in StreamNames /\ \A w : w # op.work => [op |-> "comm", work |-> w] # op
    BY DEF StreamNames
  <2>4. \A s \in StreamNames : \A i \in 1 .. Len(queue'[s]) : queue'[s][i].work \in 1 .. Len(works)
    <3>1. \A s \in StreamNames : \A k \in 1 .. Len(queue[s]) : queue[s][k].work \in 1 .. Len(works)
      BY Zenon DEF CollInv, QueueInv
    <3> QED
      BY <2>1, <3>1, ZenonT(60)
  <2>5. ASSUME NEW w \in 1 .. Len(works), Running(w)'
        PROVE  \E i \in 1 .. Len(queue'["default"]) : queue'["default"][i] = [op |-> "comm", work |-> w]
    <3>1. PICK k \in 1 .. Len(queue["default"]) : queue["default"][k] = [op |-> "comm", work |-> w]
      BY <1>9, <2>5 DEF CollInv, QueueInv
    <3>2. queue["default"][k] # op
      BY <1>9, <2>3, <2>5, <3>1
    <3> QED
      BY <2>2, <2>3, <3>1, <3>2, SMTT(30)
  <2>6. ASSUME NEW s \in StreamNames, NEW i \in 1 .. Len(queue'[s]), queue'[s][i].op = "use",
               works'[queue'[s][i].work].state = "running"
        PROVE  /\ s = "default"
               /\ \E j \in 1 .. (i - 1) :
                    queue'["default"][j] = [op |-> "comm", work |-> queue'[s][i].work]
    <3>1. PICK k \in 1 .. Len(queue[s]) :
                  queue'[s][i] = queue[s][k] /\ k = IF s = r THEN i + 1 ELSE i
      BY <2>1, ZenonT(60)
    <3>2. PICK w \in 1 .. Len(works) : w = queue[s][k].work /\ Running(w) /\ w # op.work
      BY <1>9, <2>6, <3>1 DEF CollInv, QueueInv, Running
    <3>3. s = "default"
      BY <2>6, <3>1, <3>2, ZenonT(60) DEF CollInv, QueueInv
    <3>4. PICK l \in 1 .. (k - 1) : queue["default"][l] = [op |-> "comm", work |-> w]
      <4>1. \E l \in 1 .. (k - 1) : queue["default"][l] = [op |-> "comm", work |-> queue[s][k].work]
        <5>1. queue[s][k].op = "use" /\ Running(queue[s][k].work)
          BY <2>6, <3>1, <3>2, SMTT(30)
        <5> QED
          BY <5>1, ZenonT(60) DEF CollInv, QueueInv
      <4> QED
        BY <3>2, <4>1
    <3>5. l \in 1 .. Len(queue[s]) /\ queue[s][l] # op
      <4>1. Len(queue[s]) \in Nat
        BY DEF CollInv, CollTypeOK, Queue
      <4> QED
        BY <2>3, <3>2, <3>3, <3>4, <4>1
    <3>6. PICK j \in 1 .. Len(queue'[s]) : queue'[s][j] = queue[s][l] /\ l = IF s = r THEN j + 1 ELSE j
      BY <2>2, <3>5, Zenon
    <3>7. j \in 1 .. (i - 1)
      BY <3>1, <3>4, <3>6
    <3>8. queue'["default"][j] = [op |-> "comm", work |-> queue'[s][i].work]
      BY <3>1, <3>2, <3>3, <3>4, <3>6
    <3> QED
      BY <3>3, <3>7, <3>8
  <2> QED
    BY <1>8, <2>4, <2>5, <2>6 DEF QueueInv, Running
<1> QED
  BY <1>8, <1>10, <1>11, <1>12, <1>13, <1>14 DEF CollInv

\* Every step of the callers, of the library and of the device preserves the
\* invariant.
LEMMA NextCollInv == CollInv /\ [CollNext]_collVars => CollInv'
<1> SUFFICES ASSUME CollInv, [CollNext]_collVars PROVE CollInv'
  OBVIOUS
<1> USE NothingAssumption
<1>0. ASSUME UNCHANGED <<pending, works, comms, local, pc, stream, queue, enforce, late>>,
             user' \subseteq Allocs, broken' \in BOOLEAN, broken => broken',
             \A t \in Waiters : local[t] # Nothing => local[t].key \in user'
      PROVE  CollInv'
  <2>1. CollTypeOK'
    BY <1>0, ZenonT(60) DEF CollInv, CollTypeOK
  <2>2. EntryInv' /\ OwnerInv'
    BY <1>0 DEF CollInv, EntryInv, OwnerInv
  <2>3. WaiterInv'
    BY <1>0 DEF CollInv, WaiterInv, Running
  <2>4. RunningInv'
    BY <1>0 DEF CollInv, RunningInv, Running
  <2> QED
    BY <1>0, <2>1, <2>2, <2>3, <2>4, QueueFrame DEF CollInv
<1>1. user \subseteq Allocs /\ broken \in BOOLEAN
      /\ \A t \in Waiters : local[t] # Nothing => local[t].key \in user
  BY DEF CollInv, CollTypeOK, WaiterInv
<1>2. ASSUME NEW key \in Keys, Plan(key)
      PROVE  CollInv'
  BY <1>0, <1>1, <1>2 DEF Plan
<1>3. ASSUME NEW t \in Waiters, NEW h \in plans, NEW in \in Allocs, AllreduceRun(t, h, in)
      PROVE  CollInv'
  <2>1. PICK b \in SUBSET Allocs : b = {in}
    BY Zenon
  <2>2. CASE pending[in] = Nothing
    BY <1>1, <1>3, <2>1, <2>2, FileStep, Zenon DEF AllreduceRun
  <2>3. CASE pending[in] # Nothing
    BY <1>3, <2>3, DuplicateStep, Zenon DEF AllreduceRun
  <2> QED
    BY <2>2, <2>3
<1>4. ASSUME NEW t \in Waiters, NEW h \in plans, NEW in \in Allocs, NEW out \in Allocs,
             BroadcastRun(t, h, in, out)
      PROVE  CollInv'
  <2>1. PICK b \in SUBSET Allocs, r \in SUBSET Allocs : b = {out} /\ r = {}
    BY Zenon
  <2>2. pending[out] = Nothing
    BY <1>4, FreshHasNoEntry, ZenonT(60) DEF BroadcastRun, Fresh
  <2>3. user \subseteq user' /\ user' \subseteq Allocs
    BY <1>1, <1>4 DEF BroadcastRun
  <2> QED
    BY <1>4, <2>1, <2>2, <2>3, FileStep DEF BroadcastRun
<1>5. ASSUME NEW t \in Waiters, NEW h \in plans, NEW in \in Allocs, NEW ranks \in Allocs,
             NEW out \in Allocs, AllgatherRun(t, h, in, ranks, out)
      PROVE  CollInv'
  <2>1. PICK b \in SUBSET Allocs, r \in SUBSET Allocs : b = {in, ranks} /\ r = {ranks}
    BY Zenon
  <2>2. pending[out] = Nothing
    BY <1>5, FreshHasNoEntry DEF AllgatherRun, Fresh
  <2>3. user \subseteq user' /\ user' \subseteq Allocs
    BY <1>1, <1>5 DEF AllgatherRun
  <2> QED
    BY <1>5, <2>1, <2>2, <2>3, FileStep DEF AllgatherRun
<1>6. ASSUME NEW t \in Waiters, Unwound(t)
      PROVE  CollInv'
  <2>1. local[t] # Nothing /\ ~Running(local[t].work)
    BY <1>6 DEF Unwound, State, Running, CollInv, CollTypeOK, WaiterInv
  <2>2. EntryInv' /\ WaiterInv' /\ OwnerInv' /\ RunningInv'
    BY <1>6, <2>1, CallEnds, Zenon DEF Unwound, WaitFrame
  <2>3. CollTypeOK'
    BY <1>6 DEF Unwound, WaitFrame, CollInv, CollTypeOK
  <2> QED
    BY <1>6, <2>2, <2>3, QueueFrame, ZenonT(60) DEF Unwound, WaitFrame, CollInv
<1>7. ASSUME NEW a \in Allocs, CreateTensor(a) \/ DropTensor(a)
      PROVE  CollInv'
  BY <1>0, <1>1, <1>7 DEF CreateTensor, DropTensor
<1>8. ASSUME NEW w \in comms, Retire(w)
      PROVE  CollInv'
  <2>1. ~Running(w) /\ comms' = comms \ {w}
        /\ UNCHANGED <<pending, works, user, local, pc, stream, queue, enforce, broken, late>>
    BY <1>8, ZenonT(60) DEF Retire, Running
  <2>2. CollTypeOK' /\ EntryInv' /\ OwnerInv'
    BY <2>1, ZenonT(60) DEF CollInv, CollTypeOK, EntryInv, OwnerInv
  <2>3. WaiterInv'
    BY <2>1, ZenonT(60) DEF CollInv, WaiterInv, Running
  <2>4. RunningInv'
    BY <2>1 DEF CollInv, RunningInv, Running
  <2> QED
    BY <2>1, <2>2, <2>3, <2>4, QueueFrame, ZenonT(60) DEF CollInv
<1>9. CASE StreamBreaks
  BY <1>0, <1>1, <1>9 DEF StreamBreaks
<1>10. CASE UNCHANGED collVars
  BY <1>0, <1>1, <1>10 DEF collVars
<1> QED
  BY <1>2, <1>3, <1>4, <1>5, <1>6, <1>7, <1>8, <1>9, <1>10,
     TakeEntryStep, WaitForWorkStep, RelinquishStep, AssembleStep, ExecuteStep
     DEF CollNext

LEMMA CollInvariant == CollSpec => []CollInv
BY InitCollInv, NextCollInv, PTL DEF CollSpec

\* The storage an entry of pending_work_map_ is filed under stays referenced,
\* and so do the storages a running schedule borrows while the default stream
\* is healthy.
THEOREM BorrowedStaysAlive == CollSpec => []BorrowedAlive
<1>1. CollInv => BorrowedAlive
  <2> SUFFICES ASSUME CollInv PROVE BorrowedAlive
    OBVIOUS
  <2>1. ASSUME NEW a \in Allocs, pending[a] # Nothing PROVE a \in Alive
    BY <2>1, AliveMember, ZenonT(60) DEF CollInv, EntryInv, HeldBy
  <2>2. ASSUME ~broken, NEW w \in 1 .. Len(works), Running(w), NEW x \in works[w].borrowed
        PROVE  x \in Alive
    <3>1. \/ w \in comms
          \/ \E a \in Allocs : pending[a] # Nothing /\ pending[a].work = w
          \/ \E t \in Waiters :
               /\ local[t] # Nothing /\ local[t].work = w
               /\ works[w].borrowed \subseteq local[t].keep \cup {local[t].key}
      BY <2>2 DEF CollInv, RunningInv
    <3>2. CASE w \in comms
      BY <3>2, AliveMember, ZenonT(60)
    <3>3. ASSUME NEW a \in Allocs, pending[a] # Nothing /\ pending[a].work = w
          PROVE  x \in Alive
      BY <3>3, AliveMember, ZenonT(60) DEF CollInv, EntryInv, HeldBy
    <3>4. ASSUME NEW t \in Waiters, local[t] # Nothing,
                 works[w].borrowed \subseteq local[t].keep \cup {local[t].key}
          PROVE  x \in Alive
      BY <3>4, AliveMember DEF CollInv, WaiterInv, HeldBy
    <3> QED
      BY <3>1, <3>2, <3>3, <3>4
  <2>3. DOMAIN works = 1 .. Len(works)
    BY DEF CollInv, CollTypeOK
  <2> QED
    BY <2>1, <2>2, <2>3 DEF BorrowedAlive, Running
<1> QED
  BY <1>1, CollInvariant, PTL

\* Whatever uses a collective's result after wait_work runs after it.
THEOREM UsesFollowCollective == CollSpec => []ConsumersAfterCollective
<1>1. CollInv => ConsumersAfterCollective
  BY DEF CollInv, ConsumersAfterCollective
<1> QED
  BY <1>1, CollInvariant, PTL

\* A set without two elements has at most one.
LEMMA AtMostOne ==
    ASSUME NEW S, \A x, y \in S : x = y
    PROVE  Cardinality(S) \in {0, 1} /\ (Cardinality(S) = 1 => S # {})
<1>1. CASE S = {}
  BY <1>1, FS_EmptySet
<1>2. CASE S # {}
  <2>1. PICK x : S = {x}
    BY <1>2
  <2> QED
    BY <1>2, <2>1, FS_Singleton
<1> QED
  BY <1>1, <1>2

\* A schedule is in the map or with one wait_work call, never both or twice.
THEOREM OneOwnerEach == CollSpec => []OneOwner
<1>1. CollInv => OneOwner
  <2> SUFFICES ASSUME CollInv, NEW w \in DOMAIN works
               PROVE  Cardinality({a \in Allocs : pending[a] # Nothing /\ pending[a].work = w})
                        + Cardinality({t \in Waiters : local[t] # Nothing /\ local[t].work = w}) <= 1
    BY ZenonT(60) DEF OneOwner
  <2> DEFINE A == {a \in Allocs : pending[a] # Nothing /\ pending[a].work = w}
             T == {t \in Waiters : local[t] # Nothing /\ local[t].work = w}
  <2>1. (\A a, b \in A : a = b) /\ (\A t, u \in T : t = u) /\ (A = {} \/ T = {})
    BY DEF CollInv, OwnerInv
  <2> HIDE DEF A, T
  <2>2. Cardinality(A) + Cardinality(T) <= 1
    BY <2>1, AtMostOne
  <2> QED
    BY <2>2 DEF A, T
<1> QED
  BY <1>1, CollInvariant, PTL
================================================================================
