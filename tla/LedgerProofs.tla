----------------------------- MODULE LedgerProofs ------------------------------
(***************************************************************************)
(* Proofs about what the system keeps accounts of: the runs in the CI      *)
(* database (GhaBackfill and GhaPoll), for any repository history, slices, *)
(* fillers, windows, workers and batch sizes, and the device memory in the *)
(* statistics (DeviceAllocator), for any objects, sizes and threads.       *)
(***************************************************************************)
EXTENDS GhaBackfill, GhaPoll, DeviceAllocator, FiniteSetTheorems, WellFoundedInduction, TLAPS

-----------------------------------------------------------------------------
(* GhaBackfill *)

States == {"absent", "going", "finished"}
Steps == {"idle", "filling", "filled", "ended"}
Rows == [attempt : Attempts, state : {"going", "finished"}]
Fillings ==
  [at : Steps, slice : Slices \cup {0}, known : SUBSET Attempts, left : SUBSET Attempts,
   held : SUBSET Rows, clean : BOOLEAN, stopped : BOOLEAN]

BackfillType ==
  /\ github \in [Attempts -> BOOLEAN]
  /\ rows \in [Attempts -> States]
  /\ nxt \in Nat \ {0}
  /\ filler \in [Fillers -> Fillings]
  /\ edge \in Slices \cup {0}

Stored(a) == rows[a] = "finished"
Held(w, a) == \E h \in filler[w].held : h.attempt = a

\* A worker holds one row of an attempt, and none of an attempt still to come;
\* what it takes for stored as finished is.
HeldOnce ==
  \A w \in Fillers :
    /\ \A g, h \in filler[w].held : g.attempt = h.attempt => g = h
    /\ \A a \in filler[w].left : ~Held(w, a)
    /\ \A a \in filler[w].known : Stored(a)
    /\ filler[w].at \in {"filling", "filled"} => filler[w].slice \in Slices

\* A slice that is clean so far lacks only what is left of it, and what is held.
CleanSoFar ==
  \A w \in Fillers : filler[w].clean =>
    /\ filler[w].at = "filling" =>
         \A a \in SliceRuns[filler[w].slice] \ filler[w].left :
           Stored(a) \/ [attempt |-> a, state |-> "finished"] \in filler[w].held
    /\ filler[w].at = "filled" => \A a \in SliceRuns[filler[w].slice] : Stored(a)

\* A slice recorded as done is stored.
DoneIsStored ==
  \A i \in DOMAIN ran : ran[i] => i \in Slices /\ \A a \in SliceRuns[i] : Stored(a)

BackfillInv == BackfillType /\ HeldOnce /\ CleanSoFar /\ DoneIsStored /\ EdgeComplete

-----------------------------------------------------------------------------
\* The attempts of a slice are attempts.
LEMMA SliceAttempts == \A i \in Slices : SliceRuns[i] \subseteq Attempts
BY DEF Attempts, Slices

\* pipeline_runs never loses a finished row, and gets the finished rows written
\* to it, if at most one row of an attempt is written at a time.
LEMMA UpsertKeeps ==
  ASSUME BackfillType, NEW held \in SUBSET Rows,
         \A g, h \in held : g.attempt = h.attempt => g = h
  PROVE  /\ Upsert(held) \in [Attempts -> States]
         /\ \A a \in Attempts : Stored(a) => Upsert(held)[a] = "finished"
         /\ \A a \in Attempts : [attempt |-> a, state |-> "finished"] \in held
              => Upsert(held)[a] = "finished"
<1> SUFFICES ASSUME NEW a \in Attempts
             PROVE  /\ Upsert(held)[a] \in States
                    /\ Stored(a) => Upsert(held)[a] = "finished"
                    /\ [attempt |-> a, state |-> "finished"] \in held
                         => Upsert(held)[a] = "finished"
  BY ZenonT(60) DEF Upsert
<1>1. CASE \E h \in held : h.attempt = a
  <2>1. PICK h \in held : h.attempt = a
    BY <1>1
  <2>2. (CHOOSE g \in held : g.attempt = a) = h
    BY <2>1
  <2>3. h.state \in {"going", "finished"} /\ rows[a] \in States
    BY DEF Rows, BackfillType
  <2>4. Upsert(held)[a] = IF Replaces(h.state, rows[a]) THEN h.state ELSE rows[a]
    BY <2>1, <2>2 DEF Upsert
  <2>5. [attempt |-> a, state |-> "finished"] \in held => h.state = "finished"
    BY <2>1
  <2> QED
    BY <2>3, <2>4, <2>5 DEF Replaces, Stored, States
<1>2. CASE ~\E h \in held : h.attempt = a
  <2>1. Upsert(held)[a] = rows[a] /\ [attempt |-> a, state |-> "finished"] \notin held
    BY <1>2 DEF Upsert
  <2> QED
    BY <2>1 DEF BackfillType, Stored
<1> QED
  BY <1>1, <1>2

\* The initial state is as the invariant says.
LEMMA InitHolds == BackfillInit => BackfillInv
BY DEF BackfillInit, BackfillInv, BackfillType, HeldOnce, CleanSoFar, DoneIsStored, EdgeComplete,
   Held, Idle, Fillings, Steps, States

\* When only rows changes, and by an upsert, the rest of the invariant stays.
LEMMA RowsGrow ==
  ASSUME BackfillInv, rows' \in [Attempts -> States],
         \A a \in Attempts : Stored(a) => Stored(a)',
         UNCHANGED <<nxt, ran, filler, edge>>, github' \in [Attempts -> BOOLEAN]
  PROVE  BackfillInv'
<1> USE DEF BackfillInv
<1>1. BackfillType'
  BY DEF BackfillType
<1>2. HeldOnce'
  BY DEF HeldOnce, Held, BackfillType, Fillings
<1>3. CleanSoFar'
  BY SliceAttempts DEF CleanSoFar, HeldOnce
<1>4. DoneIsStored'
  BY SliceAttempts DEF DoneIsStored
<1>5. EdgeComplete'
  BY SliceAttempts, SlicesAssumption DEF EdgeComplete, Stored, BackfillType, Slices
<1> QED
  BY <1>1, <1>2, <1>3, <1>4, <1>5

\* An attempt that finishes leaves the table alone.
LEMMA FinishHolds ==
  ASSUME BackfillInv, NEW a \in Attempts, Finish(a)
  PROVE  BackfillInv'
BY RowsGrow DEF Finish, BackfillInv, BackfillType, Stored

\* A row of the forward poll, however old, takes no finished row away.
LEMMA PollWritesHolds ==
  ASSUME BackfillInv, NEW a \in Attempts, NEW f \in BOOLEAN, PollWrites(a, f)
  PROVE  BackfillInv'
<1> DEFINE held == {[attempt |-> a, state |-> RowState(f)]}
<1>1. held \in SUBSET Rows /\ \A g, h \in held : g.attempt = h.attempt => g = h
  BY DEF Rows, RowState
<1>2. rows' = Upsert(held) /\ UNCHANGED <<github, nxt, ran, filler, edge>>
  BY DEF PollWrites
<1> HIDE DEF held
<1>3. rows' \in [Attempts -> States] /\ \A b \in Attempts : Stored(b) => rows'[b] = "finished"
  BY <1>1, <1>2, UpsertKeeps DEF BackfillInv
<1> QED
  BY <1>2, <1>3, RowsGrow DEF Stored, BackfillInv, BackfillType

\* A worker that takes a slice has all of it left to fill.
LEMMA TakeSliceHolds ==
  ASSUME BackfillInv, NEW w \in Fillers, TakeSlice(w)
  PROVE  BackfillInv'
<1> USE DEF BackfillInv
<1> DEFINE taken == [Idle EXCEPT !.at = "filling", !.slice = nxt,
                                 !.known = {a \in Attempts : rows[a] = "finished"},
                                 !.left = SliceRuns[nxt]]
<1>1. CASE halt \/ nxt > Cardinality(Slices)
  <2>1. filler' = [filler EXCEPT ![w].at = "ended"] /\ UNCHANGED <<github, rows, nxt, ran, edge>>
    BY <1>1 DEF TakeSlice
  <2>2. BackfillType' /\ HeldOnce'
    BY <2>1 DEF BackfillType, Fillings, Steps, HeldOnce, Held, Stored
  <2>3. CleanSoFar' /\ DoneIsStored' /\ EdgeComplete'
    BY <2>1 DEF CleanSoFar, DoneIsStored, EdgeComplete, Stored, BackfillType, Fillings
  <2> QED
    BY <2>2, <2>3
<1>2. CASE ~(halt \/ nxt > Cardinality(Slices))
  <2>1. /\ filler' = [filler EXCEPT ![w] = taken] /\ nxt' = nxt + 1
        /\ UNCHANGED <<github, rows, ran, edge>>
    BY <1>2 DEF TakeSlice
  <2>2. nxt \in Slices /\ SliceRuns[nxt] \subseteq Attempts
    <3>1. nxt \in Slices
      BY <1>2, SlicesAssumption DEF BackfillType, Slices
    <3> QED
      BY <3>1, SliceAttempts
  <2>3. /\ taken.at = "filling" /\ taken.slice = nxt /\ taken.held = {} /\ taken.clean
        /\ taken.known = {a \in Attempts : rows[a] = "finished"} /\ taken.left = SliceRuns[nxt]
        /\ taken \in Fillings
    BY <2>2, ZenonT(60) DEF Idle, Fillings, Steps
  <2> HIDE DEF taken
  <2>4. BackfillType'
    BY <2>1, <2>3 DEF BackfillType
  <2>5. HeldOnce'
    BY <2>1, <2>2, <2>3 DEF HeldOnce, Held, Stored, BackfillType
  <2>6. CleanSoFar'
    BY <2>1, <2>3 DEF CleanSoFar, Stored, BackfillType
  <2>7. DoneIsStored' /\ EdgeComplete'
    BY <2>1 DEF DoneIsStored, EdgeComplete, Stored
  <2> QED
    BY <2>4, <2>5, <2>6, <2>7
<1> QED
  BY <1>1, <1>2

\* An attempt is passed over cleanly only if it is stored or held as finished.
LEMMA FillOneHolds ==
  ASSUME BackfillInv, NEW w \in Fillers, FillOne(w)
  PROVE  BackfillInv'
<1> USE DEF BackfillInv
<1> DEFINE old == filler[w]
           new == filler'[w]
<1>1. old \in Fillings /\ old.at = "filling"
  BY ZenonT(60) DEF BackfillType, FillOne
<1>2. PICK a \in old.left, served \in BOOLEAN :
        LET current == a \in old.known
        IN  filler' = [filler EXCEPT
              ![w].left = @ \ {a},
              ![w].held = IF current \/ ~served THEN @
                          ELSE @ \cup {[attempt |-> a, state |-> RowState(github[a])]},
              ![w].clean = @ /\ StaysClean(current, served, github[a])]
  BY ZenonT(60) DEF FillOne
<1>3. UNCHANGED <<github, rows, nxt, ran, edge>>
  BY DEF FillOne
<1> DEFINE row == [attempt |-> a, state |-> RowState(github[a])]
<1>4. a \in Attempts /\ row \in Rows
  BY <1>1, <1>2 DEF Fillings, Rows, RowState, BackfillType
<1> DEFINE held == IF a \in old.known \/ ~served THEN old.held ELSE old.held \cup {row}
           clean == old.clean /\ StaysClean(a \in old.known, served, github[a])
<1>typed. held \in SUBSET Rows /\ clean \in BOOLEAN
  BY <1>1, <1>4 DEF Fillings, StaysClean, BackfillType
<1>update. filler' = [filler EXCEPT ![w].left = @ \ {a}, ![w].held = held, ![w].clean = clean]
  BY <1>1, <1>2 DEF BackfillType, Fillings
<1> HIDE DEF row, held, clean
<1>others. /\ \A v \in Fillers \ {w} : filler'[v] = filler[v]
      /\ new = [old EXCEPT !.left = @ \ {a}, !.held = held, !.clean = clean]
      /\ DOMAIN filler' = Fillers
  BY <1>update DEF BackfillType, Fillings
<1>fields. /\ new.at = old.at /\ new.slice = old.slice /\ new.known = old.known
      /\ new.left = old.left \ {a} /\ new.held = held /\ new.clean = clean
      /\ new \in Fillings
  <2>1. new = [at |-> old.at, slice |-> old.slice, known |-> old.known, left |-> old.left \ {a},
               held |-> held, clean |-> clean, stopped |-> old.stopped]
    BY <1>1, <1>others, ZenonT(60) DEF Fillings
  <2>2. old.left \ {a} \in SUBSET Attempts
    BY <1>1 DEF Fillings
  <2>3. new \in Fillings
    BY <2>1, <2>2, <1>1, <1>typed DEF Fillings
  <2> QED
    BY <2>1, <2>3
<1>5. /\ \A v \in Fillers \ {w} : filler'[v] = filler[v]
      /\ new.at = old.at /\ new.slice = old.slice /\ new.known = old.known
      /\ new.left = old.left \ {a}
      /\ new.held = IF a \in old.known \/ ~served THEN old.held ELSE old.held \cup {row}
      /\ new.clean = (old.clean /\ StaysClean(a \in old.known, served, github[a]))
      /\ filler' \in [Fillers -> Fillings]
  BY <1>update, <1>others, <1>fields DEF held, clean, BackfillType
<1>6. BackfillType'
  BY <1>3, <1>5 DEF BackfillType
<1>7. row.attempt = a /\ (github[a] => row = [attempt |-> a, state |-> "finished"])
  BY DEF row, RowState
<1>8. HeldOnce'
  <2> SUFFICES ASSUME NEW v \in Fillers
               PROVE  (/\ \A g, h \in filler[v].held : g.attempt = h.attempt => g = h
                       /\ \A b \in filler[v].left : ~Held(v, b)
                       /\ \A b \in filler[v].known : Stored(b)
                       /\ filler[v].at \in {"filling", "filled"} => filler[v].slice \in Slices)'
    BY DEF HeldOnce
  <2>1. CASE v # w
    BY <2>1, <1>3, <1>5 DEF HeldOnce, Held, Stored
  <2>2. CASE v = w
    BY <2>2, <1>1, <1>2, <1>3, <1>5, <1>7 DEF HeldOnce, Held, Stored
  <2> QED
    BY <2>1, <2>2
<1>9. CleanSoFar'
  <2> SUFFICES ASSUME NEW v \in Fillers, filler'[v].clean
               PROVE  (/\ filler[v].at = "filling" =>
                            \A b \in SliceRuns[filler[v].slice] \ filler[v].left :
                              Stored(b) \/ [attempt |-> b, state |-> "finished"] \in filler[v].held
                       /\ filler[v].at = "filled" => \A b \in SliceRuns[filler[v].slice] : Stored(b))'
    BY DEF CleanSoFar
  <2>1. CASE v # w
    BY <2>1, <1>3, <1>5 DEF CleanSoFar, Stored
  <2>2. CASE v = w
    <3>1. old.clean /\ (a \in old.known \/ (served /\ github[a]))
      BY <2>2, <1>1, <1>5 DEF StaysClean, Fillings
    <3>2. Stored(a) \/ [attempt |-> a, state |-> "finished"] \in new.held
      BY <3>1, <1>5, <1>7 DEF HeldOnce
    <3> QED
      BY <2>2, <3>1, <3>2, <1>1, <1>3, <1>5 DEF CleanSoFar, Stored
  <2> QED
    BY <2>1, <2>2
<1>10. DoneIsStored' /\ EdgeComplete'
  BY <1>3 DEF DoneIsStored, EdgeComplete, Stored
<1> QED
  BY <1>6, <1>8, <1>9, <1>10

\* A stopped slice is not clean.
LEMMA StopFillHolds ==
  ASSUME BackfillInv, NEW w \in Fillers, StopFill(w)
  PROVE  BackfillInv'
<1> USE DEF BackfillInv
<1>0. /\ filler' = [filler EXCEPT ![w] = [@ EXCEPT !.left = {}, !.clean = FALSE, !.stopped = TRUE]]
      /\ UNCHANGED <<github, rows, nxt, halt, ran, edge>>
  BY ZenonT(60) DEF StopFill, BackfillType, Fillings
<1>1. BackfillType'
  BY <1>0, ZenonT(60) DEF BackfillType, Fillings
<1>2. HeldOnce'
  BY SlicesAssumption DEF StopFill, HeldOnce, Held, Stored, BackfillType, Fillings, Steps, Idle, Slices
<1>3. CleanSoFar'
  BY DEF StopFill, CleanSoFar, HeldOnce, Stored, BackfillType, Fillings, Steps, Idle
<1>4. DoneIsStored'
  BY DEF StopFill, DoneIsStored, CleanSoFar, HeldOnce, Stored, BackfillType, Fillings, Steps
<1>5. EdgeComplete'
  BY DEF StopFill, EdgeComplete
<1> QED
  BY <1>1, <1>2, <1>3, <1>4, <1>5

\* Writing a slice stores what is held of it, and so all of a clean one.
LEMMA WriteSliceHolds ==
  ASSUME BackfillInv, NEW w \in Fillers, WriteSlice(w)
  PROVE  BackfillInv'
<1> USE DEF BackfillInv
<1>1. filler[w] \in Fillings /\ filler[w].held \in SUBSET Rows
  BY DEF BackfillType, Fillings
<1>2. /\ rows' \in [Attempts -> States]
      /\ \A a \in Attempts : Stored(a) => Stored(a)'
      /\ \A a \in Attempts : [attempt |-> a, state |-> "finished"] \in filler[w].held => Stored(a)'
  BY <1>1, UpsertKeeps DEF HeldOnce, WriteSlice, Stored
<1>3. BackfillType'
  BY <1>2, ZenonT(60) DEF WriteSlice, BackfillType, Fillings, Steps
<1>4. HeldOnce'
  BY <1>2 DEF WriteSlice, HeldOnce, Held, BackfillType, Fillings
<1>5. CleanSoFar'
  <2> SUFFICES ASSUME NEW v \in Fillers, filler'[v].clean
               PROVE  (/\ filler[v].at = "filling" =>
                            \A b \in SliceRuns[filler[v].slice] \ filler[v].left :
                              Stored(b) \/ [attempt |-> b, state |-> "finished"] \in filler[v].held
                       /\ filler[v].at = "filled" => \A b \in SliceRuns[filler[v].slice] : Stored(b))'
    BY DEF CleanSoFar
  <2>1. /\ v # w => filler'[v] = filler[v]
        /\ filler'[w].at = "filled" /\ filler'[w].slice = filler[w].slice
        /\ filler'[w].clean = filler[w].clean
        /\ filler[w].at = "filling" /\ filler[w].left = {}
    BY DEF WriteSlice, BackfillType, Fillings
  <2>2. CASE v # w
    <3>1. filler[v].at \in {"filling", "filled"} => SliceRuns[filler[v].slice] \subseteq Attempts
      BY SliceAttempts DEF HeldOnce
    <3> QED
      BY <2>1, <2>2, <3>1, <1>2 DEF CleanSoFar
  <2>3. CASE v = w
    <3>1. SliceRuns[filler[w].slice] \subseteq Attempts
      BY <2>1, SliceAttempts DEF HeldOnce
    <3> QED
      BY <2>1, <2>3, <3>1, <1>2, ZenonT(60) DEF CleanSoFar
  <2> QED
    BY <2>2, <2>3
<1>6. DoneIsStored'
  BY <1>2, SliceAttempts DEF WriteSlice, DoneIsStored
<1>7. EdgeComplete'
  BY <1>2, SliceAttempts, SlicesAssumption DEF WriteSlice, EdgeComplete, Stored, BackfillType, Slices
<1> QED
  BY <1>3, <1>4, <1>5, <1>6, <1>7

\* A slice is recorded as done only if it is clean and written.
LEMMA RecordSliceHolds ==
  ASSUME BackfillInv, NEW w \in Fillers, RecordSlice(w)
  PROVE  BackfillInv'
<1> USE DEF BackfillInv
<1>1. BackfillType'
  BY SlicesAssumption, SliceAttempts DEF RecordSlice, BackfillType, Fillings, Steps, Idle, Slices
<1>2. HeldOnce'
  BY SlicesAssumption DEF RecordSlice, HeldOnce, Held, Stored, BackfillType, Fillings, Steps, Idle, Slices
<1>3. CleanSoFar'
  BY DEF RecordSlice, CleanSoFar, HeldOnce, Stored, BackfillType, Fillings, Steps, Idle
<1>4. DoneIsStored'
  BY DEF RecordSlice, DoneIsStored, CleanSoFar, HeldOnce, Stored, BackfillType, Fillings, Steps
<1>5. EdgeComplete'
  BY DEF RecordSlice, EdgeComplete
<1> QED
  BY <1>1, <1>2, <1>3, <1>4, <1>5

\* A thread that dies leaves its slice unrecorded.
LEMMA ThreadDiesHolds ==
  ASSUME BackfillInv, NEW w \in Fillers, ThreadDies(w)
  PROVE  BackfillInv'
<1> USE DEF BackfillInv
<1>1. BackfillType'
  BY SlicesAssumption, SliceAttempts, ZenonT(60) DEF ThreadDies, BackfillType, Fillings, Steps, Idle, Slices
<1>2. HeldOnce'
  BY SlicesAssumption DEF ThreadDies, HeldOnce, Held, Stored, BackfillType, Fillings, Steps, Idle, Slices
<1>3. CleanSoFar'
  BY DEF ThreadDies, CleanSoFar, HeldOnce, Stored, BackfillType, Fillings, Steps, Idle
<1>4. DoneIsStored'
  BY DEF ThreadDies, DoneIsStored, CleanSoFar, HeldOnce, Stored, BackfillType, Fillings, Steps
<1>5. EdgeComplete'
  BY DEF ThreadDies, EdgeComplete
<1> QED
  BY <1>1, <1>2, <1>3, <1>4, <1>5

\* The reported edge lies below slices recorded as done only.
LEMMA ReportHolds ==
  ASSUME BackfillInv, Report
  PROVE  BackfillInv'
<1> USE DEF BackfillInv
<1>1. PICK k \in Slices : CompleteDownTo(k) /\ edge' = k
  BY DEF Report
<1>2. UNCHANGED <<github, rows, nxt, halt, ran, filler>>
  BY DEF Report
<1>3. EdgeComplete'
  BY <1>1, <1>2 DEF EdgeComplete, CompleteDownTo, DoneIsStored, Stored
<1>4. BackfillType' /\ HeldOnce' /\ CleanSoFar' /\ DoneIsStored'
  BY <1>1, <1>2 DEF BackfillType, HeldOnce, Held, CleanSoFar, DoneIsStored, Stored
<1> QED
  BY <1>3, <1>4

\* Every step keeps the invariant.
LEMMA NextHolds == BackfillInv /\ [BackfillNext]_backfillVars => BackfillInv'
<1> SUFFICES ASSUME BackfillInv, [BackfillNext]_backfillVars PROVE BackfillInv'
  OBVIOUS
<1>1. CASE UNCHANGED backfillVars
  BY <1>1 DEF backfillVars, BackfillInv, BackfillType, HeldOnce, Held, CleanSoFar, DoneIsStored,
     EdgeComplete, Stored
<1>2. CASE \E a \in Attempts : Finish(a) \/ \E f \in BOOLEAN : PollWrites(a, f)
  BY <1>2, FinishHolds, PollWritesHolds
<1>3. ASSUME NEW w \in Fillers,
             \/ TakeSlice(w) \/ FillOne(w) \/ StopFill(w)
             \/ WriteSlice(w) \/ RecordSlice(w) \/ ThreadDies(w)
      PROVE  BackfillInv'
  BY <1>3, TakeSliceHolds, FillOneHolds, StopFillHolds, WriteSliceHolds, RecordSliceHolds,
     ThreadDiesHolds
<1>4. CASE Report
  BY <1>4, ReportHolds
<1> QED
  BY <1>1, <1>2, <1>3, <1>4 DEF BackfillNext

\* Every attempt above the edge that the backfill reports (complete_down_to) is
\* stored as finished, whatever was skipped, stopped, lost or written meanwhile.
THEOREM EdgeCompleteAlways == BackfillSpec => []EdgeComplete
<1>1. BackfillInv => EdgeComplete
  BY DEF BackfillInv
<1> QED
  BY <1>1, InitHolds, NextHolds, PTL DEF BackfillSpec

-----------------------------------------------------------------------------
(* GhaPoll *)

\* A set of natural numbers that is not empty has a least element ...
LEMMA Least ==
  ASSUME NEW S, S \subseteq Nat, S # {}
  PROVE  \E x \in S : \A y \in S : x <= y
<1> DEFINE Less == {p \in Nat \X Nat : p[1] < p[2]}
<1>1. IsWellFoundedOn(Less, Nat)
  BY NatLessThanWellFounded DEF OpToRel
<1>2. PICK x \in S : \A y \in S : ~(<<y, x>> \in Less)
  <2> HIDE DEF Less
  <2> QED
    BY <1>1, WFMin, Zenon
<1>3. \A y \in S : y < x => <<y, x>> \in Less
  OBVIOUS
<1>4. \A y \in S : ~(y < x)
  <2> HIDE DEF Less
  <2> QED
    BY <1>2, <1>3, Zenon
<1> QED
  BY <1>4

\* ... and a greatest one when it is bounded.
LEMMA Greatest ==
  ASSUME NEW S, NEW b \in Nat, S \subseteq 0 .. b, S # {}
  PROVE  \E x \in S : \A y \in S : y <= x
<1> DEFINE B == {x \in Nat : \A y \in S : y <= x}
<1>1. B \subseteq Nat /\ b \in B
  OBVIOUS
<1>2. PICK x \in B : \A y \in B : x <= y
  BY <1>1, Least, Zenon
<1>3. PICK z \in S : TRUE
  BY ZenonT(60)
<1>4. CASE x \in S
  BY <1>4
<1>5. CASE x \notin S
  <2>1. x # 0
    BY <1>3, <1>5
  <2>2. x - 1 \in B
    BY <1>5, <2>1
  <2> QED
    BY <1>2, <2>2
<1> QED
  BY <1>4, <1>5

Outcomes == {"busy", "rows", "current", "skip", "stop"}

PollType ==
  /\ time \in Nat /\ horizon \in Nat /\ polling \in BOOLEAN
  /\ created \subseteq 1 .. time
  /\ table \subseteq created /\ unsent \subseteq created /\ batch \subseteq created
  /\ inflight \in Seq([run : created, got : Outcomes])
  /\ ~polling => unsent = {} /\ inflight = <<>> /\ batch = {}

\* The fetches are submitted oldest run first, and what is done with is known:
\* a run whose rows were current is in the table, one given up was warned of.
InOrder ==
  /\ \A i, j \in DOMAIN inflight : i < j => inflight[i].run < inflight[j].run
  /\ \A i \in DOMAIN inflight : \A u \in unsent : inflight[i].run < u
  /\ \A i \in DOMAIN inflight :
       /\ inflight[i].got = "current" => inflight[i].run \in table
       /\ inflight[i].got = "skip" => inflight[i].run \in warned

Awaited(r) == r \in unsent \/ \E i \in DOMAIN inflight : inflight[i].run = r

\* No gap below a run of S.
Gapless(S, known) ==
  \A r \in created, m \in S : horizon <= r /\ r < m => r \in known

\* Every run of the horizon is stored, held, warned of or still to come.
PollInv ==
  /\ PollType /\ InOrder
  /\ Gapless(table, table \cup warned)
  /\ Gapless(batch, table \cup batch \cup warned)
  /\ polling => \A r \in created : horizon <= r => r \in table \cup batch \cup warned \/ Awaited(r)

-----------------------------------------------------------------------------
LEMMA TableMax ==
  ASSUME PollType, table # {}
  PROVE  Max(table) \in table /\ Max(table) \in Nat /\ \A y \in table : y <= Max(table)
<1>1. time \in Nat /\ table \subseteq 0 .. time
  BY DEF PollType
<1>2. PICK x \in table : \A y \in table : y <= x
  BY <1>1, Greatest, Zenon
<1>3. \A y \in table : x >= y
  BY <1>1, <1>2
<1>4. Max(table) \in table /\ \A y \in table : Max(table) >= y
  BY <1>3, Zenon DEF Max
<1>5. PICK m : m = Max(table)
  BY Zenon
<1>6. m \in table /\ \A y \in table : m >= y
  BY <1>4, <1>5, Zenon
<1>7. m \in Nat /\ \A y \in table : y <= m
  BY <1>1, <1>6
<1> QED
  BY <1>5, <1>6, <1>7, Zenon

LEMMA OldestUnsent ==
  ASSUME PollType, unsent # {}
  PROVE  Min(unsent) \in unsent /\ \A y \in unsent : y # Min(unsent) => Min(unsent) < y
<1>1. unsent \subseteq Nat
  BY DEF PollType
<1>2. PICK x \in unsent : \A y \in unsent : x <= y
  BY <1>1, Least, Zenon
<1>3. Min(unsent) \in unsent /\ \A y \in unsent : Min(unsent) <= y
  BY <1>2, Zenon DEF Min
<1>4. PICK m : m = Min(unsent)
  BY Zenon
<1>5. m \in unsent /\ \A y \in unsent : m <= y
  BY <1>3, <1>4, Zenon
<1>6. \A y \in unsent : y # m => m < y
  BY <1>1, <1>5
<1> QED
  BY <1>4, <1>5, <1>6, Zenon

\* The larger and the smaller of two integers.
LEMMA MaxOfTwo ==
  ASSUME NEW a \in Int, NEW b \in Int
  PROVE  Max({a, b}) = IF a >= b THEN a ELSE b
<1> DEFINE m == IF a >= b THEN a ELSE b
<1>1. m \in {a, b} /\ \A y \in {a, b} : m >= y
  OBVIOUS
<1> HIDE DEF m
<1>2. Max({a, b}) \in {a, b} /\ \A y \in {a, b} : Max({a, b}) >= y
  BY <1>1, Zenon DEF Max
<1>3. PICK x : x = Max({a, b})
  BY Zenon
<1>4. x \in {a, b} /\ x >= a /\ x >= b
  BY <1>2, <1>3, Zenon
<1>5. x = m
  BY <1>4 DEF m
<1> QED
  BY <1>3, <1>5 DEF m

LEMMA MinOfTwo ==
  ASSUME NEW a \in Int, NEW b \in Int
  PROVE  Min({a, b}) = IF a <= b THEN a ELSE b
<1> DEFINE m == IF a <= b THEN a ELSE b
<1>1. m \in {a, b} /\ \A y \in {a, b} : m <= y
  OBVIOUS
<1> HIDE DEF m
<1>2. Min({a, b}) \in {a, b} /\ \A y \in {a, b} : Min({a, b}) <= y
  BY <1>1, Zenon DEF Min
<1>3. PICK x : x = Min({a, b})
  BY Zenon
<1>4. x \in {a, b} /\ x <= a /\ x <= b
  BY <1>2, <1>3, Zenon
<1>5. x = m
  BY <1>4 DEF m
<1> QED
  BY <1>3, <1>5 DEF m

\* What the next window leaves out is below the horizon or below the newest
\* stored run.
Limit == IF table = {} THEN time - Base ELSE time - Max({Base, MaxCatchup})
Horizon == IF table = {} \/ Limit > Max(table) - Overlap THEN Max({horizon, Limit}) ELSE horizon

LEMMA WindowReaches ==
  ASSUME PollType
  PROVE  /\ Horizon \in Nat /\ Horizon >= horizon
         /\ \A r \in Nat : Horizon <= r /\ r < WindowStart(time) =>
              \E m \in table : r < m
<1>1. time \in Nat /\ horizon \in Nat /\ Base \in Nat /\ MaxCatchup \in Nat /\ Overlap \in Nat
  BY PollAssumption DEF PollType
<1>2. CASE table = {}
  <2>1. WindowStart(time) = time - Base /\ Limit = time - Base /\ Horizon = Max({horizon, Limit})
    BY <1>2 DEF WindowStart, Limit, Horizon
  <2>2. Horizon = IF horizon >= time - Base THEN horizon ELSE time - Base
    BY <1>1, <2>1, MaxOfTwo
  <2> QED
    BY <1>1, <2>1, <2>2
<1>3. CASE table # {}
  <2>1. PICK M \in table : M = Max(table) /\ M \in Nat
    BY <1>3, TableMax
  <2>2. PICK L \in Int : L = Limit
    <3>1. Limit = time - Max({Base, MaxCatchup})
      BY <1>3 DEF Limit
    <3> QED
      BY <1>1, <3>1, MaxOfTwo
  <2>3. L = time - (IF Base >= MaxCatchup THEN Base ELSE MaxCatchup)
    BY <1>1, <1>3, <2>2, MaxOfTwo DEF Limit
  <2>4. PICK w \in Int, s \in Int :
          /\ w = Max({M - Overlap, time - MaxCatchup}) /\ s = Min({w, time - Base})
          /\ w = IF M - Overlap >= time - MaxCatchup THEN M - Overlap ELSE time - MaxCatchup
          /\ s = IF w <= time - Base THEN w ELSE time - Base
    <3>1. M - Overlap \in Int /\ time - MaxCatchup \in Int /\ time - Base \in Int
      BY <1>1, <2>1
    <3>2. PICK w \in Int : w = Max({M - Overlap, time - MaxCatchup})
                           /\ w = IF M - Overlap >= time - MaxCatchup THEN M - Overlap ELSE time - MaxCatchup
      BY <3>1, MaxOfTwo
    <3> QED
      BY <3>1, <3>2, MinOfTwo, ZenonT(60)
  <2>5. WindowStart(time) = s
    BY <1>3, <2>1, <2>4 DEF WindowStart
  <2>6. Horizon = IF L > M - Overlap THEN (IF horizon >= L THEN horizon ELSE L) ELSE horizon
    BY <1>1, <1>3, <2>1, <2>2, MaxOfTwo DEF Horizon
  <2>7. Horizon \in Nat /\ Horizon >= horizon
    BY <1>1, <2>1, <2>6
  <2>8. ASSUME NEW r \in Nat, Horizon <= r, r < s PROVE r < M
    BY <1>1, <2>1, <2>3, <2>4, <2>6, <2>8
  <2> QED
    BY <2>1, <2>5, <2>7, <2>8
<1> QED
  BY <1>2, <1>3


LEMMA PollInitHolds == PollInit => PollInv
<1> SUFFICES ASSUME PollInit PROVE PollInv
  OBVIOUS
<1>1. <<>> \in Seq([run : created, got : Outcomes]) /\ DOMAIN <<>> = {}
  OBVIOUS
<1> QED
  BY <1>1, ZenonT(60) DEF PollInit, PollInv, PollType, InOrder, Gapless

LEMMA TimePassesHolds == ASSUME PollInv, TimePasses PROVE PollInv'
<1>1. /\ ~polling /\ time' = time + 1 /\ time \in Nat
      /\ created \subseteq created' /\ created' \subseteq created \cup {time + 1}
      /\ UNCHANGED <<table, polling, unsent, inflight, batch, warned, horizon>>
  BY DEF TimePasses, PollInv, PollType
<1>2. /\ unsent = {} /\ inflight = <<>> /\ batch = {} /\ table \subseteq created
      /\ created \subseteq 1 .. time /\ horizon \in Nat /\ polling = FALSE
  BY <1>1 DEF PollInv, PollType
<1>3. <<>> \in Seq([run : created', got : Outcomes]) /\ DOMAIN <<>> = {}
  OBVIOUS
<1>4. PollType'
  <2>1. time' \in Nat /\ created' \subseteq 1 .. time' /\ table' \subseteq created' /\ horizon' \in Nat
    BY <1>1, <1>2
  <2>2. polling' \in BOOLEAN /\ unsent' = {} /\ inflight' = <<>> /\ batch' = {}
    BY <1>1, <1>2, Zenon
  <2> QED
    BY <1>3, <2>1, <2>2, Zenon DEF PollType
<1>5. InOrder'
  BY <1>1, <1>2, <1>3 DEF InOrder
<1>6. Gapless(table, table \cup warned)'
  BY <1>1, <1>2 DEF PollInv, Gapless
<1>7. Gapless(batch, table \cup batch \cup warned)'
  BY <1>1, <1>2 DEF Gapless
<1> QED
  BY <1>1, <1>4, <1>5, <1>6, <1>7 DEF PollInv

\* A window is listed down to the horizon or to what is stored without a gap.
LEMMA BeginPollHolds == ASSUME PollInv, BeginPoll PROVE PollInv'
<1>1. /\ ~polling /\ polling' = TRUE /\ horizon' = Horizon
      /\ unsent' = {r \in created : r >= WindowStart(time)}
      /\ UNCHANGED <<time, created, table, inflight, batch, warned>>
  BY DEF BeginPoll, Horizon, Limit
<1>2. /\ PollType /\ inflight = <<>> /\ batch = {} /\ DOMAIN <<>> = {}
      /\ created \subseteq Nat /\ horizon \in Nat /\ table \subseteq created
  BY <1>1 DEF PollInv, PollType
<1>3. PICK w : w = WindowStart(time)
  BY Zenon
<1>4. /\ Horizon \in Nat /\ Horizon >= horizon
      /\ \A r \in Nat : Horizon <= r /\ r < w => \E m \in table : r < m
  BY <1>2, <1>3, WindowReaches
<1>5. w \in Int
  <2>1. time \in Nat /\ Base \in Nat /\ MaxCatchup \in Nat /\ Overlap \in Nat
    BY <1>2, PollAssumption DEF PollType
  <2>2. CASE table = {}
    BY <1>3, <2>1, <2>2 DEF WindowStart
  <2>3. CASE table # {}
    <3>1. Max(table) - Overlap \in Int /\ time - MaxCatchup \in Int /\ time - Base \in Int
      BY <1>2, <2>1, <2>3, TableMax
    <3>2. PICK v \in Int : v = Max({Max(table) - Overlap, time - MaxCatchup})
      BY <3>1, MaxOfTwo
    <3>3. Min({v, time - Base}) \in Int
      BY <3>1, <3>2, MinOfTwo
    <3> QED
      BY <1>3, <2>3, <3>2, <3>3 DEF WindowStart
  <2> QED
    BY <2>2, <2>3
<1>6. PollType'
  BY <1>1, <1>2, <1>4 DEF PollType
<1>7. InOrder'
  BY <1>1, <1>2 DEF InOrder
<1>8. Gapless(table, table \cup warned)'
  BY <1>1, <1>2, <1>4 DEF PollInv, Gapless
<1>9. Gapless(batch, table \cup batch \cup warned)'
  BY <1>1, <1>2 DEF Gapless
<1>10. ASSUME NEW r \in created, Horizon <= r PROVE r \in table \cup warned \/ r \in unsent'
  <2>1. r \in Nat
    BY <1>2
  <2>2. CASE r >= w
    BY <1>1, <1>3, <2>2
  <2>3. CASE r < w
    <3>1. PICK m \in table : r < m
      BY <1>4, <1>10, <2>1, <2>3
    <3>2. horizon <= r
      BY <1>2, <1>4, <1>10, <2>1
    <3> QED
      BY <3>1, <3>2 DEF PollInv, Gapless
  <2> QED
    BY <1>5, <2>1, <2>2, <2>3
<1>11. \A r \in created' : horizon' <= r => (r \in table \cup batch \cup warned \/ Awaited(r))'
  BY <1>1, <1>10 DEF Awaited
<1> QED
  BY <1>6, <1>7, <1>8, <1>9, <1>11 DEF PollInv

LEMMA SubmitHolds == ASSUME PollInv, Submit PROVE PollInv'
<1>1. PICK x : x = Min(unsent)
  BY Zenon
<1>2. PICK e : e = [run |-> x, got |-> "busy"]
  BY Zenon
<1>3. /\ polling /\ unsent # {} /\ unsent' = unsent \ {x} /\ inflight' = Append(inflight, e)
      /\ UNCHANGED <<time, created, table, polling, batch, warned, horizon>>
  BY <1>1, <1>2 DEF Submit
<1>4. PollType /\ unsent \subseteq created /\ created \subseteq Nat
      /\ inflight \in Seq([run : created, got : Outcomes])
  BY DEF PollInv, PollType
<1>5. x \in unsent /\ \A y \in unsent : y # x => x < y
  BY <1>1, <1>3, <1>4, OldestUnsent
<1>6. e \in [run : created, got : Outcomes] /\ e.run = x /\ e.got = "busy"
  BY <1>2, <1>4, <1>5 DEF Outcomes
<1>7. PICK n \in Nat : n = Len(inflight) /\ DOMAIN inflight = 1 .. n
  BY <1>4
<1>8. PICK q : q = inflight'
  BY Zenon
<1>9. /\ q \in Seq([run : created, got : Outcomes]) /\ DOMAIN q = 1 .. n + 1
      /\ q[n + 1] = e /\ \A i \in 1 .. n : q[i] = inflight[i]
  BY <1>3, <1>4, <1>6, <1>7, <1>8
<1>10. \A i \in 1 .. n + 1 : i \in 1 .. n \/ i = n + 1
  BY <1>7
<1>11. PollType'
  BY <1>3, <1>4, <1>8, <1>9, ZenonT(60) DEF PollType
<1>12. InOrder'
  <2>1. ASSUME NEW i \in 1 .. n + 1, NEW j \in 1 .. n + 1, i < j PROVE q[i].run < q[j].run
    <3>1. i \in 1 .. n
      BY <1>7, <2>1
    <3>2. CASE j = n + 1
      BY <1>5, <1>6, <1>7, <1>9, <3>1, <3>2 DEF PollInv, InOrder
    <3>3. CASE j \in 1 .. n
      BY <1>7, <1>9, <2>1, <3>1, <3>3 DEF PollInv, InOrder
    <3> QED
      BY <1>10, <3>2, <3>3
  <2>2. ASSUME NEW i \in 1 .. n + 1, NEW u \in unsent' PROVE q[i].run < u
    <3>1. u \in unsent /\ u # x
      BY <1>3
    <3>2. CASE i = n + 1
      BY <1>5, <1>6, <1>9, <3>1, <3>2
    <3>3. CASE i \in 1 .. n
      BY <1>7, <1>9, <3>1, <3>3 DEF PollInv, InOrder
    <3> QED
      BY <1>10, <3>2, <3>3
  <2>3. ASSUME NEW i \in 1 .. n + 1
        PROVE  (q[i].got = "current" => q[i].run \in table) /\ (q[i].got = "skip" => q[i].run \in warned)
    BY <1>6, <1>7, <1>9, <1>10 DEF PollInv, InOrder
  <2> QED
    BY <1>3, <1>8, <1>9, <2>1, <2>2, <2>3 DEF InOrder
<1>13. Gapless(table, table \cup warned)' /\ Gapless(batch, table \cup batch \cup warned)'
  BY <1>3 DEF PollInv, Gapless
<1>14. ASSUME NEW r, Awaited(r) PROVE Awaited(r)'
  <2>1. CASE r = x
    BY <1>6, <1>7, <1>8, <1>9, <2>1 DEF Awaited
  <2>2. CASE r # x /\ r \in unsent
    BY <1>3, <2>2 DEF Awaited
  <2>3. CASE \E i \in DOMAIN inflight : inflight[i].run = r
    BY <1>7, <1>8, <1>9, <2>3 DEF Awaited
  <2> QED
    BY <1>14, <2>1, <2>2, <2>3 DEF Awaited
<1>15. \A r \in created' : horizon' <= r => (r \in table \cup batch \cup warned \/ Awaited(r))'
  BY <1>3, <1>14 DEF PollInv
<1> QED
  BY <1>11, <1>12, <1>13, <1>15 DEF PollInv


LEMMA FetchHolds == ASSUME PollInv, Fetch PROVE PollInv'
<1>1. PICK i \in DOMAIN inflight, got \in Outcomes :
        /\ got = "current" => inflight[i].run \in table
        /\ inflight' = [inflight EXCEPT ![i].got = got]
        /\ warned' = IF got = "skip" THEN warned \cup {inflight[i].run} ELSE warned
        /\ UNCHANGED <<time, created, table, polling, unsent, batch, horizon>>
  BY Zenon DEF Fetch, Outcomes
<1>2. PollType /\ inflight \in Seq([run : created, got : Outcomes])
  BY DEF PollInv, PollType
<1>3. PICK q : q = inflight'
  BY Zenon
<1>4. /\ q \in Seq([run : created, got : Outcomes]) /\ DOMAIN q = DOMAIN inflight
      /\ q[i].run = inflight[i].run /\ q[i].got = got
      /\ \A j \in DOMAIN inflight : j # i => q[j] = inflight[j]
  <2>1. PICK E : E = [run : created, got : Outcomes]
    BY Zenon
  <2>2. inflight \in Seq(E) /\ inflight[i] \in E
    <3>1. inflight \in Seq(E)
      BY <1>2, <2>1, Zenon
    <3> QED
      BY <3>1
  <2>3. PICK e : e = [inflight[i] EXCEPT !.got = got]
    BY Zenon
  <2>4. e \in E /\ e.run = inflight[i].run /\ e.got = got
    BY <1>1, <2>1, <2>2, <2>3
  <2>5. q = [inflight EXCEPT ![i] = e]
    BY <1>1, <1>3, <2>3, Zenon
  <2>6. q \in Seq(E) /\ DOMAIN q = DOMAIN inflight /\ q[i] = e
        /\ \A j \in DOMAIN inflight : j # i => q[j] = inflight[j]
    BY <1>1, <2>2, <2>4, <2>5
  <2> QED
    BY <2>1, <2>4, <2>6, Zenon
<1>5. \A j \in DOMAIN inflight : q[j].run = inflight[j].run
  BY <1>4
<1>6. warned \subseteq warned' /\ (got = "skip" => inflight[i].run \in warned')
  BY <1>1
<1>7. PollType'
  BY <1>1, <1>2, <1>3, <1>4 DEF PollType
<1>8. InOrder'
  <2>1. ASSUME NEW j \in DOMAIN inflight
        PROVE  (q[j].got = "current" => q[j].run \in table) /\ (q[j].got = "skip" => q[j].run \in warned')
    <3>1. CASE j = i
      BY <1>1, <1>4, <1>6, <3>1
    <3>2. CASE j # i
      BY <1>4, <1>6, <3>2 DEF PollInv, InOrder
    <3> QED
      BY <3>1, <3>2
  <2> QED
    BY <1>1, <1>3, <1>4, <1>5, <2>1 DEF PollInv, InOrder
<1>9. Gapless(table, table \cup warned)' /\ Gapless(batch, table \cup batch \cup warned)'
  BY <1>1, <1>6 DEF PollInv, Gapless
<1>10. \A r : Awaited(r) => Awaited(r)'
  BY <1>1, <1>3, <1>4, <1>5 DEF Awaited
<1>11. \A r \in created' : horizon' <= r => (r \in table \cup batch \cup warned \/ Awaited(r))'
  <2>1. polling
    BY <1>1, <1>2 DEF PollType
  <2>2. ASSUME NEW r \in created, horizon <= r PROVE r \in table \cup batch \cup warned' \/ Awaited(r)'
    <3>1. r \in table \cup batch \cup warned \/ Awaited(r)
      BY <2>1, <2>2, ZenonT(60) DEF PollInv
    <3> QED
      BY <1>6, <1>10, <3>1
  <2> QED
    BY <1>1, <2>2, Zenon
<1> QED
  BY <1>7, <1>8, <1>9, <1>11 DEF PollInv

\* Whether the held rows are written or lost, what the table holds has no gap.
LEMMA EndHolds ==
  ASSUME PollInv, polling' = FALSE, unsent' = {}, inflight' = <<>>, batch' = {},
         table' \in {table, table \cup batch}, UNCHANGED <<time, created, warned, horizon>>
  PROVE  PollInv'
<1>1. <<>> \in Seq([run : created', got : Outcomes]) /\ DOMAIN <<>> = {}
  OBVIOUS
<1>2. PollType'
  BY <1>1, ZenonT(60) DEF PollInv, PollType
<1>3. InOrder'
  BY <1>1 DEF InOrder
<1>4. Gapless(table, table \cup warned)'
  BY DEF PollInv, Gapless
<1>5. Gapless(batch, table \cup batch \cup warned)'
  BY DEF Gapless
<1> QED
  BY <1>2, <1>3, <1>4, <1>5 DEF PollInv

\* The oldest submitted run is taken: no run below it is awaited any more.
LEMMA ConsumeHolds == ASSUME PollInv, Consume PROVE PollInv'
<1>1. /\ polling /\ inflight \in Seq([run : created, got : Outcomes]) /\ DOMAIN inflight = 1 .. Len(inflight)
      /\ PollType /\ created \subseteq Nat /\ batch \subseteq created /\ table \subseteq created
      /\ unsent \subseteq created
  BY DEF Consume, PollInv, PollType
<1>2. PICK x : x = inflight[1]
  BY Zenon
<1>3. 1 \in DOMAIN inflight
  BY DEF Consume, TakeFrom
<1>4. x.run \in created /\ x.got \in Outcomes
  <2>1. PICK E : E = [run : created, got : Outcomes]
    BY Zenon
  <2>2. inflight \in Seq(E)
    BY <1>1, <2>1, Zenon
  <2>3. x \in E
    BY <1>2, <1>3, <2>2
  <2> QED
    BY <2>1, <2>3
<1> DEFINE held == IF x.got = "rows" THEN batch \cup {x.run} ELSE batch
<1>5. CASE x.got = "stop"
  <2>1. Ends /\ UNCHANGED <<time, created, warned, horizon>>
    BY <1>2, <1>5, ZenonT(60) DEF Consume, TakeFrom
  <2> QED
    BY <2>1, EndHolds, ZenonT(60) DEF Ends
<1>6. CASE x.got # "stop"
  <2>1. /\ inflight' = Dropping(inflight, 1) /\ x.got # "busy"
        /\ \/ table' = table \cup held /\ batch' = {}
           \/ batch' = held /\ UNCHANGED table
        /\ UNCHANGED <<polling, unsent, time, created, warned, horizon>>
    BY <1>2, <1>6, ZenonT(60) DEF Consume, TakeFrom
  <2>2. PICK n \in Nat : Len(inflight) = n + 1
    <3>1. Len(inflight) \in Nat /\ Len(inflight) # 0
      BY <1>1, <1>3
    <3>2. Len(inflight) - 1 \in Nat /\ Len(inflight) = (Len(inflight) - 1) + 1
      BY <3>1
    <3> QED
      BY <3>2, Zenon
  <2>3. PICK q : q = inflight'
    BY Zenon
  <2>4. /\ q \in Seq([run : created, got : Outcomes]) /\ DOMAIN q = 1 .. n
        /\ \A j \in 1 .. n : q[j] = inflight[j + 1]
    <3>1. PICK E : E = [run : created, got : Outcomes]
      BY Zenon
    <3>2. inflight \in Seq(E)
      BY <1>1, <3>1
    <3>3. q = SubSeq(inflight, 1, 1 - 1) \o SubSeq(inflight, 1 + 1, Len(inflight))
      BY <2>1, <2>3 DEF Dropping
    <3>4. SubSeq(inflight, 1, 1 - 1) = <<>>
      BY <3>2
    <3>5. PICK p : p = SubSeq(inflight, 1 + 1, Len(inflight))
      BY Zenon
    <3>6. p \in Seq(E) /\ Len(p) = n /\ \A j \in 1 .. n : p[j] = inflight[j + 1]
      BY <2>2, <3>2, <3>5
    <3>7. q = p
      BY <3>3, <3>4, <3>5, <3>6
    <3> QED
      BY <3>1, <3>6, <3>7
  <2>5. \A j \in 1 .. n : j + 1 \in DOMAIN inflight /\ 1 < j + 1
    BY <1>1, <2>2
  <2>6. InOrder'
    <3>1. ASSUME NEW i \in 1 .. n, NEW j \in 1 .. n, i < j PROVE q[i].run < q[j].run
      <4>1. i + 1 < j + 1
        BY <2>2, <3>1
      <4> QED
        BY <2>4, <2>5, <4>1, ZenonT(60) DEF PollInv, InOrder
    <3>2. table \subseteq table'
      BY <2>1
    <3> QED
      BY <2>1, <2>3, <2>4, <2>5, <3>1, <3>2 DEF PollInv, InOrder
  <2>7. held \subseteq created /\ batch \subseteq held
    BY <1>1, <1>4, ZenonT(60)
  <2>8. PollType'
    BY <1>1, <2>1, <2>3, <2>4, <2>7, ZenonT(60) DEF PollType
  <2>9. x.got # "rows" => x.run \in table \cup warned
    <3>1. x.got \in {"rows", "current", "skip"}
      BY <1>4, <1>6, <2>1 DEF Outcomes
    <3> QED
      BY <1>2, <1>3, <3>1 DEF PollInv, InOrder
  <2>10. x.run \in table \cup held \cup warned
    BY <2>9
  <2>11. ASSUME NEW r \in created, horizon <= r, r < x.run PROVE r \in table \cup batch \cup warned
    <3>1. \A u \in unsent : x.run < u
      BY <1>2, <1>3 DEF PollInv, InOrder
    <3>2. \A j \in DOMAIN inflight : j = 1 \/ x.run < inflight[j].run
      BY <1>1, <1>2, <1>3 DEF PollInv, InOrder
    <3>3. ~Awaited(r)
      <4>0. r \in Nat /\ x.run \in Nat
        BY <1>1, <1>4, Zenon
      <4>1. r \in Nat /\ x.run \in Nat /\ r # x.run
        BY <2>11, <4>0
      <4>2. r \notin unsent
        BY <1>1, <2>11, <3>1, <4>1
      <4>3. ASSUME NEW j \in DOMAIN inflight, inflight[j].run = r PROVE FALSE
        <5>1. j = 1 \/ x.run < r
          BY <3>2, <4>3
        <5> QED
          BY <1>2, <2>11, <4>1, <4>3, <5>1
      <4> QED
        BY <4>2, <4>3 DEF Awaited
    <3> QED
      BY <1>1, <2>11, <3>3 DEF PollInv
  <2>12. Gapless(held, table \cup held \cup warned)
    BY <2>7, <2>11 DEF PollInv, Gapless
  <2> HIDE DEF held
  <2>13. Gapless(table, table \cup warned)' /\ Gapless(batch, table \cup batch \cup warned)'
    BY <2>1, <2>12 DEF PollInv, Gapless
  <2>14. ASSUME NEW r, Awaited(r), r # x.run PROVE Awaited(r)'
    <3>1. CASE r \in unsent
      BY <2>1, <3>1 DEF Awaited
    <3>2. CASE r \notin unsent
      <4>1. PICK i \in 1 .. n + 1 : inflight[i].run = r
        BY <1>1, <2>2, <2>14, <3>2 DEF Awaited
      <4>2. i # 1
        BY <1>2, <2>14, <4>1
      <4>3. PICK j \in 1 .. n : i = j + 1
        BY <2>2, <4>1, <4>2
      <4> QED
        BY <2>3, <2>4, <4>1, <4>3, ZenonT(60) DEF Awaited
    <3> QED
      BY <3>1, <3>2
  <2>15. table \cup held \subseteq table' \cup batch' /\ table \cup batch \subseteq table' \cup batch'
    BY <2>1, <2>7
  <2>16. \A r \in created' : horizon' <= r => (r \in table \cup batch \cup warned \/ Awaited(r))'
    BY <1>1, <2>1, <2>10, <2>14, <2>15 DEF PollInv
  <2> QED
    BY <2>6, <2>8, <2>13, <2>16 DEF PollInv
<1> QED
  BY <1>5, <1>6

LEMMA PollNextHolds == PollInv /\ [PollNext]_pollVars => PollInv'
<1> SUFFICES ASSUME PollInv, [PollNext]_pollVars PROVE PollInv'
  OBVIOUS
<1>1. CASE TimePasses
  BY <1>1, TimePassesHolds
<1>2. CASE BeginPoll
  BY <1>2, BeginPollHolds
<1>3. CASE Submit
  BY <1>3, SubmitHolds
<1>4. CASE Fetch
  BY <1>4, FetchHolds
<1>5. CASE Consume
  BY <1>5, ConsumeHolds
<1>6. CASE ListingStops
  BY <1>6, EndHolds, ZenonT(60) DEF ListingStops, Ends
<1>7. CASE EndPoll
  BY <1>7, EndHolds, ZenonT(60) DEF EndPoll, Ends
<1>8. CASE Abort
  BY <1>8, EndHolds, ZenonT(60) DEF Abort
<1>9. CASE UNCHANGED pollVars
  BY <1>9, Zenon DEF pollVars, PollInv, PollType, InOrder, Gapless, Awaited
<1> QED
  BY <1>1, <1>2, <1>3, <1>4, <1>5, <1>6, <1>7, <1>8, <1>9, ZenonT(60) DEF PollNext

\* For any windows, overlap, catch-up limit, workers and batch size, and however
\* often a poll is stopped, killed or left out: a run older than the newest
\* stored one, which no later window would reach again, is stored or was warned
\* of, down to the horizon.
THEOREM NoSilentGapAlways == PollSpec => []NoSilentGap
<1>1. PollInv => NoSilentGap
  <2> SUFFICES ASSUME PollInv, NEW r \in created, table # {}, horizon <= r, r < Max(table)
               PROVE  r \in table \cup warned
    BY DEF NoSilentGap
  <2>1. Max(table) \in table
    BY TableMax DEF PollInv
  <2> QED
    BY <2>1 DEF PollInv, Gapless
<1> QED
  BY <1>1, PollInitHolds, PollNextHolds, PTL DEF PollSpec

-----------------------------------------------------------------------------
(* DeviceAllocator: sums of sizes *)

One(S) == CHOOSE x \in S : TRUE
Plus(g, s) == IF s = {} THEN 0 ELSE Size[One(s)] + g[s \ {One(s)}]
Sums(S, g) == g = [s \in SUBSET S |-> Plus(g, s)]
Small(S, n) == {s \in SUBSET S : Cardinality(s) <= n}

LEMMA SizeOfIs == ASSUME NEW S PROVE SizeOf(S) = (CHOOSE g : Sums(S, g))[S]
  BY Zenon DEF SizeOf, MapThenSumSet, MapThenFoldSet, Sums, Plus, One

\* Without one of its elements a finite set is smaller by one.
LEMMA OneLess ==
  ASSUME NEW S, IsFiniteSet(S), NEW s \in SUBSET S, s # {}
  PROVE  /\ One(s) \in s /\ IsFiniteSet(s) /\ IsFiniteSet(s \ {One(s)})
         /\ Cardinality(s) \in Nat \ {0}
         /\ Cardinality(s \ {One(s)}) = Cardinality(s) - 1
         /\ s \ {One(s)} \in SUBSET S
<1>1. One(s) \in s
  BY Zenon DEF One
<1>2. IsFiniteSet(s)
  BY FS_Subset, Zenon
<1>3. /\ IsFiniteSet(s \ {One(s)})
      /\ Cardinality(s \ {One(s)}) = IF One(s) \in s THEN Cardinality(s) - 1 ELSE Cardinality(s)
  BY <1>2, FS_RemoveElement, Zenon
<1>4. Cardinality(s) \in Nat /\ Cardinality(s \ {One(s)}) \in Nat
  BY <1>2, <1>3, FS_CardinalityType, Zenon
<1>5. Cardinality(s) # 0
  BY <1>2, FS_EmptySet, Zenon
<1> QED
  BY <1>1, <1>2, <1>3, <1>4, <1>5

\* The recursive function behind SizeOf exists for every finite set: built up
\* by the size of the subsets.
LEMMA SumsExist ==
  ASSUME NEW S, IsFiniteSet(S)
  PROVE  \E g : Sums(S, g)
<1> DEFINE Bad == {n \in Nat : ~\E g : g = [s \in Small(S, n) |-> Plus(g, s)]}
<1>1. ASSUME NEW m \in Bad, \A n \in Bad : m <= n
      PROVE  FALSE
  <2>0. m \in Nat
    OBVIOUS
  <2>1. CASE m = 0
    <3>1. \A s \in Small(S, 0) : s = {}
      <4> SUFFICES ASSUME NEW s \in Small(S, 0), s # {} PROVE FALSE
        OBVIOUS
      <4>1. s \in SUBSET S /\ Cardinality(s) <= 0
        BY DEF Small
      <4>2. Cardinality(s) \in Nat \ {0}
        BY <4>1, OneLess, Zenon
      <4> HIDE DEF Bad
      <4> QED
        BY <4>1, <4>2
    <3>2. PICK g : g = [s \in Small(S, 0) |-> 0]
      BY Zenon
    <3>3. g = [s \in Small(S, 0) |-> Plus(g, s)]
      <4>1. \A s \in Small(S, 0) : Plus(g, s) = 0
        BY <3>1, Zenon DEF Plus
      <4> QED
        BY <3>2, <4>1, Zenon
    <3> QED
      BY <2>1, <3>3, Zenon
  <2>2. CASE m # 0
    <3>1. m - 1 \in Nat /\ m - 1 \notin Bad
      BY <2>0, <2>2, <1>1
    <3>2. PICK g : g = [s \in Small(S, m - 1) |-> Plus(g, s)]
      BY <3>1, Zenon
    <3>3. PICK h : h = [s \in Small(S, m) |-> Plus(g, s)]
      BY Zenon
    <3>4. Small(S, m - 1) \subseteq Small(S, m)
      <4> SUFFICES ASSUME NEW s \in Small(S, m - 1) PROVE s \in Small(S, m)
        BY Zenon
      <4>1. s \in SUBSET S /\ Cardinality(s) <= m - 1 /\ IsFiniteSet(s)
        BY FS_Subset, Zenon DEF Small
      <4>2. Cardinality(s) \in Nat
        BY <4>1, FS_CardinalityType, Zenon
      <4>3. Cardinality(s) <= m
        BY <2>0, <4>1, <4>2
      <4> QED
        BY <4>1, <4>3, Zenon DEF Small
    <3>5. \A s \in Small(S, m - 1) : h[s] = g[s]
      BY <3>2, <3>3, <3>4, Zenon
    <3>6. ASSUME NEW s \in Small(S, m) PROVE Plus(h, s) = Plus(g, s)
      <4>1. CASE s = {}
        BY <4>1, Zenon DEF Plus
      <4>2. CASE s # {}
        <5>1. s \in SUBSET S /\ Cardinality(s) <= m
          BY Zenon DEF Small
        <5>2. /\ s \ {One(s)} \in SUBSET S /\ Cardinality(s) \in Nat
              /\ Cardinality(s \ {One(s)}) = Cardinality(s) - 1
          BY <4>2, <5>1, OneLess
        <5>3. Cardinality(s \ {One(s)}) <= m - 1
          BY <2>0, <5>1, <5>2
        <5>4. s \ {One(s)} \in Small(S, m - 1)
          BY <5>2, <5>3, Zenon DEF Small
        <5> QED
          BY <3>5, <4>2, <5>4, Zenon DEF Plus
      <4> QED
        BY <4>1, <4>2, Zenon
    <3>7. h = [s \in Small(S, m) |-> Plus(h, s)]
      BY <3>3, <3>6, Zenon
    <3> QED
      BY <3>7, Zenon
  <2> QED
    BY <2>1, <2>2, Zenon
<1>2. Cardinality(S) \in Nat
  BY FS_CardinalityType, Zenon
<1>3. Bad = {}
  <2> SUFFICES ASSUME Bad # {} PROVE FALSE
    BY Zenon
  <2>1. PICK m \in Bad : \A n \in Bad : m <= n
    <3>1. Bad \subseteq Nat
      BY Zenon
    <3> HIDE DEF Bad
    <3> QED
      BY <3>1, Least, Zenon
  <2> QED
    BY <1>1, <2>1, Zenon
<1>4. PICK g : g = [s \in Small(S, Cardinality(S)) |-> Plus(g, s)]
  BY <1>2, <1>3, Zenon
<1>5. Small(S, Cardinality(S)) = SUBSET S
  BY FS_Subset, Zenon DEF Small
<1> QED
  BY <1>4, <1>5, Zenon DEF Sums

\* It is the same for the subsets two sets share.
LEMMA SumsAgree ==
  ASSUME NEW S, NEW T, IsFiniteSet(S), NEW g, NEW h, Sums(S, g), Sums(T, h),
         NEW r \in SUBSET S, r \in SUBSET T
  PROVE  g[r] = h[r]
<1> DEFINE Bad == {n \in Nat : \E s \in SUBSET S :
                     s \in SUBSET T /\ Cardinality(s) = n /\ g[s] # h[s]}
<1>0. \A s \in SUBSET S : IsFiniteSet(s) /\ Cardinality(s) \in Nat
  BY FS_Subset, FS_CardinalityType, Zenon
<1>1. ASSUME NEW m \in Bad, \A n \in Bad : m <= n
      PROVE  FALSE
  <2>1. PICK s \in SUBSET S : s \in SUBSET T /\ Cardinality(s) = m /\ g[s] # h[s]
    BY Zenon
  <2>2. g[s] = Plus(g, s) /\ h[s] = Plus(h, s)
    BY <2>1, Zenon DEF Sums
  <2>3. s # {}
    BY <2>1, <2>2, ZenonT(60) DEF Plus
  <2>4. /\ s \ {One(s)} \in SUBSET S /\ s \ {One(s)} \in SUBSET T
        /\ Cardinality(s \ {One(s)}) = m - 1 /\ m \in Nat \ {0}
    BY <2>1, <2>3, OneLess, ZenonT(60)
  <2>5. g[s \ {One(s)}] = h[s \ {One(s)}]
    <3>1. m - 1 \in Nat /\ ~(m <= m - 1)
      BY <2>4
    <3>2. m - 1 \notin Bad
      BY <1>1, <3>1, Zenon
    <3> QED
      BY <2>4, <3>1, <3>2, Zenon
  <2> QED
    BY <2>1, <2>2, <2>3, <2>5, Zenon DEF Plus
<1>2. Bad = {}
  <2> SUFFICES ASSUME Bad # {} PROVE FALSE
    BY Zenon
  <2>1. PICK m \in Bad : \A n \in Bad : m <= n
    <3>1. Bad \subseteq Nat
      BY Zenon
    <3> HIDE DEF Bad
    <3> QED
      BY <3>1, Least, Zenon
  <2> QED
    BY <1>1, <2>1, Zenon
<1> QED
  BY <1>0, <1>2, Zenon

LEMMA SizeOfEmpty == SizeOf({}) = 0
<1>1. PICK g : g = (CHOOSE f : Sums({}, f))
  BY Zenon
<1>2. Sums({}, g)
  BY <1>1, SumsExist, FS_EmptySet, Zenon
<1>3. g[{}] = Plus(g, {})
  BY <1>2, Zenon DEF Sums
<1> QED
  BY <1>1, <1>3, SizeOfIs, Zenon DEF Plus

\* One step of the recursion, in terms of SizeOf.
LEMMA SizeOfOne ==
  ASSUME NEW S, IsFiniteSet(S), S # {}
  PROVE  SizeOf(S) = Size[One(S)] + SizeOf(S \ {One(S)})
<1>1. PICK T : T = S \ {One(S)}
  BY Zenon
<1>2. IsFiniteSet(T) /\ T \in SUBSET S /\ T \in SUBSET T
  BY <1>1, OneLess, Zenon
<1>3. PICK g, h : g = (CHOOSE f : Sums(S, f)) /\ h = (CHOOSE f : Sums(T, f))
  BY Zenon
<1>4. Sums(S, g) /\ Sums(T, h)
  BY <1>2, <1>3, SumsExist, Zenon
<1>5. g[S] = Plus(g, S)
  BY <1>4, Zenon DEF Sums
<1>6. g[T] = h[T]
  <2>1. ASSUME NEW r \in SUBSET S, r \in SUBSET T PROVE g[r] = h[r]
    BY <1>4, <2>1, SumsAgree
  <2> QED
    BY <1>2, <2>1, ZenonT(60)
<1>7. SizeOf(S) = g[S] /\ SizeOf(T) = h[T]
  BY <1>3, SizeOfIs, Zenon
<1> QED
  BY <1>1, <1>5, <1>6, <1>7, Zenon DEF Plus

LEMMA SizeOfType ==
  ASSUME NEW S \in SUBSET Objs, IsFiniteSet(S)
  PROVE  SizeOf(S) \in Nat
<1> DEFINE Bad == {n \in Nat : \E s \in SUBSET S : Cardinality(s) = n /\ SizeOf(s) \notin Nat}
<1>0. \A s \in SUBSET S : IsFiniteSet(s) /\ Cardinality(s) \in Nat
  BY FS_Subset, FS_CardinalityType, Zenon
<1>1. ASSUME NEW m \in Bad, \A n \in Bad : m <= n
      PROVE  FALSE
  <2>1. PICK s \in SUBSET S : Cardinality(s) = m /\ SizeOf(s) \notin Nat
    BY Zenon
  <2>2. s # {}
    BY <2>1, SizeOfEmpty
  <2>3. /\ s \ {One(s)} \in SUBSET S /\ One(s) \in s /\ IsFiniteSet(s)
        /\ Cardinality(s \ {One(s)}) = m - 1 /\ m \in Nat \ {0}
    BY <2>1, <2>2, OneLess
  <2>4. SizeOf(s) = Size[One(s)] + SizeOf(s \ {One(s)})
    BY <2>2, <2>3, SizeOfOne, Zenon
  <2>5. SizeOf(s \ {One(s)}) \in Nat
    <3>1. m - 1 \in Nat /\ ~(m <= m - 1)
      BY <2>3
    <3>2. m - 1 \notin Bad
      BY <1>1, <3>1, Zenon
    <3> QED
      BY <2>3, <3>1, <3>2, Zenon
  <2>6. Size[One(s)] \in Nat
    BY <2>3, SizeAssumption
  <2> QED
    BY <2>1, <2>4, <2>5, <2>6
<1>2. Bad = {}
  <2> SUFFICES ASSUME Bad # {} PROVE FALSE
    BY Zenon
  <2>1. PICK m \in Bad : \A n \in Bad : m <= n
    <3>1. Bad \subseteq Nat
      BY Zenon
    <3> HIDE DEF Bad
    <3> QED
      BY <3>1, Least, Zenon
  <2> QED
    BY <1>1, <2>1, Zenon
<1> QED
  BY <1>0, <1>2, Zenon

\* Any element may be taken out first.
LEMMA SizeOfWithout ==
  ASSUME NEW S \in SUBSET Objs, IsFiniteSet(S), NEW x \in S
  PROVE  SizeOf(S) = Size[x] + SizeOf(S \ {x})
<1> DEFINE Bad == {n \in Nat : \E s \in SUBSET S : \E y \in s :
                     Cardinality(s) = n /\ SizeOf(s) # Size[y] + SizeOf(s \ {y})}
<1>0. \A s \in SUBSET S : IsFiniteSet(s) /\ Cardinality(s) \in Nat
  BY FS_Subset, FS_CardinalityType, Zenon
<1>1. ASSUME NEW m \in Bad, \A n \in Bad : m <= n
      PROVE  FALSE
  <2>1. PICK s \in SUBSET S : \E y \in s : Cardinality(s) = m /\ SizeOf(s) # Size[y] + SizeOf(s \ {y})
    BY Zenon
  <2>2. PICK y \in s : Cardinality(s) = m /\ SizeOf(s) # Size[y] + SizeOf(s \ {y})
    BY <2>1, Zenon
  <2>3. PICK z : z = One(s)
    BY Zenon
  <2>4. /\ s \ {z} \in SUBSET S /\ z \in s /\ IsFiniteSet(s)
        /\ Cardinality(s \ {z}) = m - 1 /\ m \in Nat \ {0}
    BY <2>2, <2>3, OneLess
  <2>5. SizeOf(s) = Size[z] + SizeOf(s \ {z})
    BY <2>3, <2>4, SizeOfOne, Zenon
  <2>6. z # y
    BY <2>2, <2>5, Zenon
  <2>7. /\ s \ {y} \in SUBSET S /\ y \in s \ {z} /\ z \in s \ {y}
        /\ (s \ {y}) \ {z} = (s \ {z}) \ {y}
    BY <2>4, <2>6, Zenon
  <2>8. Cardinality(s \ {y}) = m - 1
    BY <2>2, <2>4, FS_RemoveElement, Zenon
  <2>9. m - 1 \in Nat /\ m - 1 \notin Bad
    <3>1. m - 1 \in Nat /\ ~(m <= m - 1)
      BY <2>4
    <3> QED
      BY <1>1, <3>1, Zenon
  <2>10. /\ SizeOf(s \ {z}) = Size[y] + SizeOf((s \ {z}) \ {y})
         /\ SizeOf(s \ {y}) = Size[z] + SizeOf((s \ {y}) \ {z})
    BY <2>4, <2>7, <2>8, <2>9, ZenonT(60)
  <2>11. Size[y] \in Nat /\ Size[z] \in Nat
    BY <2>4, SizeAssumption
  <2>12. SizeOf((s \ {y}) \ {z}) \in Nat
    <3>1. PICK r : r = (s \ {y}) \ {z}
      BY Zenon
    <3>2. r \in SUBSET S /\ r \in SUBSET Objs
      BY <3>1, Zenon
    <3> QED
      BY <1>0, <3>1, <3>2, SizeOfType, Zenon
  <2>13. PICK a \in Nat, b \in Nat, c \in Nat :
           a = Size[y] /\ b = Size[z] /\ c = SizeOf((s \ {y}) \ {z})
    BY <2>11, <2>12, Zenon
  <2>14. SizeOf(s) = b + (a + c) /\ SizeOf(s) # a + (b + c)
    BY <2>2, <2>5, <2>7, <2>10, <2>13, Zenon
  <2> HIDE DEF Bad
  <2> QED
    BY <2>14
<1>2. Bad = {}
  <2> SUFFICES ASSUME Bad # {} PROVE FALSE
    BY Zenon
  <2>1. PICK m \in Bad : \A n \in Bad : m <= n
    <3>1. Bad \subseteq Nat
      BY Zenon
    <3> HIDE DEF Bad
    <3> QED
      BY <3>1, Least, Zenon
  <2> QED
    BY <1>1, <2>1, Zenon
<1> QED
  BY <1>0, <1>2, ZenonT(60)

LEMMA SizeOfSubset ==
  ASSUME NEW S \in SUBSET Objs, IsFiniteSet(S), NEW T \in SUBSET S
  PROVE  SizeOf(T) <= SizeOf(S)
<1> DEFINE Bad == {n \in Nat : \E s \in SUBSET S :
                     T \subseteq s /\ Cardinality(s) = n /\ ~(SizeOf(T) <= SizeOf(s))}
<1>0. \A s \in SUBSET S : IsFiniteSet(s) /\ Cardinality(s) \in Nat /\ SizeOf(s) \in Nat
  <2> SUFFICES ASSUME NEW s \in SUBSET S
               PROVE  IsFiniteSet(s) /\ Cardinality(s) \in Nat /\ SizeOf(s) \in Nat
    BY Zenon
  <2>1. IsFiniteSet(s) /\ s \in SUBSET Objs
    BY FS_Subset, Zenon
  <2> QED
    BY <2>1, SizeOfType, FS_CardinalityType, Zenon
<1>1. ASSUME NEW m \in Bad, \A n \in Bad : m <= n
      PROVE  FALSE
  <2>1. PICK s \in SUBSET S : T \subseteq s /\ Cardinality(s) = m /\ ~(SizeOf(T) <= SizeOf(s))
    BY Zenon
  <2>2. s # T
    BY <1>0, <2>1
  <2>3. PICK x \in s : x \notin T
    BY <2>1, <2>2, Zenon
  <2>4. PICK r : r = s \ {x}
    BY Zenon
  <2>5. r \in SUBSET S /\ T \subseteq r /\ s \in SUBSET Objs /\ x \in Objs
    BY <2>1, <2>3, <2>4, Zenon
  <2>6. Cardinality(r) = Cardinality(s) - 1
    BY <1>0, <2>4, FS_RemoveElement, Zenon
  <2>7. SizeOf(s) = Size[x] + SizeOf(r)
    BY <1>0, <2>4, <2>5, SizeOfWithout, Zenon
  <2>8. Cardinality(r) \in Nat /\ Cardinality(r) \notin Bad
    <3>1. m \in Nat /\ Cardinality(r) = m - 1 /\ Cardinality(r) \in Nat /\ ~(m <= Cardinality(r))
      BY <1>0, <2>1, <2>5, <2>6
    <3> QED
      BY <1>1, <3>1, Zenon
  <2>9. SizeOf(T) <= SizeOf(r)
    BY <2>5, <2>8, Zenon
  <2>10. SizeOf(T) \in Nat /\ SizeOf(r) \in Nat /\ Size[x] \in Nat
    BY <1>0, <2>5, SizeAssumption
  <2> QED
    BY <2>1, <2>7, <2>9, <2>10
<1>2. Bad = {}
  <2> SUFFICES ASSUME Bad # {} PROVE FALSE
    BY Zenon
  <2>1. PICK m \in Bad : \A n \in Bad : m <= n
    <3>1. Bad \subseteq Nat
      BY Zenon
    <3> HIDE DEF Bad
    <3> QED
      BY <3>1, Least, Zenon
  <2> QED
    BY <1>1, <2>1, Zenon
<1> QED
  BY <1>0, <1>2, Zenon

-----------------------------------------------------------------------------
(* DeviceAllocator: the GIL *)

Asking == {"lock", "try", "wantGil", "collect", "gc", "gcFree", "gcWait", "releaseGil",
           "relock", "retry"}
Labels == Asking \cup {"idle", "record", "free"}

GilType ==
  /\ gil \in Threads \cup {None}
  /\ pc \in [Threads -> Labels] /\ python \in [Threads -> BOOLEAN]
GilInv == GilType /\ GilKept

\* At these points a thread has the GIL.
NeedsGil(t) ==
  \/ pc[t] \in {"gc", "gcFree", "collect", "releaseGil"}
  \/ python[t] /\ pc[t] \notin {"idle", "gcWait", "wantGil"}

\* Thread t moves; it needs the GIL only if it has it, and only takes a free one.
LEMMA GilStep ==
  ASSUME GilInv, NEW t \in Threads, NEW l \in Labels, NEW b \in BOOLEAN, Goto(t, l),
         python' = [python EXCEPT ![t] = b],
         gil' = gil \/ (gil \in {t, None} /\ gil' \in {t, None}),
         l \in {"gc", "gcFree", "collect", "releaseGil"}
           \/ (b /\ l \notin {"idle", "gcWait", "wantGil"}) => gil' = t
  PROVE  GilInv'
<1>1. /\ gil' \in Threads \cup {None} /\ pc' \in [Threads -> Labels]
      /\ python' \in [Threads -> BOOLEAN]
  BY Zenon DEF GilInv, GilType, Goto
<1>2. pc'[t] = l /\ python'[t] = b
  BY Zenon DEF GilInv, GilType, Goto
<1>3. \A u \in Threads : u # t => pc'[u] = pc[u] /\ python'[u] = python[u]
  BY Zenon DEF GilInv, GilType, Goto
<1>4. ASSUME NEW u \in Threads, NeedsGil(u)' PROVE gil' = u
  <2>1. CASE u = t
    BY <1>2, <1>4, <2>1, Zenon DEF NeedsGil
  <2>2. CASE u # t
    <3>1. NeedsGil(u)
      BY <1>3, <1>4, <2>2, Zenon DEF NeedsGil
    <3>2. gil = u
      BY <3>1, Zenon DEF GilInv, GilKept, NeedsGil
    <3> QED
      BY <2>2, <3>2, NoneAssumption, Zenon
  <2> QED
    BY <2>1, <2>2, Zenon
<1> QED
  BY <1>1, <1>4, Zenon DEF GilInv, GilType, GilKept, NeedsGil

LEMMA GilInit == Init => GilInv
  BY DEF Init, GilInv, GilType, GilKept, Labels, Asking

LEMMA GilNext == GilInv /\ [Next]_vars => GilInv'
<1> SUFFICES ASSUME GilInv, [Next]_vars PROVE GilInv'
  BY Zenon
<1>0. ASSUME NEW t \in Threads
      PROVE  /\ pc[t] \in Labels /\ python[t] \in BOOLEAN
             /\ pc = [pc EXCEPT ![t] = pc[t]] /\ python = [python EXCEPT ![t] = python[t]]
  BY DEF GilInv, GilType
<1>k. \A t \in Threads : NeedsGil(t) => gil = t
  BY Zenon DEF GilInv, GilKept, NeedsGil
<1>1. CASE UNCHANGED vars
  BY <1>1, Zenon DEF vars, GilInv, GilType, GilKept
<1>2. ASSUME NEW o \in Objs, BecomeGarbage(o) PROVE GilInv'
  BY <1>2, Zenon DEF BecomeGarbage, GilInv, GilType, GilKept
<1>3. ASSUME NEW t \in Threads, TakeGil(t) \/ DropGil(t) PROVE GilInv'
  <2>1. UNCHANGED <<pc, python>> /\ pc[t] = "idle" /\ gil \in {t, None} /\ gil' \in {t, None}
    BY <1>3, Zenon DEF TakeGil, DropGil
  <2> QED
    BY <1>0, <2>1, GilStep, Zenon DEF Goto
<1>4. ASSUME NEW t \in Threads, Yield(t) PROVE GilInv'
  <2>1. Goto(t, "gcWait") /\ gil' = None /\ gil = t /\ UNCHANGED python
    BY <1>4, <1>k, Zenon DEF Yield, NeedsGil
  <2> QED
    BY <1>0, <2>1, GilStep, Zenon DEF Labels, Asking
<1>5. ASSUME NEW t \in Threads, NEW o \in Objs, Call(t, o) \/ ReportAndDelete(t, o) PROVE GilInv'
  <2>1. PICK b \in BOOLEAN, l \in {"lock", "free"} :
          /\ Goto(t, l) /\ gil' = gil /\ b = (gil = t) /\ python' = [python EXCEPT ![t] = b]
    BY <1>5, Zenon DEF Call, ReportAndDelete
  <2> QED
    BY <2>1, GilStep, Zenon DEF Labels, Asking
<1>6. ASSUME NEW t \in Threads, Lock(t) \/ Pressure(t) \/ TryAllocate(t) PROVE GilInv'
  <2>1. PICK l \in {"try", "retry", "wantGil", "record", "idle"} : Goto(t, l)
    BY <1>6, Zenon DEF Lock, Pressure, TryAllocate
  <2>2. gil' = gil /\ UNCHANGED python /\ pc[t] \in {"lock", "relock", "try", "retry"}
    BY <1>6, ZenonT(60) DEF Lock, Pressure, TryAllocate
  <2>3. python[t] => gil = t
    BY <1>k, <2>2 DEF NeedsGil
  <2> QED
    BY <1>0, <2>1, <2>2, <2>3, GilStep, ZenonT(60) DEF Labels, Asking
<1>7. ASSUME NEW t \in Threads, EnsureGil(t) \/ Resume(t) PROVE GilInv'
  <2>1. PICK l \in {"collect", "gc"} : Goto(t, l)
    BY <1>7, Zenon DEF EnsureGil, Resume
  <2>2. gil \in {t, None} /\ gil' = t /\ UNCHANGED python
    BY <1>7, Zenon DEF EnsureGil, Resume
  <2> QED
    BY <1>0, <2>1, <2>2, GilStep, Zenon DEF Labels, Asking
<1>8. ASSUME NEW t \in Threads, Collect(t) \/ CollectOne(t) \/ CollectFree(t) \/ CollectDone(t)
      PROVE  GilInv'
  <2>1. PICK l \in {"gc", "gcFree", "releaseGil"} : Goto(t, l)
    BY <1>8, Zenon DEF Collect, CollectOne, CollectFree, CollectDone
  <2>2. gil' = gil /\ gil = t /\ UNCHANGED python
    BY <1>8, <1>k, Zenon DEF Collect, CollectOne, CollectFree, CollectDone, NeedsGil
  <2> QED
    BY <1>0, <2>1, <2>2, GilStep, Zenon DEF Labels, Asking
<1>9. ASSUME NEW t \in Threads, ReleaseGil(t) PROVE GilInv'
  <2>1. Goto(t, "relock") /\ gil = t /\ UNCHANGED python
    BY <1>9, <1>k, Zenon DEF ReleaseGil, NeedsGil
  <2>2. gil' \in {t, None} /\ (python[t] => gil' = t)
    BY <1>9, Zenon DEF ReleaseGil
  <2> QED
    BY <1>0, <2>1, <2>2, GilStep, ZenonT(60) DEF Labels, Asking
<1>10. ASSUME NEW t \in Threads, RecordAlloc(t) \/ Free(t) PROVE GilInv'
  <2>1. Goto(t, "idle") /\ gil' = gil /\ UNCHANGED python
    BY <1>10, Zenon DEF RecordAlloc, Free
  <2> QED
    BY <1>0, <2>1, GilStep, Zenon DEF Labels, Asking
<1> QED
  BY <1>1, <1>2, <1>3, <1>4, <1>5, <1>6, <1>7, <1>8, <1>9, <1>10, ZenonT(60) DEF Next, Continue

\* A call made with the GIL has it whenever its own code runs, also when the
\* memory-pressure callback takes and gives back the GIL in between.
THEOREM CallersKeepGil == Spec => []GilKept
<1>1. GilInv => GilKept
  BY Zenon DEF GilInv
<1> QED
  BY <1>1, GilInit, GilNext, PTL DEF Spec

-----------------------------------------------------------------------------
(* DeviceAllocator: the statistics *)

ObjStates == {"new", "asked", "held", "live", "garbage", "releasing", "dead"}
Begun == {o \in Objs : state[o] # "new"}

DevType ==
  /\ pc \in [Threads -> Labels] /\ state \in [Objs -> ObjStates]
  /\ obj \in [Threads -> Objs \cup {None}] /\ victim \in [Threads -> Objs \cup {None}]
  /\ IsFiniteSet(Begun)

\* The object of a call, and the tensor its collection deletes, are in the
\* state the next step relies on.
CallOk(t) ==
  /\ pc[t] \in Asking => obj[t] \in Objs /\ state[obj[t]] = "asked"
  /\ pc[t] = "record" => obj[t] \in Objs /\ state[obj[t]] = "held"
  /\ pc[t] = "free" => obj[t] \in Objs /\ state[obj[t]] = "releasing"
  /\ pc[t] = "gcFree" => victim[t] \in Objs /\ state[victim[t]] = "releasing"

\* No two calls deal with one object.
DealsWith(t, o) == \/ pc[t] # "idle" /\ obj[t] = o
                   \/ pc[t] = "gcFree" /\ victim[t] = o
CallsOwn ==
  /\ \A t \in Threads : CallOk(t)
  /\ \A t, u \in Threads : t # u => \A o \in Objs : ~(DealsWith(t, o) /\ DealsWith(u, o))

\* The statistics count the tensors that are there.
Present == Tensors \cap In({"live", "garbage"})
StatsInv == DevType /\ CallsOwn /\ stats = SizeOf(Present)

\* Calls deal with objects that are asked for, held or being released.
LEMMA DealtWith ==
  ASSUME StatsInv, NEW t \in Threads, NEW o \in Objs, DealsWith(t, o)
  PROVE  state[o] \in {"asked", "held", "releasing"}
<1>1. pc[t] \in Labels /\ CallOk(t)
  BY Zenon DEF StatsInv, DevType, CallsOwn
<1>2. pc[t] # "idle"
  BY Zenon DEF DealsWith
<1>3. pc[t] \in Asking \/ pc[t] = "record" \/ pc[t] = "free"
  BY <1>1, <1>2, Zenon DEF Labels
<1>4. CASE obj[t] = o
  BY <1>1, <1>3, <1>4, Zenon DEF CallOk
<1>5. CASE pc[t] = "gcFree" /\ victim[t] = o
  BY <1>1, <1>5, Zenon DEF CallOk
<1> QED
  BY <1>4, <1>5, Zenon DEF DealsWith

\* Thread t changes the objects O, which nobody else deals with.
LEMMA CallsStep ==
  ASSUME StatsInv, NEW t \in Threads, NEW O \in SUBSET Objs,
         \A x \in Objs \ O : state'[x] = state[x],
         \A u \in Threads \ {t} : /\ pc'[u] = pc[u] /\ obj'[u] = obj[u] /\ victim'[u] = victim[u]
                                  /\ \A x \in O : ~DealsWith(u, x),
         CallOk(t)',
         \A x \in Objs : DealsWith(t, x)' => DealsWith(t, x) \/ x \in O
  PROVE  CallsOwn'
<1>1. ASSUME NEW u \in Threads \ {t}, NEW x \in Objs PROVE DealsWith(u, x)' <=> DealsWith(u, x)
  BY Zenon DEF DealsWith
<1>2. ASSUME NEW u \in Threads \ {t} PROVE CallOk(u)'
  <2>1. CallOk(u) /\ pc[u] \in Labels
    BY Zenon DEF StatsInv, CallsOwn, DevType
  <2>2. pc'[u] = pc[u] /\ obj'[u] = obj[u] /\ victim'[u] = victim[u]
    BY Zenon
  <2>3. pc[u] # "idle" /\ obj[u] \in Objs => state'[obj[u]] = state[obj[u]]
    BY Zenon DEF DealsWith
  <2>4. pc[u] = "gcFree" /\ victim[u] \in Objs => state'[victim[u]] = state[victim[u]]
    BY Zenon DEF DealsWith
  <2>5. pc[u] \in Asking => pc[u] # "idle"
    BY Zenon DEF Asking
  <2> QED
    BY <2>1, <2>2, <2>3, <2>4, <2>5, Zenon DEF CallOk
<1>3. \A u \in Threads : CallOk(u)'
  BY <1>2, Zenon
<1>4. ASSUME NEW u \in Threads \ {t}, NEW x \in Objs PROVE ~(DealsWith(t, x)' /\ DealsWith(u, x)')
  <2>1. ~(DealsWith(t, x) /\ DealsWith(u, x))
    BY Zenon DEF StatsInv, CallsOwn
  <2> QED
    BY <1>1, <2>1, Zenon
<1>5. ASSUME NEW u \in Threads \ {t}, NEW v \in Threads \ {t}, u # v, NEW x \in Objs
      PROVE  ~(DealsWith(u, x)' /\ DealsWith(v, x)')
  <2>1. ~(DealsWith(u, x) /\ DealsWith(v, x))
    BY <1>5, Zenon DEF StatsInv, CallsOwn
  <2> QED
    BY <1>1, <2>1, Zenon
<1>6. ASSUME NEW u \in Threads, NEW v \in Threads, u # v, NEW x \in Objs
      PROVE  ~(DealsWith(u, x)' /\ DealsWith(v, x)')
  BY <1>4, <1>5, <1>6, Zenon
<1> QED
  BY <1>3, <1>6, Zenon DEF CallsOwn

LEMMA PresentFinite ==
  ASSUME DevType
  PROVE  /\ IsFiniteSet(Present) /\ Present \in SUBSET Objs
         /\ IsFiniteSet(Tensors \cap In({"held", "live", "garbage", "releasing"}))
<1>1. Present \subseteq Begun /\ Tensors \cap In({"held", "live", "garbage", "releasing"}) \subseteq Begun
  BY Zenon DEF Present, In, Begun
<1>2. Present \in SUBSET Objs
  BY Zenon DEF Present, In
<1> QED
  BY <1>1, <1>2, FS_Subset, Zenon DEF DevType

\* One object changes its state: what that adds to the tensors that are there,
\* or takes from them.
LEMMA MarkCounts ==
  ASSUME DevType, NEW o \in Objs, NEW s \in ObjStates, s # "new", Mark(o, s)
  PROVE  /\ state' \in [Objs -> ObjStates] /\ IsFiniteSet(Begun)'
         /\ state'[o] = s /\ \A x \in Objs : x # o => state'[x] = state[x]
         /\ ({state[o], s} \cap {"live", "garbage"} = {} \/ {state[o], s} \subseteq {"live", "garbage"})
              => SizeOf(Present)' = SizeOf(Present)
         /\ (state[o] \notin {"live", "garbage"} /\ s \in {"live", "garbage"})
              => SizeOf(Present)' = SizeOf(Present) + Counted(o)
         /\ (state[o] \in {"live", "garbage"} /\ s \notin {"live", "garbage"})
              => SizeOf(Present)' = SizeOf(Present) - Counted(o)
<1>1. /\ state' \in [Objs -> ObjStates]
      /\ state'[o] = s /\ \A x \in Objs : x # o => state'[x] = state[x]
  BY Zenon DEF DevType, Mark
<1>2. IsFiniteSet(Begun)'
  <2>1. Begun' = Begun \cup {o}
    BY <1>1, Zenon DEF Begun
  <2> QED
    BY <2>1, FS_AddElement, Zenon DEF DevType
<1>3. PICK A, B : A = Present /\ B = Present'
  BY Zenon
<1>4. SizeOf(Present) = SizeOf(A) /\ SizeOf(Present)' = SizeOf(B)
  BY <1>3, Zenon
<1>5. A \in SUBSET Objs /\ IsFiniteSet(A) /\ B \in SUBSET Objs /\ IsFiniteSet(B)
  <2>1. A \in SUBSET Objs /\ IsFiniteSet(A)
    BY <1>3, PresentFinite, Zenon
  <2>2. B \subseteq A \cup {o}
    BY <1>1, <1>3, Zenon DEF Present, In
  <2>3. IsFiniteSet(A \cup {o})
    BY <2>1, FS_AddElement, Zenon
  <2> QED
    BY <2>1, <2>2, <2>3, FS_Subset, Zenon
<1>6. \A x \in Objs : x # o => (x \in A <=> x \in B)
  BY <1>1, <1>3, Zenon DEF Present, In
<1>7. /\ o \in A <=> o \in Tensors /\ state[o] \in {"live", "garbage"}
      /\ o \in B <=> o \in Tensors /\ s \in {"live", "garbage"}
  BY <1>1, <1>3, ZenonT(60) DEF Present, In
<1>8. CASE o \in A <=> o \in B
  <2>1. A = B
    <3>1. ASSUME NEW x \in Objs PROVE x \in A <=> x \in B
      BY <1>6, <1>8
    <3> QED
      BY <1>5, <3>1
  <2>2. SizeOf(A) \in Nat
    BY <1>5, SizeOfType, Zenon
  <2>3. o \notin Tensors => Counted(o) = 0
    BY Zenon DEF Counted
  <2> QED
    BY <1>1, <1>2, <1>4, <1>7, <1>8, <2>1, <2>2, <2>3
<1>9. CASE o \in B /\ o \notin A
  <2>1. A = B \ {o}
    BY <1>5, <1>6, <1>9, Zenon
  <2>2. SizeOf(B) = Size[o] + SizeOf(A)
    BY <1>5, <1>9, <2>1, SizeOfWithout, ZenonT(60)
  <2>3. SizeOf(A) \in Nat /\ Counted(o) = Size[o] /\ Size[o] \in Nat
    BY <1>5, <1>7, <1>9, SizeOfType, SizeAssumption DEF Counted
  <2>4. SizeOf(B) = SizeOf(A) + Counted(o)
    BY <2>2, <2>3
  <2> QED
    BY <1>1, <1>2, <1>4, <1>7, <1>9, <2>4, ZenonT(60)
<1>10. CASE o \in A /\ o \notin B
  <2>1. B = A \ {o}
    BY <1>5, <1>6, <1>10, Zenon
  <2>2. SizeOf(A) = Size[o] + SizeOf(B)
    BY <1>5, <1>10, <2>1, SizeOfWithout, ZenonT(60)
  <2>3. SizeOf(B) \in Nat /\ Counted(o) = Size[o] /\ Size[o] \in Nat
    BY <1>5, <1>7, <1>10, SizeOfType, SizeAssumption DEF Counted
  <2>4. SizeOf(B) = SizeOf(A) - Counted(o)
    BY <2>2, <2>3
  <2> QED
    BY <1>1, <1>2, <1>4, <1>7, <1>10, <2>4, ZenonT(60)
<1> QED
  BY <1>8, <1>9, <1>10, Zenon

LEMMA StatsInit == Init => StatsInv
<1> SUFFICES ASSUME Init PROVE StatsInv
  BY Zenon
<1>1. Begun = {} /\ Present = {}
  BY Zenon DEF Init, Begun, Present, In
<1>2. DevType
  BY <1>1, FS_EmptySet, ZenonT(60) DEF Init, DevType, Labels, ObjStates
<1>3. CallsOwn
  BY DEF Init, CallsOwn, CallOk, DealsWith, Asking
<1>4. stats = SizeOf(Present)
  BY <1>1, SizeOfEmpty, Zenon DEF Init
<1> QED
  BY <1>2, <1>3, <1>4, Zenon DEF StatsInv

\* A step of the lock, of the callback or of the collector that touches no object.
LEMMA StatsMove ==
  ASSUME StatsInv, NEW t \in Threads, NEW l \in Asking, l # "gcFree", pc[t] \in Asking, Goto(t, l),
         UNCHANGED <<obj, victim, state, stats>>
  PROVE  StatsInv'
<1>1. pc' \in [Threads -> Labels] /\ pc'[t] = l /\ \A u \in Threads \ {t} : pc'[u] = pc[u]
  BY Zenon DEF StatsInv, DevType, Goto, Labels
<1>2. DevType' /\ stats' = SizeOf(Present)'
  BY <1>1, Zenon DEF StatsInv, DevType, Begun, Present, In
<1>3. CallOk(t)
  BY Zenon DEF StatsInv, CallsOwn
<1>4. obj[t] \in Objs /\ state[obj[t]] = "asked"
  BY <1>3, Zenon DEF CallOk
<1>5. l # "record" /\ l # "free" /\ pc[t] # "idle"
  BY Zenon DEF Asking
<1>6. CallOk(t)'
  BY <1>1, <1>4, <1>5, Zenon DEF CallOk
<1>7. \A x \in Objs : DealsWith(t, x)' => DealsWith(t, x)
  BY <1>1, <1>5, Zenon DEF DealsWith
<1>8. CallsOwn'
  <2>1. \A x \in Objs \ {} : state'[x] = state[x]
    BY Zenon
  <2>2. \A u \in Threads \ {t} : /\ pc'[u] = pc[u] /\ obj'[u] = obj[u] /\ victim'[u] = victim[u]
                                 /\ \A x \in {} : ~DealsWith(u, x)
    BY <1>1, Zenon
  <2>3. {} \in SUBSET Objs /\ \A x \in Objs : DealsWith(t, x)' => DealsWith(t, x) \/ x \in {}
    BY <1>7, Zenon
  <2> QED
    BY <1>6, <2>1, <2>2, <2>3, CallsStep, Zenon
<1> QED
  BY <1>2, <1>8, Zenon DEF StatsInv

\* A step that changes the state of one object, of which nobody else knows.
LEMMA StatsMark ==
  ASSUME StatsInv, NEW t \in Threads, NEW l \in Labels, Goto(t, l),
         NEW o \in Objs, NEW s \in ObjStates, s # "new", Mark(o, s),
         DealsWith(t, o) \/ state[o] \notin {"asked", "held", "releasing"},
         NEW p \in Objs \cup {None}, NEW v \in Objs \cup {None},
         obj' = [obj EXCEPT ![t] = p], victim' = [victim EXCEPT ![t] = v],
         CallOk(t)', \A x \in Objs : DealsWith(t, x)' => DealsWith(t, x) \/ x = o,
         stats' = SizeOf(Present)'
  PROVE  StatsInv'
<1>0. DevType
  BY Zenon DEF StatsInv
<1>1. /\ pc' \in [Threads -> Labels] /\ \A u \in Threads \ {t} : pc'[u] = pc[u]
      /\ obj' \in [Threads -> Objs \cup {None}] /\ \A u \in Threads \ {t} : obj'[u] = obj[u]
      /\ victim' \in [Threads -> Objs \cup {None}] /\ \A u \in Threads \ {t} : victim'[u] = victim[u]
  BY <1>0, Zenon DEF DevType, Goto
<1>2. /\ state' \in [Objs -> ObjStates] /\ IsFiniteSet(Begun)'
      /\ \A x \in Objs : x # o => state'[x] = state[x]
  BY <1>0, MarkCounts, Zenon
<1>3. DevType'
  BY <1>1, <1>2, Zenon DEF DevType
<1>4. \A u \in Threads \ {t} : ~DealsWith(u, o)
  <2> SUFFICES ASSUME NEW u \in Threads \ {t}, DealsWith(u, o) PROVE FALSE
    BY Zenon
  <2>1. state[o] \in {"asked", "held", "releasing"}
    BY DealtWith, Zenon
  <2>2. ~(DealsWith(t, o) /\ DealsWith(u, o))
    BY Zenon DEF StatsInv, CallsOwn
  <2> QED
    BY <2>1, <2>2, Zenon
<1>5. CallsOwn'
  <2>1. {o} \in SUBSET Objs /\ \A x \in Objs \ {o} : state'[x] = state[x]
    BY <1>2, Zenon
  <2>2. \A u \in Threads \ {t} : /\ pc'[u] = pc[u] /\ obj'[u] = obj[u] /\ victim'[u] = victim[u]
                                 /\ \A x \in {o} : ~DealsWith(u, x)
    BY <1>1, <1>4, ZenonT(60)
  <2>3. \A x \in Objs : DealsWith(t, x)' => DealsWith(t, x) \/ x \in {o}
    BY Zenon
  <2> QED
    BY <2>1, <2>2, <2>3, CallsStep, Zenon
<1> QED
  BY <1>3, <1>5, Zenon DEF StatsInv

LEMMA StatsThread ==
  ASSUME StatsInv, NEW t \in Threads
  PROVE  /\ CallOk(t) /\ obj[t] \in Objs \cup {None} /\ victim[t] \in Objs \cup {None}
         /\ obj = [obj EXCEPT ![t] = obj[t]] /\ victim = [victim EXCEPT ![t] = victim[t]]
         /\ \A l \in Labels : Goto(t, l) => pc'[t] = l
         /\ \A p \in Objs \cup {None} :
              /\ obj' = [obj EXCEPT ![t] = p] => obj'[t] = p
              /\ victim' = [victim EXCEPT ![t] = p] => victim'[t] = p
  BY ZenonT(60) DEF StatsInv, DevType, CallsOwn, Goto

LEMMA CallStats ==
  ASSUME StatsInv, NEW t \in Threads, NEW o \in Objs, Call(t, o)
  PROVE  StatsInv'
<1>1. /\ Goto(t, "lock") /\ Mark(o, "asked") /\ state[o] = "new"
      /\ obj' = [obj EXCEPT ![t] = o] /\ UNCHANGED <<victim, stats>>
  BY Zenon DEF Call
<1>2. "lock" \in Asking /\ "lock" \in Labels /\ "asked" \in ObjStates
  BY DEF Asking, Labels, ObjStates
<1>3. pc'[t] = "lock" /\ obj'[t] = o
  BY <1>1, <1>2, StatsThread, Zenon
<1>4. state'[o] = "asked" /\ stats' = SizeOf(Present)'
  BY <1>1, <1>2, MarkCounts, ZenonT(60) DEF StatsInv
<1>5. CallOk(t)' /\ \A x \in Objs : DealsWith(t, x)' => DealsWith(t, x) \/ x = o
  BY <1>3, <1>4 DEF CallOk, DealsWith
<1>9. /\ o \in Objs \cup {None} /\ obj' = [obj EXCEPT ![t] = o]
      /\ victim[t] \in Objs \cup {None} /\ victim' = [victim EXCEPT ![t] = victim[t]]
  BY <1>1, StatsThread, Zenon
<1> QED
  BY <1>1, <1>2, <1>4, <1>5, <1>9, StatsMark, ZenonT(60)

LEMMA TryAllocateStats ==
  ASSUME StatsInv, NEW t \in Threads, TryAllocate(t)
  PROVE  StatsInv'
<1>1. PICK o \in Objs : o = obj[t] /\ state[o] = "asked" /\ pc[t] # "idle"
  <2>1. pc[t] \in Asking /\ pc[t] # "idle"
    BY ZenonT(60) DEF TryAllocate, Asking
  <2> QED
    BY <2>1, StatsThread, ZenonT(60) DEF CallOk
<1>2. PICK s \in {"held", "dead"}, l \in {"record", "idle"} :
        Mark(o, s) /\ Goto(t, l) /\ (l = "record" => s = "held")
  BY <1>1, Zenon DEF TryAllocate
<1>3. UNCHANGED <<obj, victim, stats>>
  BY Zenon DEF TryAllocate
<1>4. l \notin Asking /\ l \in Labels /\ s \in ObjStates /\ s # "new"
  BY DEF Asking, Labels, ObjStates
<1>5. pc'[t] = l
  BY <1>2, <1>4, StatsThread, Zenon
<1>6. state'[o] = s /\ stats' = SizeOf(Present)'
  <2>1. {state[o], s} \cap {"live", "garbage"} = {} /\ s # "new"
    BY <1>1, <1>4
  <2>2. stats' = stats /\ DevType /\ stats = SizeOf(Present)
    BY <1>3, ZenonT(60) DEF StatsInv
  <2> QED
    BY <1>2, <1>4, <2>1, <2>2, MarkCounts, ZenonT(60)
<1>7. CallOk(t)' /\ \A x \in Objs : DealsWith(t, x)' => DealsWith(t, x) \/ x = o
  BY <1>1, <1>2, <1>3, <1>4, <1>5, <1>6 DEF CallOk, DealsWith
<1>8. DealsWith(t, o)
  BY <1>1, Zenon DEF DealsWith
<1>9. /\ obj[t] \in Objs \cup {None} /\ obj' = [obj EXCEPT ![t] = obj[t]]
      /\ victim[t] \in Objs \cup {None} /\ victim' = [victim EXCEPT ![t] = victim[t]]
  BY <1>3, StatsThread, Zenon
<1> QED
  BY <1>2, <1>3, <1>4, <1>6, <1>7, <1>8, <1>9, StatsMark, ZenonT(60)

LEMMA RecordAllocStats ==
  ASSUME StatsInv, NEW t \in Threads, RecordAlloc(t)
  PROVE  StatsInv'
<1>1. PICK o \in Objs : o = obj[t] /\ state[o] = "held" /\ pc[t] = "record"
  BY StatsThread, Zenon DEF RecordAlloc, CallOk
<1>2. /\ Goto(t, "idle") /\ Mark(o, "live") /\ stats' = stats + Counted(o)
      /\ UNCHANGED <<obj, victim>>
  BY <1>1, Zenon DEF RecordAlloc
<1>3. "idle" \notin Asking /\ "idle" \in Labels /\ "live" \in ObjStates
  BY DEF Asking, Labels, ObjStates
<1>4. pc'[t] = "idle"
  BY <1>2, <1>3, StatsThread, Zenon
<1>5. stats' = SizeOf(Present)'
  BY <1>1, <1>2, <1>3, MarkCounts, ZenonT(60) DEF StatsInv
<1>6. CallOk(t)' /\ \A x \in Objs : DealsWith(t, x)' => DealsWith(t, x) \/ x = o
  BY <1>3, <1>4, ZenonT(60) DEF CallOk, DealsWith
<1>7. DealsWith(t, o)
  BY <1>1 DEF DealsWith
<1>9. /\ obj[t] \in Objs \cup {None} /\ obj' = [obj EXCEPT ![t] = obj[t]]
      /\ victim[t] \in Objs \cup {None} /\ victim' = [victim EXCEPT ![t] = victim[t]]
  BY <1>2, StatsThread, Zenon
<1> QED
  BY <1>2, <1>3, <1>5, <1>6, <1>7, <1>9, StatsMark, ZenonT(60)

LEMMA ReportStats ==
  ASSUME StatsInv, NEW t \in Threads, NEW o \in Objs, ReportAndDelete(t, o)
  PROVE  StatsInv'
<1>1. /\ Goto(t, "free") /\ Mark(o, "releasing") /\ state[o] = "live"
      /\ stats' = stats - Counted(o) /\ obj' = [obj EXCEPT ![t] = o] /\ UNCHANGED victim
  BY Zenon DEF ReportAndDelete
<1>2. "free" \notin Asking /\ "free" \in Labels /\ "releasing" \in ObjStates
  BY DEF Asking, Labels, ObjStates
<1>3. pc'[t] = "free" /\ obj'[t] = o
  BY <1>1, <1>2, StatsThread, Zenon
<1>4. state'[o] = "releasing" /\ stats' = SizeOf(Present)'
  BY <1>1, <1>2, MarkCounts, ZenonT(60) DEF StatsInv
<1>5. CallOk(t)' /\ \A x \in Objs : DealsWith(t, x)' => DealsWith(t, x) \/ x = o
  BY <1>2, <1>3, <1>4 DEF CallOk, DealsWith
<1>9. /\ o \in Objs \cup {None} /\ obj' = [obj EXCEPT ![t] = o]
      /\ victim[t] \in Objs \cup {None} /\ victim' = [victim EXCEPT ![t] = victim[t]]
  BY <1>1, StatsThread, Zenon
<1> QED
  BY <1>1, <1>2, <1>4, <1>5, <1>9, StatsMark, ZenonT(60)

LEMMA FreeStats ==
  ASSUME StatsInv, NEW t \in Threads, Free(t)
  PROVE  StatsInv'
<1>1. PICK o \in Objs : o = obj[t] /\ state[o] = "releasing" /\ pc[t] = "free"
  BY StatsThread, Zenon DEF Free, CallOk
<1>2. Goto(t, "idle") /\ Mark(o, "dead") /\ UNCHANGED <<obj, victim, stats>>
  BY <1>1, Zenon DEF Free
<1>3. "idle" \notin Asking /\ "idle" \in Labels /\ "dead" \in ObjStates
  BY DEF Asking, Labels, ObjStates
<1>4. pc'[t] = "idle"
  BY <1>2, <1>3, StatsThread, Zenon
<1>5. stats' = SizeOf(Present)'
  <2>1. {state[o], "dead"} \cap {"live", "garbage"} = {} /\ "dead" # "new"
    BY <1>1
  <2>2. stats' = stats /\ DevType /\ stats = SizeOf(Present)
    BY <1>2, ZenonT(60) DEF StatsInv
  <2> QED
    BY <1>2, <1>3, <2>1, <2>2, MarkCounts, ZenonT(60)
<1>6. CallOk(t)' /\ \A x \in Objs : DealsWith(t, x)' => DealsWith(t, x) \/ x = o
  BY <1>3, <1>4, ZenonT(60) DEF CallOk, DealsWith
<1>7. DealsWith(t, o)
  BY <1>1 DEF DealsWith
<1>9. /\ obj[t] \in Objs \cup {None} /\ obj' = [obj EXCEPT ![t] = obj[t]]
      /\ victim[t] \in Objs \cup {None} /\ victim' = [victim EXCEPT ![t] = victim[t]]
  BY <1>2, StatsThread, Zenon
<1> QED
  BY <1>2, <1>3, <1>5, <1>6, <1>7, <1>9, StatsMark, ZenonT(60)

LEMMA CollectOneStats ==
  ASSUME StatsInv, NEW t \in Threads, CollectOne(t)
  PROVE  StatsInv'
<1>1. PICK o \in In({"garbage"}) : /\ victim' = [victim EXCEPT ![t] = o]
                                   /\ stats' = stats - Counted(o) /\ Mark(o, "releasing")
  BY Zenon DEF CollectOne
<1>2. o \in Objs /\ state[o] = "garbage" /\ Goto(t, "gcFree") /\ pc[t] = "gc" /\ UNCHANGED obj
  BY <1>1, Zenon DEF CollectOne, In
<1>3. /\ "gc" \in Asking /\ "gcFree" \in Asking /\ "gcFree" \in Labels /\ "releasing" \in ObjStates
  BY DEF Asking, Labels, ObjStates
<1>4. obj[t] \in Objs /\ state[obj[t]] = "asked"
  <2>1. CallOk(t) /\ pc[t] \in Asking
    BY <1>2, <1>3, StatsThread
  <2> QED
    BY <2>1, Zenon DEF CallOk
<1>5. pc'[t] = "gcFree" /\ victim'[t] = o
  BY <1>1, <1>2, <1>3, StatsThread, Zenon
<1>6. /\ state'[o] = "releasing" /\ stats' = SizeOf(Present)'
      /\ \A x \in Objs : x # o => state'[x] = state[x]
  BY <1>1, <1>2, <1>3, MarkCounts, ZenonT(60) DEF StatsInv
<1>7. CallOk(t)' /\ \A x \in Objs : DealsWith(t, x)' => DealsWith(t, x) \/ x = o
  <2>1. state'[obj[t]] = "asked"
    BY <1>2, <1>4, <1>6
  <2> QED
    BY <1>2, <1>4, <1>5, <1>6, <2>1, ZenonT(60) DEF CallOk, DealsWith
<1>9. /\ obj[t] \in Objs \cup {None} /\ obj' = [obj EXCEPT ![t] = obj[t]]
      /\ o \in Objs \cup {None} /\ victim' = [victim EXCEPT ![t] = o]
  BY <1>1, <1>2, StatsThread, Zenon
<1> QED
  BY <1>1, <1>2, <1>3, <1>6, <1>7, <1>9, StatsMark, ZenonT(60)

LEMMA CollectFreeStats ==
  ASSUME StatsInv, NEW t \in Threads, CollectFree(t)
  PROVE  StatsInv'
<1>1. PICK o \in Objs : o = victim[t] /\ state[o] = "releasing" /\ pc[t] = "gcFree"
  BY StatsThread, ZenonT(60) DEF CollectFree, CallOk
<1>2. Goto(t, "gc") /\ Mark(o, "dead") /\ UNCHANGED <<obj, victim, stats>>
  BY <1>1, Zenon DEF CollectFree
<1>3. "gcFree" \in Asking /\ "gc" \in Labels /\ "dead" \in ObjStates
  BY DEF Asking, Labels, ObjStates
<1>4. obj[t] \in Objs /\ state[obj[t]] = "asked"
  <2>1. CallOk(t) /\ pc[t] \in Asking
    BY <1>1, <1>3, StatsThread
  <2> QED
    BY <2>1, Zenon DEF CallOk
<1>5. pc'[t] = "gc"
  BY <1>2, <1>3, StatsThread, Zenon
<1>6. stats' = SizeOf(Present)' /\ \A x \in Objs : x # o => state'[x] = state[x]
  <2>1. {state[o], "dead"} \cap {"live", "garbage"} = {} /\ "dead" # "new"
    BY <1>1
  <2>2. stats' = stats /\ DevType /\ stats = SizeOf(Present)
    BY <1>2, ZenonT(60) DEF StatsInv
  <2> QED
    BY <1>2, <1>3, <2>1, <2>2, MarkCounts, ZenonT(60)
<1>7. CallOk(t)' /\ \A x \in Objs : DealsWith(t, x)' => DealsWith(t, x) \/ x = o
  <2>1. state'[obj[t]] = "asked"
    BY <1>1, <1>4, <1>6, ZenonT(60)
  <2> QED
    BY <1>1, <1>2, <1>4, <1>5, <2>1, ZenonT(60) DEF CallOk, DealsWith
<1>8. DealsWith(t, o)
  BY <1>1, Zenon DEF DealsWith
<1>9. /\ obj[t] \in Objs \cup {None} /\ obj' = [obj EXCEPT ![t] = obj[t]]
      /\ victim[t] \in Objs \cup {None} /\ victim' = [victim EXCEPT ![t] = victim[t]]
  BY <1>2, StatsThread, Zenon
<1> QED
  BY <1>2, <1>3, <1>6, <1>7, <1>8, <1>9, StatsMark, ZenonT(60)

LEMMA StatsNext == StatsInv /\ [Next]_vars => StatsInv'
<1> SUFFICES ASSUME StatsInv, [Next]_vars PROVE StatsInv'
  BY Zenon
<1>1. ASSUME UNCHANGED <<pc, obj, victim, state, stats>> PROVE StatsInv'
  <2>1. DevType'
    BY <1>1, Zenon DEF StatsInv, DevType, Begun
  <2>2. CallsOwn'
    <3>1. \A t \in Threads : CallOk(t)' <=> CallOk(t)
      BY <1>1, Zenon DEF CallOk
    <3>2. \A t \in Threads, o \in Objs : DealsWith(t, o)' <=> DealsWith(t, o)
      BY <1>1, Zenon DEF DealsWith
    <3> QED
      BY <3>1, <3>2, Zenon DEF StatsInv, CallsOwn
  <2>3. SizeOf(Present)' = SizeOf(Present)
    BY <1>1, Zenon DEF Present, In
  <2> QED
    BY <1>1, <2>1, <2>2, <2>3, Zenon DEF StatsInv
<1>2. ASSUME NEW t \in Threads, TakeGil(t) \/ DropGil(t) PROVE StatsInv'
  BY <1>1, <1>2, Zenon DEF TakeGil, DropGil
<1>3. ASSUME NEW o \in Objs, BecomeGarbage(o) PROVE StatsInv'
  <2>1. state[o] = "live" /\ Mark(o, "garbage") /\ UNCHANGED <<pc, obj, victim, stats>>
    BY <1>3, Zenon DEF BecomeGarbage
  <2>2. "garbage" \in ObjStates
    BY DEF ObjStates
  <2>3. /\ state' \in [Objs -> ObjStates] /\ IsFiniteSet(Begun)'
        /\ \A x \in Objs : x # o => state'[x] = state[x]
    BY <2>1, <2>2, MarkCounts, Zenon DEF StatsInv
  <2>4. DevType' /\ stats' = SizeOf(Present)'
    <3>1. SizeOf(Present)' = SizeOf(Present)
      BY <2>1, <2>2, MarkCounts, ZenonT(60) DEF StatsInv
    <3> QED
      BY <2>1, <2>3, <3>1, Zenon DEF StatsInv, DevType
  <2>5. ASSUME NEW t \in Threads PROVE CallOk(t)'
    <3>1. CallOk(t) /\ \A x \in Objs : state[x] # "live" => state'[x] = state[x]
      BY <2>1, <2>3, Zenon DEF StatsInv, CallsOwn
    <3> QED
      BY <2>1, <3>1, ZenonT(60) DEF CallOk
  <2>6. CallsOwn'
    BY <2>1, <2>5, Zenon DEF StatsInv, CallsOwn, DealsWith
  <2> QED
    BY <2>4, <2>6, Zenon DEF StatsInv
<1>4. ASSUME NEW t \in Threads,
             \/ Lock(t) \/ Pressure(t) \/ EnsureGil(t) \/ Collect(t)
             \/ Yield(t) \/ Resume(t) \/ CollectDone(t) \/ ReleaseGil(t)
      PROVE  StatsInv'
  <2>1. PICK l \in {"try", "retry", "wantGil", "collect", "gc", "gcWait", "releaseGil", "relock"} :
          Goto(t, l)
    BY <1>4, ZenonT(60) DEF Lock, Pressure, EnsureGil, Collect, Yield, Resume, CollectDone, ReleaseGil
  <2>2. pc[t] \in Asking /\ UNCHANGED <<obj, victim, state, stats>>
    BY <1>4, ZenonT(60) DEF Lock, Pressure, EnsureGil, Collect, Yield, Resume, CollectDone, ReleaseGil,
       Asking
  <2>3. l \in Asking /\ l # "gcFree"
    BY DEF Asking
  <2> QED
    BY <2>1, <2>2, <2>3, StatsMove, Zenon
<1> QED
  BY <1>1, <1>2, <1>3, <1>4, CallStats, TryAllocateStats, RecordAllocStats, ReportStats, FreeStats,
     CollectOneStats, CollectFreeStats, ZenonT(60) DEF Next, Continue, vars

\* The statistics never count memory that is not there, although they are
\* updated outside flex's mutex, and count all of it when no call is in
\* progress: for any objects, sizes and threads.
THEOREM StatisticsBounded == Spec => []StatsBounded
<1>1. StatsInv => StatsBounded
  <2> SUFFICES ASSUME StatsInv PROVE StatsBounded
    BY Zenon
  <2>1. PICK A, B : A = Present /\ B = Tensors \cap In({"held", "live", "garbage", "releasing"})
    BY Zenon
  <2>2. B \in SUBSET Objs /\ IsFiniteSet(B) /\ A \in SUBSET B
    <3>1. A \in SUBSET B /\ B \in SUBSET Objs
      BY <2>1, Zenon DEF Present, In
    <3> QED
      BY <2>1, <3>1, PresentFinite, Zenon DEF StatsInv
  <2>3. SizeOf(A) <= SizeOf(B)
    BY <2>2, SizeOfSubset, Zenon
  <2>4. SizeOf(A) \in Nat
    BY <2>1, PresentFinite, SizeOfType, ZenonT(60) DEF StatsInv
  <2>5. stats = SizeOf(A) /\ stats >= 0
    BY <2>1, <2>4 DEF StatsInv
  <2> QED
    BY <2>1, <2>3, <2>5, Zenon DEF StatsBounded, Present
<1> QED
  BY <1>1, StatsInit, StatsNext, PTL DEF Spec
================================================================================
