----------------------------- MODULE GhaBackfill -----------------------------
(***************************************************************************)
(* The backfill of past GitHub Actions runs                                *)
(* (spyre_clickhouse_ingest/gha_backfill.py): worker threads that take     *)
(* slices of creation time, newest first, fill each one, and a final       *)
(* report of how far down the history is complete.  The forward poll may   *)
(* write the same rows meanwhile.                                          *)
(***************************************************************************)
EXTENDS Naturals, FiniteSets

CONSTANTS
  SliceRuns,  \* the run attempts of each slice, slices numbered newest first
  Fillers     \* the worker threads

ASSUME SlicesAssumption ==
  /\ Cardinality(DOMAIN SliceRuns) \in Nat
  /\ DOMAIN SliceRuns = 1 .. Cardinality(DOMAIN SliceRuns)

VARIABLES
  github,     \* is the attempt finished?
  rows,       \* its row in pipeline_runs: "absent", "going" or "finished"
  nxt,        \* the next slice to take
  halt,       \* a worker met its stop
  ran,        \* slices filled: [slice -> done or not]
  filler,     \* each worker: what it does, its slice and what it holds
  edge        \* the slices reported complete, 0 before the report

backfillVars == <<github, rows, nxt, halt, ran, filler, edge>>

Slices == DOMAIN SliceRuns
Attempts == UNION {SliceRuns[i] : i \in Slices}
Idle == [at |-> "idle", slice |-> 0, known |-> {}, left |-> {}, held |-> {},
         clean |-> TRUE, stopped |-> FALSE]

BackfillInit ==
  /\ github \in [Attempts -> BOOLEAN]
  /\ rows = [a \in Attempts |-> "absent"]
  /\ nxt = 1
  /\ halt = FALSE
  /\ ran = [i \in {} |-> FALSE]
  /\ filler = [w \in Fillers |-> Idle]
  /\ edge = 0

(* pipeline_runs replaces a row by the one with the later updated_at. *)
Replaces(new, old) == new = "finished" \/ old = "absent"
RowState(finished) == IF finished THEN "finished" ELSE "going"
Upsert(held) ==
  [a \in Attempts |->
     IF \E h \in held : h.attempt = a /\ Replaces(h.state, rows[a])
       THEN (CHOOSE h \in held : h.attempt = a).state
       ELSE rows[a]]

-----------------------------------------------------------------------------
(* An attempt that was running finishes. *)
Finish(a) ==
  /\ ~github[a]
  /\ github' = [github EXCEPT ![a] = TRUE]
  /\ UNCHANGED <<rows, nxt, halt, ran, filler, edge>>

(* The forward poll writes a row, perhaps one it fetched a while ago. *)
PollWrites(a, finished) ==
  /\ finished => github[a]
  /\ rows' = Upsert({[attempt |-> a, state |-> RowState(finished)]})
  /\ UNCHANGED <<github, nxt, halt, ran, filler, edge>>

(* worker: unless halted, takes the next slice, or ends. *)
TakeSlice(w) ==
  /\ filler[w].at = "idle"
  /\ IF halt \/ nxt > Cardinality(Slices)
       THEN /\ filler' = [filler EXCEPT ![w].at = "ended"]
            /\ UNCHANGED nxt
       ELSE /\ filler' = [filler EXCEPT ![w] =
                 [Idle EXCEPT !.at = "filling", !.slice = nxt,
                              !.known = {a \in Attempts : rows[a] = "finished"},
                              !.left = SliceRuns[nxt]]]
            /\ nxt' = nxt + 1
  /\ UNCHANGED <<github, rows, halt, ran, edge>>

(* Mutant: an attempt that was given up does not open the slice. *)
StaysClean_Skipped(current, served, finished) == current \/ ~served \/ finished

(* What of one attempt leaves its slice complete. *)
StaysClean(current, served, finished) == current \/ (served /\ finished)

(* fill, for one attempt: stored and current, fetched, or given up. *)
FillOne(w) ==
  /\ filler[w].at = "filling"
  /\ \E a \in filler[w].left, served \in BOOLEAN :
       LET current == a \in filler[w].known
       IN  filler' = [filler EXCEPT
             ![w].left = @ \ {a},
             ![w].held = IF current \/ ~served THEN @
                         ELSE @ \cup {[attempt |-> a, state |-> RowState(github[a])]},
             ![w].clean = @ /\ StaysClean(current, served, github[a])]
  /\ UNCHANGED <<github, rows, nxt, halt, ran, edge>>

(* The budget, the deadline or the token is used up: the slice stays open. *)
StopFill(w) ==
  /\ filler[w].at = "filling"
  /\ filler' = [filler EXCEPT ![w].left = {}, ![w].clean = FALSE, ![w].stopped = TRUE]
  /\ UNCHANGED <<github, rows, nxt, halt, ran, edge>>

(* fill writes what it holds and returns; *)
WriteSlice(w) ==
  /\ filler[w].at = "filling"
  /\ filler[w].left = {}
  /\ rows' = Upsert(filler[w].held)
  /\ filler' = [filler EXCEPT ![w].at = "filled"]
  /\ UNCHANGED <<github, nxt, halt, ran, edge>>

(* the worker records the slice and halts the others after a stop. *)
RecordSlice(w) ==
  /\ filler[w].at = "filled"
  /\ ran' = [i \in DOMAIN ran \cup {filler[w].slice} |->
               IF i = filler[w].slice THEN filler[w].clean ELSE ran[i]]
  /\ halt' = (halt \/ filler[w].stopped)
  /\ filler' = [filler EXCEPT ![w] = Idle]
  /\ UNCHANGED <<github, rows, nxt, edge>>

(* A listing that stays unavailable, or a failed insert, ends the thread   *)
(* with its slice unrecorded; the other threads go on.                     *)
ThreadDies(w) ==
  /\ filler[w].at = "filling"
  /\ filler' = [filler EXCEPT ![w] = [Idle EXCEPT !.at = "ended"]]
  /\ UNCHANGED <<github, rows, nxt, halt, ran, edge>>

(* complete_down_to: k slices are the newest-first run of complete ones. *)
CompleteDownTo(k) ==
  /\ \A i \in 1 .. k : i \in DOMAIN ran /\ ran[i]
  /\ k + 1 \in DOMAIN ran => ~ran[k + 1]

(* Every thread has been joined: the report names the edge. *)
Report ==
  /\ edge = 0
  /\ \A w \in Fillers : filler[w].at = "ended"
  /\ \E k \in Slices : CompleteDownTo(k) /\ edge' = k
  /\ UNCHANGED <<github, rows, nxt, halt, ran, filler>>

BackfillNext ==
  \/ \E a \in Attempts : Finish(a) \/ \E f \in BOOLEAN : PollWrites(a, f)
  \/ \E w \in Fillers :
       \/ TakeSlice(w) \/ FillOne(w) \/ StopFill(w)
       \/ WriteSlice(w) \/ RecordSlice(w) \/ ThreadDies(w)
  \/ Report

BackfillSpec == BackfillInit /\ [][BackfillNext]_backfillVars

-----------------------------------------------------------------------------
(* gha_backfill.py, "the lower edge of the contiguous complete prefix      *)
(* (`complete down to`); pass it as --from to skip the part already        *)
(* verified": whatever the threads skipped, lost or left to a stop, and    *)
(* whatever the poll wrote in between, every attempt above the reported    *)
(* edge is stored as finished.                                             *)
EdgeComplete ==
  \A i \in 1 .. edge : \A a \in SliceRuns[i] : rows[a] = "finished"

=============================================================================
