------------------------------- MODULE GhaPoll -------------------------------
(***************************************************************************)
(* The forward poller of GitHub Actions runs                               *)
(* (spyre_clickhouse_ingest/gha_runs.py): one repository, polls that stop, *)
(* skip and die at any point, fetches by a pool of workers that finish out *)
(* of order.  A run is named by its creation time.  Later attempts and the *)
(* jobs of a run are left out: the watermark reads first attempts only.    *)
(***************************************************************************)
EXTENDS Integers, FiniteSets, Sequences, FiniteSetsExt

CONSTANTS
  MaxTime,    \* bound: the last moment of the model
  Base,       \* --hours
  Overlap,    \* --overlap-hours
  MaxCatchup, \* --max-catchup-days
  Workers,    \* --workers
  FlushAt     \* rows held before they are written (500)

ASSUME PollAssumption ==
  /\ {MaxTime, Base, FlushAt} \subseteq Nat \ {0}
  /\ Workers \in Nat \ {0, 1}
  /\ {Overlap, MaxCatchup} \subseteq Nat

VARIABLES
  time,       \* now, in units of the creation times
  created,    \* the runs GitHub has
  table,      \* the runs pipeline_runs holds
  polling,    \* a poll is going on
  unsent,     \* listed runs not yet submitted to the pool, a set: they go oldest first
  inflight,   \* submitted fetches, in order: run and outcome
  batch,      \* rows fetched and not yet written
  warned,     \* history: runs a poll reported as skipped
  horizon     \* history: how far back the windows are promised to reach

pollVars ==
  <<time, created, table, polling, unsent, inflight, batch, warned, horizon>>

PollInit ==
  /\ time = 0
  /\ created = {}
  /\ table = {}
  /\ polling = FALSE
  /\ unsent = {}
  /\ inflight = <<>>
  /\ batch = {}
  /\ warned = {}
  /\ horizon = 0

(* Time passes between polls, and a run may be created at the new moment. *)
TimePasses ==
  /\ ~polling
  /\ time < MaxTime
  /\ time' = time + 1
  /\ \/ created' = created \cup {time'}
     \/ UNCHANGED created
  /\ UNCHANGED <<table, polling, unsent, inflight, batch, warned, horizon>>

(* window_start: the base window, extended back to the watermark. *)
WindowStart(now) ==
  IF table = {} THEN now - Base
  ELSE LET resume == Max({Max(table) - Overlap, now - MaxCatchup})
       IN  Min({resume, now - Base})

(* poll lists the window. *)
BeginPoll ==
  /\ ~polling
  /\ time > 0
  /\ unsent' = {r \in created : r >= WindowStart(time)}
  /\ LET limit == IF table = {} THEN time - Base ELSE time - Max({Base, MaxCatchup})
     IN  horizon' = IF table = {} \/ limit > Max(table) - Overlap
                      THEN Max({horizon, limit})
                      ELSE horizon
  /\ polling' = TRUE
  /\ UNCHANGED <<time, created, table, inflight, batch, warned>>

(* _in_order keeps up to 2 * Workers fetches submitted, the oldest runs first. *)
Submit ==
  /\ polling
  /\ unsent # {}
  /\ Len(inflight) < 2 * Workers
  /\ inflight' = Append(inflight, [run |-> Min(unsent), got |-> "busy"])
  /\ unsent' = unsent \ {Min(unsent)}
  /\ UNCHANGED <<time, created, table, polling, batch, warned, horizon>>

(* A worker's attempt_rows returns rows, finds the stored ones current,    *)
(* gives the run up, or must stop.  The pool runs the first Workers of the *)
(* unfinished fetches.                                                     *)
Fetch ==
  /\ \E i \in DOMAIN inflight, got \in {"rows", "current", "skip", "stop"} :
       /\ inflight[i].got = "busy"
       /\ Cardinality({k \in 1 .. i - 1 : inflight[k].got = "busy"}) < Workers
       /\ got = "current" => inflight[i].run \in table
       /\ inflight' = [inflight EXCEPT ![i].got = got]
       /\ warned' = IF got = "skip" THEN warned \cup {inflight[i].run} ELSE warned
  /\ UNCHANGED <<time, created, table, polling, unsent, batch, horizon>>

(* The submitted fetch whose result the loop takes next. *)
TakeFrom_AsCompleted(q) == {i \in DOMAIN q : q[i].got # "busy"}
TakeFrom(q) == {i \in DOMAIN q : i = 1 /\ q[i].got # "busy"}

Dropping(q, i) == SubSeq(q, 1, i - 1) \o SubSeq(q, i + 1, Len(q))

Ends ==
  /\ table' = table \cup batch
  /\ batch' = {}
  /\ polling' = FALSE
  /\ unsent' = {}
  /\ inflight' = <<>>

(* The loop takes one result: rows are held, and written when there are    *)
(* enough of them; a stop writes what is held and ends the poll.           *)
Consume ==
  /\ polling
  /\ unsent = {} \/ Len(inflight) = 2 * Workers
  /\ \E i \in TakeFrom(inflight) :
       LET held == IF inflight[i].got = "rows" THEN batch \cup {inflight[i].run}
                                              ELSE batch
       IN  IF inflight[i].got = "stop"
             THEN Ends
             ELSE /\ inflight' = Dropping(inflight, i)
                  /\ IF Cardinality(held) >= FlushAt
                       THEN table' = table \cup held /\ batch' = {}
                       ELSE batch' = held /\ UNCHANGED table
                  /\ UNCHANGED <<polling, unsent>>
  /\ UNCHANGED <<time, created, warned, horizon>>

(* The listing of the next part of the window must stop: what was submitted *)
(* and not taken is dropped.                                                *)
ListingStops ==
  /\ polling
  /\ unsent # {}
  /\ Len(inflight) < 2 * Workers
  /\ Ends
  /\ UNCHANGED <<time, created, warned, horizon>>

(* The window is exhausted: the last rows are written. *)
EndPoll ==
  /\ polling
  /\ unsent = {}
  /\ inflight = <<>>
  /\ Ends
  /\ UNCHANGED <<time, created, warned, horizon>>

(* Any other error, or a kill, ends the process with the held rows unwritten. *)
Abort ==
  /\ polling
  /\ polling' = FALSE
  /\ unsent' = {}
  /\ inflight' = <<>>
  /\ batch' = {}
  /\ UNCHANGED <<time, created, table, warned, horizon>>

PollNext ==
  \/ TimePasses \/ BeginPoll \/ Submit \/ Fetch \/ Consume
  \/ ListingStops \/ EndPoll \/ Abort

PollSpec == PollInit /\ [][PollNext]_pollVars

-----------------------------------------------------------------------------
(* gha_runs.py, "what is stored is always a prefix of the window ... a     *)
(* poll that stopped early, or an outage, is resumed from where it left    *)
(* off": since the next window starts at the newest stored run, an older   *)
(* run that is missing from the table would never be asked for again.      *)
(* There is none but those a poll warned of and those older than the first *)
(* poll's base window or, after an outage, than the catch-up limit.        *)
NoSilentGap ==
  \A r \in created :
    (table # {} /\ horizon <= r /\ r < Max(table)) => r \in table \cup warned

=============================================================================
