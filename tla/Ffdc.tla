-------------------------------- MODULE Ffdc --------------------------------
(***************************************************************************)
(* First-failure data capture (torch_spyre/profiler/_ffdc.py): several     *)
(* processes that share one report directory, the nested failure hooks     *)
(* through which an exception unwinds, and a reader that retrieves the     *)
(* newest report.                                                          *)
(*                                                                         *)
(* A report is the failure it describes, the hook that wrote it (1 is the  *)
(* innermost), the time stamp in its file name, its modification time,     *)
(* its extension and whether its bytes are all on disk.  Two writes never  *)
(* get the same time.                                                      *)
(***************************************************************************)
EXTENDS Naturals, FiniteSets, Sequences

CONSTANTS
  Procs,      \* the processes that share the directory
  MaxHooks,   \* bound: hooks an exception passes on its way out
  MaxFails,   \* bound: [Procs -> failures of that process]
  Keep,       \* _MAX_REPORTS
  NoReport    \* what get_diagnostic_report returns when it finds none

ASSUME KeepAssumption == Keep \in Nat \ {0}

Files ==
  [of : Procs \X Nat, hook : Nat, ts : Nat, mtime : Nat, ext : {"tmp", "json"},
   whole : BOOLEAN]

ASSUME NoReportAssumption == NoReport \notin Files

VARIABLES
  stage,      \* what each process is doing
  chain,      \* the unwinding exception and its causes: captured or not
  hooked,     \* hooks the exception has passed
  fails,      \* failures so far
  dir,        \* the files of the report directory
  draft,      \* the file a collect() is writing
  doomed,     \* the files a prune still has to unlink
  published,  \* history: every report whose collect() returned a path
  now,        \* the clock
  reader      \* one get_diagnostic_report call

ffdcVars ==
  <<stage, chain, hooked, fails, dir, draft, doomed, published, now, reader>>

FfdcInit ==
  /\ stage = [p \in Procs |-> "running"]
  /\ chain = [p \in Procs |-> <<>>]
  /\ hooked = [p \in Procs |-> 0]
  /\ fails = [p \in Procs |-> 0]
  /\ dir = {}
  /\ draft = [p \in Procs |-> NoReport]
  /\ doomed = [p \in Procs |-> {}]
  /\ published = {}
  /\ now = 0
  /\ reader = [at |-> "idle", listed |-> {}, rest |-> {}, found |-> NoReport]

(* The glob ffdc_*.json, which a .tmp name does not match. *)
Listed(files) == {f \in files : f.ext = "json"}

(* What _prune_old_reports deletes of a listing: all but the Keep newest   *)
(* by modification time.                                                   *)
Newer(files, f) == {g \in files : g.mtime > f.mtime}
Discarded_ByName(files) ==
  {f \in files : Cardinality({g \in files : g.ts > f.ts}) >= Keep}
Discarded(files) == {f \in files : Cardinality(Newer(files, f)) >= Keep}

-----------------------------------------------------------------------------
(* An exception is raised below the innermost hook.  What a compile pool   *)
(* hands over of a worker's failure is a new exception without the mark:   *)
(* it is a failure of its own in the parent.                               *)
Fail(p) ==
  /\ stage[p] = "running"
  /\ fails[p] < MaxFails[p]
  /\ stage' = [stage EXCEPT ![p] = "unwinding"]
  /\ chain' = [chain EXCEPT ![p] = <<FALSE>>]
  /\ hooked' = [hooked EXCEPT ![p] = 0]
  /\ fails' = [fails EXCEPT ![p] = @ + 1]
  /\ UNCHANGED <<dir, draft, doomed, published, now, reader>>

(* A handler raises another exception from the one it caught. *)
Wrap(p) ==
  /\ stage[p] = "unwinding"
  /\ hooked[p] \in 1 .. MaxHooks - 1
  /\ Len(chain[p]) <= hooked[p]
  /\ chain' = [chain EXCEPT ![p] = Append(@, FALSE)]
  /\ UNCHANGED <<stage, hooked, fails, dir, draft, doomed, published, now, reader>>

(* _ffdc_already_captured, over the exception and its causes *)
Captured_TopOnly(c) == c[Len(c)]
Captured(c) == \E i \in DOMAIN c : c[i]

(* try_collect: skip a captured failure, else mark it and collect. *)
TryCollect(p) ==
  /\ stage[p] = "unwinding"
  /\ hooked[p] < MaxHooks
  /\ hooked' = [hooked EXCEPT ![p] = @ + 1]
  /\ IF Captured(chain[p])
       THEN UNCHANGED <<stage, chain>>
       ELSE /\ chain' = [chain EXCEPT ![p][Len(chain[p])] = TRUE]
            /\ stage' = [stage EXCEPT ![p] = "collecting"]
  /\ UNCHANGED <<fails, dir, draft, doomed, published, now, reader>>

(* The exception leaves the last hook and is handled by the caller. *)
Surface(p) ==
  /\ stage[p] = "unwinding"
  /\ hooked[p] > 0
  /\ stage' = [stage EXCEPT ![p] = "running"]
  /\ chain' = [chain EXCEPT ![p] = <<>>]
  /\ hooked' = [hooked EXCEPT ![p] = 0]
  /\ UNCHANGED <<fails, dir, draft, doomed, published, now, reader>>

(* collect names the report by the clock and opens its temporary file. *)
OpenDraft(p) ==
  /\ stage[p] = "collecting"
  /\ now' = now + 1
  /\ LET f == [of |-> <<p, fails[p]>>, hook |-> hooked[p], ts |-> now,
               mtime |-> now, ext |-> "tmp", whole |-> FALSE]
     IN  /\ draft' = [draft EXCEPT ![p] = f]
         /\ dir' = dir \cup {f}
  /\ stage' = [stage EXCEPT ![p] = "opened"]
  /\ UNCHANGED <<chain, hooked, fails, doomed, published, reader>>

(* _dump_json: the last write and the fsync. *)
DumpJson(p) ==
  /\ stage[p] = "opened"
  /\ now' = now + 1
  /\ LET f == [draft[p] EXCEPT !.mtime = now, !.whole = TRUE]
     IN  /\ draft' = [draft EXCEPT ![p] = f]
         /\ dir' = (dir \ {draft[p]}) \cup {f}
  /\ stage' = [stage EXCEPT ![p] = "dumped"]
  /\ UNCHANGED <<chain, hooked, fails, doomed, published, reader>>

(* os.replace gives the file its final name. *)
Replace(p) ==
  /\ stage[p] = "dumped"
  /\ LET f == [draft[p] EXCEPT !.ext = "json"]
     IN  /\ dir' = (dir \ {draft[p]}) \cup {f}
         /\ published' = published \cup {f}
  /\ draft' = [draft EXCEPT ![p] = NoReport]
  /\ stage' = [stage EXCEPT ![p] = "published"]
  /\ UNCHANGED <<chain, hooked, fails, doomed, now, reader>>

(* collect fails or is disabled; the draft is unlinked, the error swallowed. *)
CollectFails(p) ==
  /\ stage[p] \in {"collecting", "opened", "dumped"}
  /\ dir' = dir \ {draft[p]}
  /\ draft' = [draft EXCEPT ![p] = NoReport]
  /\ stage' = [stage EXCEPT ![p] = "unwinding"]
  /\ UNCHANGED <<chain, hooked, fails, doomed, published, now, reader>>

(* _prune_old_reports lists the directory and picks what to delete, *)
PruneList(p) ==
  /\ stage[p] = "published"
  /\ doomed' = [doomed EXCEPT ![p] = Discarded(Listed(dir))]
  /\ stage' = [stage EXCEPT ![p] = "pruning"]
  /\ UNCHANGED <<chain, hooked, fails, dir, draft, published, now, reader>>

(* then unlinks it file by file; a file that is gone already is no error. *)
PruneOne(p) ==
  /\ stage[p] = "pruning"
  /\ \E f \in doomed[p] :
       /\ dir' = dir \ {f}
       /\ doomed' = [doomed EXCEPT ![p] = @ \ {f}]
  /\ UNCHANGED <<stage, chain, hooked, fails, draft, published, now, reader>>

PruneDone(p) ==
  /\ stage[p] = "pruning"
  /\ doomed[p] = {}
  /\ stage' = [stage EXCEPT ![p] = "unwinding"]
  /\ UNCHANGED <<chain, hooked, fails, dir, draft, doomed, published, now, reader>>

(* The process is killed: what it left in the directory stays there. *)
Die(p) ==
  /\ stage[p] \notin {"running", "dead"}
  /\ stage' = [stage EXCEPT ![p] = "dead"]
  /\ draft' = [draft EXCEPT ![p] = NoReport]
  /\ doomed' = [doomed EXCEPT ![p] = {}]
  /\ UNCHANGED <<chain, hooked, fails, dir, published, now, reader>>

-----------------------------------------------------------------------------
(* get_diagnostic_report lists the directory, *)
ListReports ==
  /\ reader.at = "idle"
  /\ reader' = [at |-> "reading", listed |-> Listed(dir), rest |-> Listed(dir),
                found |-> NoReport]
  /\ UNCHANGED <<stage, chain, hooked, fails, dir, draft, doomed, published, now>>

(* newest first by the time stamp of the name, *)
Newest_ByMtime(files) == CHOOSE f \in files : \A g \in files : g.mtime <= f.mtime
Newest(files) == CHOOSE f \in files : \A g \in files : g.ts <= f.ts

(* and returns the first one that is still there and parses. *)
ReadNext ==
  /\ reader.at = "reading"
  /\ IF reader.rest = {}
       THEN reader' = [reader EXCEPT !.at = "done"]
       ELSE LET f == Newest(reader.rest)
            IN  reader' = IF f \in dir /\ f.whole
                            THEN [reader EXCEPT !.at = "done", !.found = f]
                            ELSE [reader EXCEPT !.rest = @ \ {f}]
  /\ UNCHANGED <<stage, chain, hooked, fails, dir, draft, doomed, published, now>>

FfdcNext ==
  \/ \E p \in Procs :
       \/ Fail(p) \/ Wrap(p) \/ TryCollect(p) \/ Surface(p)
       \/ OpenDraft(p) \/ DumpJson(p) \/ Replace(p) \/ CollectFails(p)
       \/ PruneList(p) \/ PruneOne(p) \/ PruneDone(p) \/ Die(p)
  \/ ListReports
  \/ ReadNext

FfdcSpec == FfdcInit /\ [][FfdcNext]_ffdcVars

-----------------------------------------------------------------------------
(* try_collect, "Nested hooks ... must not rewrite an inner report": every *)
(* report is written by the innermost hook of its failure, whatever the    *)
(* handlers in between raise instead and even when the inner capture       *)
(* failed, so no failure has two in the process in which it happened.      *)
InnermostOnly ==
  \A f \in published :
    /\ f.hook = 1
    /\ \A g \in published : f.of = g.of => f = g

(* _prune_old_reports: whatever listings concurrent prunes work from and   *)
(* wherever a writer dies, the Keep most recently written reports are in   *)
(* the directory: a report that is gone from it was outnumbered.           *)
NewestKept ==
  \A f \in published :
    f \in dir \/ Cardinality(Newer(published, f)) >= Keep

(* get_diagnostic_report, racing writers and prunes: the report returned   *)
(* is complete and no older by its name than any listed report that is     *)
(* still there; nothing is returned only when nothing was listed or all    *)
(* that was has since been displaced by Keep later ones.                   *)
RetrievalNewest ==
  reader.at = "done" =>
    /\ \A f \in reader.listed \cap dir :
         reader.found # NoReport /\ reader.found.ts >= f.ts
    /\ reader.found # NoReport => reader.found.whole
    /\ reader.found = NoReport /\ reader.listed # {} =>
         Cardinality(published \ reader.listed) >= Keep

=============================================================================
