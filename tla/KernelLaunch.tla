----------------------------- MODULE KernelLaunch ------------------------------
(***************************************************************************)
(* SpyreStream::launch (csrc/spyre_stream.cpp) and the construct methods   *)
(* of the job plan steps (csrc/job_plan.cpp), on a plan that PlanBuilder   *)
(* made.                                                                   *)
(*                                                                         *)
(* launch walks the steps and submits one operation after another; the     *)
(* device runs each stream in FIFO order and, when the hazard tracker is   *)
(* on, holds an operation back until the earlier ones on other streams     *)
(* that touch the same device memory are done.  A host compute runs inside *)
(* launch; its correction is uploaded by an operation of its own or, when  *)
(* the group of host computes is batched, travels with the next compute.   *)
(*                                                                         *)
(* A memory location holds <<launch, step>>, the step that last wrote it.  *)
(***************************************************************************)
EXTENDS PlanBuilder, FiniteSets

CONSTANTS DevStreams,        \* streams launch is called on, hazard tracker on
          UntrackedStreams,  \* streams launch is called on, hazard tracker off
          Prep,              \* the host-compute stream of the device
          MaxCap,            \* largest number of corrections a compute can carry
          Launches           \* bound on the number of launches

ASSUME StreamsAssumption ==
    UntrackedStreams \subseteq DevStreams /\ Prep \notin DevStreams

ASSUME BoundAssumption == MaxCap \in Nat /\ Launches \in Nat

\* Host buffers, regions and the other places in memory are different things.
ASSUME NamesAssumption ==
    /\ Handles \cap Regions = {}
    /\ {"program", "output"} \cap (Handles \cup Regions) = {}

VARIABLES split,     \* get_hazard_tracker_enabled()
          cap,       \* max_corrections, reported by the device's runtime
          n,         \* number of launches begun
          i,         \* next step of the running launch, 0 when there is none
          dev,       \* stream of the running launch
          batch,     \* batch_program_corrections
          corr,      \* program_corrections: regions of the corrections held back
          serial,    \* operations submitted so far
          queue,     \* operations pending on each stream
          mem,       \* contents of device memory
          hostbuf,   \* contents of the plan's pinned buffers
          wrong      \* history: kinds of steps that read something unexpected

launchVars == <<split, cap, n, i, dev, batch, corr, serial, queue, mem, hostbuf, wrong>>
vars == <<builderVars, launchVars>>

Locations == Regions \cup {"program", "output"}
Streams == DevStreams \cup {Prep}
NoValue == <<0, 0>>
Running == i \in DOMAIN steps
Step == steps[i]

LaunchInit ==
    /\ split \in BOOLEAN /\ cap \in 0 .. MaxCap
    /\ n = 0 /\ i = 0 /\ batch = FALSE /\ corr = <<>>
    /\ dev \in (IF split THEN DevStreams ELSE UntrackedStreams)
    /\ serial = 0 /\ queue = [s \in Streams |-> <<>>]
    /\ mem = [l \in Locations |-> NoValue]
    /\ hostbuf = [h \in Handles |-> NoValue]
    /\ wrong = {}

-----------------------------------------------------------------------------
(* What the steps of one launch are expected to read: the value written by *)
(* the last earlier step of the same launch that writes the location.      *)

WritesOf(step) ==
    CASE step.kind = "Compute" -> {"output"}
      [] step.kind \in {"HostCompute", "H2D"} -> {step.dev}
      [] step.kind = "D2H" -> {step.handle}

Writers(k, loc) == {j \in 1 .. k - 1 : loc \in WritesOf(steps[j])}

\* Step k of launch m, reading v from loc, reads what its plan says.
Expected(m, k, loc, v) ==
    LET W == Writers(k, loc)
    IN  W # {} => v = <<m, CHOOSE j \in W : \A o \in W : o <= j>>

Note(kind, ok) == wrong' = IF ok THEN wrong ELSE wrong \cup {kind}

-----------------------------------------------------------------------------
(* launch *)

Enqueue(s, op) ==
    /\ queue' = [queue EXCEPT ![s] = Append(@, op)]
    /\ serial' = serial + 1

Op(kind, k, corrections) ==
    [kind |-> kind, launch |-> n, step |-> k, corr |-> corrections, serial |-> serial]

\* The upload of the program is queued while the plan is prepared.
Prepare ==
    /\ ExecuteJobPreparationPlan
    /\ Enqueue(dev, Op("program", 0, <<>>))
    /\ UNCHANGED <<split, cap, n, i, dev, batch, corr, mem, hostbuf, wrong>>

Build == (PreparationThrows \/ Translate) /\ UNCHANGED launchVars

BeginLaunch(s) ==
    /\ phase = "ready" /\ i = 0 /\ n < Launches
    /\ s \in (IF split THEN DevStreams ELSE UntrackedStreams)
    /\ n' = n + 1 /\ i' = 1 /\ dev' = s /\ batch' = FALSE /\ corr' = <<>>
    /\ UNCHANGED <<builderVars, split, cap, serial, queue, mem, hostbuf, wrong>>

\* The end of the group of host computes that step k is in.
GroupEnd(k) ==
    CHOOSE e \in k + 1 .. Len(steps) + 1 :
        /\ e <= Len(steps) => steps[e].kind # "HostCompute"
        /\ \A j \in k .. e - 1 : steps[j].kind = "HostCompute"

StartsGroup(k) == k = 1 \/ steps[k - 1].kind # "HostCompute"

\* Mutant: a group may be followed by any step.
Batchable_AnyFollower(k) == GroupEnd(k) - k <= cap

\* Mutant: one correction too many.
Batchable_OffByOne(k) ==
    LET e == GroupEnd(k)
    IN  e - k <= cap + 1 /\ e <= Len(steps) /\ steps[e].kind = "Compute"

\* The corrections of the group fit in one compute, and one follows.
Batchable(k) ==
    LET e == GroupEnd(k)
    IN  e - k <= cap /\ e <= Len(steps) /\ steps[e].kind = "Compute"

\* The flag is set where a group starts and kept until the next one starts.
BatchAt(k) == IF cap > 0 /\ StartsGroup(k) THEN Batchable(k) ELSE batch

Prepares(step) == step.kind \in {"HostCompute", "H2D"}

\* Mutant: preparation steps go to the second stream, tracker or not.
Target_AlwaysSplit(step) == IF Prepares(step) THEN Prep ELSE dev

Target(step) == IF split /\ Prepares(step) THEN Prep ELSE dev

\* JobPlanStepHostCompute: the host function runs now, on the input buffer as
\* it is now.  Its own output buffer is passed on by value.
ConstructHostCompute ==
    /\ Running /\ Step.kind = "HostCompute"
    /\ LET b == BatchAt(i)
       IN  /\ batch' = b
           /\ IF b THEN corr' = Append(corr, i) /\ UNCHANGED <<serial, queue>>
              ELSE Enqueue(Target(Step), Op("upload", i, <<>>)) /\ UNCHANGED corr
    /\ Note("HostCompute",
            Step.ihandle = None \/ Expected(n, i, Step.ihandle, hostbuf[Step.ihandle]))
    /\ i' = i + 1
    /\ UNCHANGED <<builderVars, split, cap, n, dev, mem, hostbuf>>

\* JobPlanStepH2D and JobPlanStepD2H: the raw address of the plan's pinned
\* buffer goes into the operation.
ConstructTransfer ==
    /\ Running /\ Step.kind \in {"H2D", "D2H"}
    /\ Enqueue(Target(Step), Op(Step.kind, i, <<>>))
    /\ i' = i + 1
    /\ UNCHANGED <<builderVars, split, cap, n, dev, batch, corr, mem, hostbuf, wrong>>

\* JobPlanStepCompute: the corrections held back are moved into the operation.
ConstructCompute ==
    /\ Running /\ Step.kind = "Compute"
    /\ Enqueue(Target(Step), Op("Compute", i, corr))
    /\ corr' = <<>> /\ i' = i + 1
    /\ UNCHANGED <<builderVars, split, cap, n, dev, batch, mem, hostbuf, wrong>>

\* A step throws; the context and its corrections are dropped.
LaunchThrows ==
    /\ Running
    /\ i' = 0 /\ corr' = <<>>
    /\ UNCHANGED <<builderVars, split, cap, n, dev, batch, serial, queue, mem, hostbuf, wrong>>

\* All steps submitted: launch checks that no correction is left and returns.
EndLaunch ==
    /\ i = Len(steps) + 1
    /\ i' = 0 /\ corr' = <<>>
    /\ UNCHANGED <<builderVars, split, cap, n, dev, batch, serial, queue, mem, hostbuf, wrong>>

-----------------------------------------------------------------------------
(* The device's runtime (external) *)

\* Device memory an operation reads and writes.
OpReads(op) ==
    CASE op.kind = "Compute" -> Regions \cup {"program"}
      [] op.kind = "D2H" -> {"output"}
      [] OTHER -> {}
OpWrites(op) ==
    CASE op.kind = "Compute" -> {"output"} \cup {steps[op.corr[c]].dev : c \in DOMAIN op.corr}
      [] op.kind \in {"upload", "H2D"} -> {steps[op.step].dev}
      [] op.kind = "program" -> {"program"}
      [] OTHER -> {}

Conflict(a, b) ==
    \/ OpWrites(a) \cap (OpReads(b) \cup OpWrites(b)) # {}
    \/ OpReads(a) \cap OpWrites(b) # {}

Pending(s) == {queue[s][j] : j \in DOMAIN queue[s]}

\* Mutant: an operation waits for later ones too.
Ready_NoOrder(s) ==
    /\ queue[s] # <<>>
    /\ split => \A t \in Streams \ {s} : \A p \in Pending(t) :
                    ~Conflict(p, Head(queue[s]))

\* The head of a stream may run: with the hazard tracker on, it waits for the
\* conflicting operations submitted before it.
Ready(s) ==
    /\ queue[s] # <<>>
    /\ split => \A t \in Streams \ {s} : \A p \in Pending(t) :
                    p.serial < Head(queue[s]).serial => ~Conflict(p, Head(queue[s]))

\* The corrections that travel with a compute are applied just before it.
Corrected(op) ==
    [l \in Locations |->
        LET C == {c \in DOMAIN op.corr : steps[op.corr[c]].dev = l}
        IN  IF C = {} THEN mem[l]
            ELSE <<op.launch, op.corr[CHOOSE c \in C : \A d \in C : d <= c]>>]

RunCompute(op) ==
    LET seen == Corrected(op)
    IN  /\ Note("Compute",
                /\ seen["program"] # NoValue
                /\ \A r \in Regions : Expected(op.launch, op.step, r, seen[r]))
        /\ mem' = [seen EXCEPT !["output"] = <<op.launch, op.step>>]
        /\ UNCHANGED hostbuf

RunUpload(op) ==
    /\ mem' = [mem EXCEPT ![IF op.kind = "program" THEN "program" ELSE steps[op.step].dev] =
                   <<op.launch, IF op.kind = "program" THEN 1 ELSE op.step>>]
    /\ Note("H2D", op.kind = "H2D" =>
                     LET h == steps[op.step].handle
                     IN  Expected(op.launch, op.step, h, hostbuf[h]))
    /\ UNCHANGED hostbuf

RunDownload(op) ==
    /\ hostbuf' = [hostbuf EXCEPT ![steps[op.step].handle] = <<op.launch, op.step>>]
    /\ Note("D2H", Expected(op.launch, op.step, "output", mem["output"]))
    /\ UNCHANGED mem

Execute(s) ==
    /\ Ready(s)
    /\ LET op == Head(queue[s])
       IN  \/ op.kind = "Compute" /\ RunCompute(op)
           \/ op.kind \in {"program", "upload", "H2D"} /\ RunUpload(op)
           \/ op.kind = "D2H" /\ RunDownload(op)
    /\ queue' = [queue EXCEPT ![s] = Tail(@)]
    /\ UNCHANGED <<builderVars, split, cap, n, i, dev, batch, corr, serial>>

-----------------------------------------------------------------------------
Init == BuilderInit /\ LaunchInit

Next ==
    \/ Prepare \/ Build
    \/ \E s \in DevStreams : BeginLaunch(s)
    \/ ConstructHostCompute \/ ConstructTransfer \/ ConstructCompute
    \/ LaunchThrows \/ EndLaunch
    \/ \E s \in Streams : Execute(s)

Spec == Init /\ [][Next]_vars

-----------------------------------------------------------------------------
(* Properties *)

\* launch never leaves a correction behind: when all steps of a plan the
\* builder accepted are submitted, program_corrections is empty, so the check
\* at the end of SpyreStream::launch never fires, whatever groups of host
\* computes the plan has and whatever was thrown in earlier launches.
NoOrphanCorrection == (i > Len(steps) /\ phase = "ready") => corr = <<>>

\* A compute never carries more corrections than the runtime said it can take,
\* and carries only those of its own group.
CorrectionsFit ==
    \A s \in Streams : \A op \in Pending(s) :
        /\ Len(op.corr) <= cap
        /\ \A c \in DOMAIN op.corr :
              op.corr[c] < op.step /\
              \A j \in op.corr[c] .. op.step - 1 : steps[j].kind = "HostCompute"

\* Asynchronous launches compute what the plan says.  A compute finds the
\* program loaded and every correction of its own launch, not of an earlier or
\* a later one, and a transfer from the device fetches its own launch's
\* result: with the tracker off because one stream runs everything in order,
\* with it on for any mix of streams.
DeviceReadsInOrder == wrong \cap {"Compute", "D2H"} = {}

\* The two streams of a launch never wait for each other in a circle: while
\* operations are pending, one of them can run.
NoCircularWait == (\E s \in Streams : queue[s] # <<>>) => \E s \in Streams : Ready(s)

\* "FIFO ordering on the stream is what makes the step sequence safe: each step
\* completes before the next one starts": the steps that read a host buffer of
\* the plan find what the step before them put there.
HostReadsInOrder == wrong \cap {"HostCompute", "H2D"} = {}
================================================================================
