------------------------------ MODULE PlanBuilder ------------------------------
(***************************************************************************)
(* JobPlanBuilder (csrc/prepare_kernel.cpp): from the commands of a        *)
(* SpyreCode directory to the steps of a JobPlan.                          *)
(*                                                                         *)
(* build runs the preparation plan (one Allocate, one InitTransfer, whose  *)
(* upload is only queued), translates the execution plan command by        *)
(* command and validates the result.  Any exception unwinds the builder,   *)
(* which owns the program's host copy and device allocation until the      *)
(* JobPlan takes them over.                                                *)
(***************************************************************************)
EXTENDS Naturals, Sequences

CONSTANTS Handles,   \* names of pinned host buffers (ohandle, ihandle, host_handle)
          Regions,   \* places in the job allocation that commands transfer to
          Programs,  \* execution plans: the sequences of commands to translate
          None

ASSUME NoneAssumption == None \notin Handles

\* A command keeps the properties that decide something; "bad" is one that
\* is unknown, lacks a property or does not parse.
Command ==
    [op : {"ComputeOnDevice", "bad"}]
      \cup [op : {"ComputeOnHost"}, ohandle : Handles, ihandle : Handles \cup {None}]
      \cup [op : {"H2D"}, host_handle : Handles, dev : Regions]
      \cup [op : {"D2H"}, host_handle : Handles]

ASSUME ProgramAssumption == Programs \subseteq Seq(Command)

VARIABLES cmds,     \* the execution plan being translated
          at,       \* the next command
          steps,    \* the JobPlanSteps built so far
          handles,  \* keys of pinned_buffer_map_
          phase,    \* what build is doing
          memory    \* who owns inits_ and job_allocation_

builderVars == <<cmds, at, steps, handles, phase, memory>>

BuilderInit ==
    /\ cmds \in Programs
    /\ at = 1 /\ steps = <<>> /\ handles = {}
    /\ phase = "preparing" /\ memory = "none"

\* The exception leaves build, and the builder is destroyed.
Throw ==
    /\ phase' = "failed" /\ memory' = "freed"
    /\ UNCHANGED <<cmds, at, steps, handles>>

\* executeJobPreparationPlan: allocate, read the binary, queue its upload.
ExecuteJobPreparationPlan ==
    /\ phase = "preparing"
    /\ phase' = "translating" /\ memory' = "builder"
    /\ UNCHANGED <<cmds, at, steps, handles>>

PreparationThrows == phase = "preparing" /\ Throw

Translating == phase = "translating" /\ at <= Len(cmds)
Cmd == cmds[at]

\* The step is added and its command, or pair of commands, consumed.
Push(step, newHandles, consumed) ==
    /\ steps' = Append(steps, step)
    /\ handles' = handles \cup newHandles
    /\ at' = at + consumed
    /\ UNCHANGED <<cmds, phase, memory>>

\* ComputeOnHost immediately followed by an H2D transfer.
IsPair == Cmd.op = "ComputeOnHost" /\ at < Len(cmds) /\ cmds[at + 1].op = "H2D"

\* The pair becomes one step that owns its upload.  The stub of the output
\* handle is registered before the input handle is looked up.
TranslateComputeOnHostWithH2D ==
    /\ Translating /\ IsPair
    /\ IF Cmd.ohandle \notin handles /\ Cmd.ihandle \in handles \cup {Cmd.ohandle, None}
       THEN Push([kind |-> "HostCompute", dev |-> cmds[at + 1].dev, ihandle |-> Cmd.ihandle],
                 {Cmd.ohandle}, 2)
       ELSE Throw

TranslateComputeOnDevice ==
    /\ Translating /\ Cmd.op = "ComputeOnDevice"
    /\ Push([kind |-> "Compute"], {}, 1)

\* A transfer to the device needs a registered buffer ...
TranslateH2D ==
    /\ Translating /\ Cmd.op = "H2D"
    /\ IF Cmd.host_handle \in handles
       THEN Push([kind |-> "H2D", handle |-> Cmd.host_handle, dev |-> Cmd.dev], {}, 1)
       ELSE Throw

\* Mutant: a second transfer to the same handle reuses its buffer.
TranslateD2H_Reuses ==
    /\ Translating /\ Cmd.op = "D2H"
    /\ Push([kind |-> "D2H", handle |-> Cmd.host_handle], {Cmd.host_handle}, 1)

\* ... and one from the device registers a new one.
TranslateD2H ==
    /\ Translating /\ Cmd.op = "D2H"
    /\ IF Cmd.host_handle \notin handles
       THEN Push([kind |-> "D2H", handle |-> Cmd.host_handle], {Cmd.host_handle}, 1)
       ELSE Throw

\* An isolated ComputeOnHost, or a malformed command.
TranslateThrows ==
    /\ Translating
    /\ Cmd.op = "bad" \/ (Cmd.op = "ComputeOnHost" /\ ~IsPair)
    /\ Throw

\* validate: the leading HostCompute steps, if any, are followed by a Compute.
Valid ==
    \A i \in DOMAIN steps :
        (\A j \in 1 .. i : steps[j].kind = "HostCompute") =>
            i < Len(steps) /\ steps[i + 1].kind \in {"HostCompute", "Compute"}

\* The JobPlan takes over the steps, buffers and program memory.
FinishBuild ==
    /\ phase = "translating" /\ at > Len(cmds)
    /\ IF Valid
       THEN /\ phase' = "ready" /\ memory' = "plan"
            /\ UNCHANGED <<cmds, at, steps, handles>>
       ELSE Throw

Translate ==
    \/ TranslateComputeOnHostWithH2D \/ TranslateComputeOnDevice
    \/ TranslateH2D \/ TranslateD2H \/ TranslateThrows \/ FinishBuild

-----------------------------------------------------------------------------
\* The host buffer a step reads, and the ones it fills.
ReadsHandle(step) ==
    CASE step.kind = "HostCompute" -> {step.ihandle} \ {None}
      [] step.kind = "H2D" -> {step.handle}
      [] OTHER -> {}
FillsHandle(step) == IF step.kind = "D2H" THEN {step.handle} ELSE {}

\* The host buffers of a plan have one producer: a buffer that some step reads
\* is not filled again after it, so that launching the plan again and again
\* needs no other buffers.
OneProducer ==
    \A i, j \in DOMAIN steps :
        /\ i # j => FillsHandle(steps[i]) \cap FillsHandle(steps[j]) = {}
        /\ i < j => ReadsHandle(steps[i]) \cap FillsHandle(steps[j]) = {}
================================================================================
