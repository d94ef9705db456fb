-------------------------- MODULE KernelLaunchProofs ---------------------------
(***************************************************************************)
(* Proofs about PlanBuilder and KernelLaunch: the buffers of a plan, the   *)
(* corrections of its groups of host computes, the order of operations.    *)
(***************************************************************************)
EXTENDS KernelLaunch, WellFoundedInduction, TLAPS

-----------------------------------------------------------------------------
(* The inductive invariant *)

\* The steps a plan consists of.
PlanStep ==
    [kind : {"Compute"}]
      \cup [kind : {"HostCompute"}, dev : Regions, ihandle : Handles \cup {None}]
      \cup [kind : {"H2D"}, handle : Handles, dev : Regions]
      \cup [kind : {"D2H"}, handle : Handles]

BuilderTypeOK ==
    /\ cmds \in Seq(Command) /\ at \in Nat \ {0}
    /\ steps \in Seq(PlanStep) /\ handles \subseteq Handles
    /\ phase \in {"preparing", "translating", "ready", "failed"}

\* Every buffer that a step of the plan reads or fills is registered, and the
\* plan has one producer for each.
BuilderInv ==
    /\ BuilderTypeOK
    /\ \A k \in DOMAIN steps : ReadsHandle(steps[k]) \cup FillsHandle(steps[k]) \subseteq handles
    /\ OneProducer

HostSteps(a, b) == \A k \in a .. b : steps[k].kind = "HostCompute"

\* cs lists the steps from g to k - 1, all of them host computes.
Group(cs, g, k) ==
    /\ Len(cs) = k - g
    /\ \A c \in 1 .. k - g : cs[c] = g + c - 1
    /\ HostSteps(g, k - 1)

Operation ==
    [kind : {"program", "upload", "H2D", "D2H", "Compute"}, launch : Nat, step : Nat,
     corr : Seq(Nat), serial : Nat]

LaunchTypeOK ==
    /\ split \in BOOLEAN /\ cap \in Nat /\ n \in Nat /\ batch \in BOOLEAN
    /\ i \in 0 .. Len(steps) + 1 /\ corr \in Seq(Nat) /\ serial \in Nat
    /\ dev \in DevStreams /\ (~split => dev \in UntrackedStreams)
    /\ queue \in [Streams -> Seq(Operation)]
    /\ DOMAIN mem = Locations
    /\ i # 0 \/ n # 0 => phase = "ready"

\* The corrections held back are those of a group that the flag says is
\* batched; inside a group that is not batched there are none.
BatchInv ==
    /\ i = 0 => corr = <<>>
    /\ i # 0 =>
         /\ cap = 0 => ~batch
         /\ \E g \in 1 .. i :
               /\ Group(corr, g, i)
               /\ g < i => batch /\ Batchable(g)
               /\ (g = i /\ ~StartsGroup(i)) => ~batch

\* Operations are numbered in the order they are submitted in.
SerialInv ==
    \A s, t \in Streams : \A a \in DOMAIN queue[s], b \in DOMAIN queue[t] :
        /\ queue[s][a].serial < serial
        /\ s = t /\ a < b => queue[s][a].serial < queue[t][b].serial
        /\ queue[s][a].serial = queue[t][b].serial => s = t /\ a = b
        /\ ~split => s \in UntrackedStreams

AllPending == UNION {Pending(s) : s \in Streams}

StepKind(op) == IF op.kind = "upload" THEN "HostCompute" ELSE op.kind

\* A pending operation is the upload of the program or that of a step of the
\* finished plan; only a compute carries corrections, those of its group.
OpOK(op) ==
    /\ op.kind # "program" => /\ phase = "ready" /\ op.step \in DOMAIN steps
                              /\ steps[op.step].kind = StepKind(op)
    /\ op.kind # "Compute" => op.corr = <<>>
    /\ op.kind = "Compute" =>
         \E g \in 1 .. op.step : Group(op.corr, g, op.step) /\ op.step - g <= cap
    /\ op.kind = "program" => op.launch = 0

OpInv == \A op \in AllPending : OpOK(op)

LaunchInv == LaunchTypeOK /\ BatchInv /\ SerialInv /\ OpInv

-----------------------------------------------------------------------------
(* Numbers *)

\* A set of natural numbers that is not empty has a least element.
LEMMA Least ==
    ASSUME NEW S, S \subseteq Nat, S # {}
    PROVE  \E x \in S : \A y \in S : x <= y
<1> DEFINE Less == {p \in Nat \X Nat : p[1] < p[2]}
<1>1. IsWellFoundedOn(Less, Nat)
  BY NatLessThanWellFounded DEF OpToRel
<1>2. PICK x \in S : \A y \in S : ~(<<y, x>> \in Less)
  <2> HIDE DEF Less
  <2> QED
    BY <1>1, WFMin, Zenon
<1>3. \A y \in S : y < x => <<y, x>> \in Less
  OBVIOUS
<1>4. \A y \in S : ~(y < x)
  <2> HIDE DEF Less
  <2> QED
    BY <1>2, <1>3, Zenon
<1> QED
  BY <1>4

\* ... and a greatest one when it is bounded.
LEMMA Greatest ==
    ASSUME NEW S, NEW b \in Nat, S \subseteq 0 .. b, S # {}
    PROVE  \E x \in S : \A y \in S : y <= x
<1> DEFINE B == {x \in Nat : \A y \in S : y <= x}
<1>1. B \subseteq Nat /\ b \in B
  OBVIOUS
<1>2. PICK x \in B : \A y \in B : x <= y
  BY <1>1, Least, Zenon
<1>3. PICK z \in S : TRUE
  BY ZenonT(60)
<1>4. CASE x \in S
  BY <1>4
<1>5. CASE x \notin S
  <2>1. x # 0
    BY <1>3, <1>5
  <2>2. x - 1 \in B
    BY <1>5, <2>1
  <2> QED
    BY <1>2, <2>2
<1> QED
  BY <1>4, <1>5
-----------------------------------------------------------------------------
(* The builder *)

LEMMA StepFields ==
    ASSUME NEW step \in PlanStep
    PROVE  /\ step.kind \in {"Compute", "HostCompute", "H2D", "D2H"}
           /\ step.kind \in {"HostCompute", "H2D"} => step.dev \in Regions
           /\ step.kind \in {"H2D", "D2H"} => step.handle \in Handles
           /\ step.kind = "HostCompute" => step.ihandle \in Handles \cup {None}
BY DEF PlanStep

LEMMA CommandFields ==
    ASSUME NEW c \in Command
    PROVE  /\ c.op \in {"ComputeOnDevice", "bad", "ComputeOnHost", "H2D", "D2H"}
           /\ c.op = "ComputeOnHost" => c.ohandle \in Handles /\ c.ihandle \in Handles \cup {None}
           /\ c.op = "H2D" => c.host_handle \in Handles /\ c.dev \in Regions
           /\ c.op = "D2H" => c.host_handle \in Handles
BY DEF Command

\* What a step reads and fills, by its kind.
LEMMA HandlesOf ==
    ASSUME NEW step
    PROVE  /\ step.kind = "HostCompute" => ReadsHandle(step) = {step.ihandle} \ {None}
           /\ step.kind = "H2D" => ReadsHandle(step) = {step.handle}
           /\ step.kind \in {"Compute", "D2H"} => ReadsHandle(step) = {}
           /\ step.kind = "D2H" => FillsHandle(step) = {step.handle}
           /\ step.kind \in {"Compute", "HostCompute", "H2D"} => FillsHandle(step) = {}
BY Zenon DEF ReadsHandle, FillsHandle

\* A step is added whose buffers are registered, and fills a new one if any.
LEMMA PushKeeps ==
    ASSUME BuilderInv, NEW step \in PlanStep, NEW new \in SUBSET Handles,
           NEW consumed \in {1, 2}, Push(step, new, consumed),
           ReadsHandle(step) \subseteq handles \cup new, FillsHandle(step) \subseteq new,
           FillsHandle(step) \cap handles = {}
    PROVE  BuilderInv'
<1> HIDE DEF PlanStep, Command
<1>1. BuilderTypeOK'
  BY DEF BuilderInv, BuilderTypeOK, Push
<1>2. /\ DOMAIN steps' = DOMAIN steps \cup {Len(steps) + 1}
      /\ steps'[Len(steps) + 1] = step
      /\ \A k \in DOMAIN steps : steps'[k] = steps[k] /\ k \in Nat /\ k < Len(steps) + 1
      /\ Len(steps) \in Nat
  BY DEF BuilderInv, BuilderTypeOK, Push
<1> DEFINE R(s) == ReadsHandle(s)
           F(s) == FillsHandle(s)
<1>3. \A k \in DOMAIN steps : R(steps[k]) \subseteq handles /\ F(steps[k]) \subseteq handles
  BY DEF BuilderInv
<1>4. handles' = handles \cup new
  BY DEF Push
<1>5. \A a, b \in DOMAIN steps :
          /\ a # b => F(steps[a]) \cap F(steps[b]) = {}
          /\ a < b => R(steps[a]) \cap F(steps[b]) = {}
  BY DEF BuilderInv, OneProducer
<1>6. R(step) \subseteq handles \cup new /\ F(step) \subseteq new /\ F(step) \cap handles = {}
  OBVIOUS
<1> HIDE DEF R, F
<1>7. \A k \in DOMAIN steps' : R(steps'[k]) \cup F(steps'[k]) \subseteq handles'
  BY <1>2, <1>3, <1>4, <1>6
<1>8. \A a, b \in DOMAIN steps' :
          /\ a # b => F(steps'[a]) \cap F(steps'[b]) = {}
          /\ a < b => R(steps'[a]) \cap F(steps'[b]) = {}
  BY <1>2, <1>3, <1>5, <1>6
<1> QED
  BY <1>1, <1>7, <1>8 DEF R, F, BuilderInv, OneProducer, ReadsHandle, FillsHandle

LEMMA BuilderFrame ==
    ASSUME BuilderInv, UNCHANGED <<cmds, at, steps, handles>>,
           phase' \in {"preparing", "translating", "ready", "failed"}
    PROVE  BuilderInv'
BY DEF BuilderInv, BuilderTypeOK, OneProducer, ReadsHandle, FillsHandle

LEMMA BuilderStarts == BuilderInit => BuilderInv
BY ProgramAssumption DEF BuilderInit, BuilderInv, BuilderTypeOK, OneProducer

LEMMA TranslateKeeps ==
    ASSUME BuilderInv, Translate \/ PreparationThrows \/ ExecuteJobPreparationPlan
    PROVE  BuilderInv'
<1> USE DEF BuilderTypeOK
<1>0. Throw => BuilderInv'
  BY BuilderFrame DEF Throw
<1>t. ASSUME Translating
      PROVE  /\ Cmd \in Command
             /\ at < Len(cmds) => cmds[at + 1] \in Command
  BY <1>t DEF BuilderInv, Translating, Cmd
<1>1. CASE TranslateComputeOnHostWithH2D
  <2>1. Cmd \in Command /\ cmds[at + 1] \in Command /\ Cmd.op = "ComputeOnHost"
        /\ cmds[at + 1].op = "H2D"
    BY <1>1, <1>t DEF TranslateComputeOnHostWithH2D, IsPair
  <2> DEFINE step == [kind |-> "HostCompute", dev |-> cmds[at + 1].dev, ihandle |-> Cmd.ihandle]
  <2>2. /\ Cmd.ohandle \in Handles /\ Cmd.ihandle \in Handles \cup {None}
        /\ cmds[at + 1].dev \in Regions
    BY <2>1, CommandFields
  <2>3. step \in PlanStep /\ step.kind = "HostCompute" /\ step.ihandle = Cmd.ihandle
    BY <2>2 DEF PlanStep
  <2>4. CASE Throw
    BY <1>0, <2>4
  <2>5. CASE /\ Cmd.ohandle \notin handles
             /\ Cmd.ihandle \in handles \cup {Cmd.ohandle, None}
             /\ Push(step, {Cmd.ohandle}, 2)
    <3>1. ReadsHandle(step) = {Cmd.ihandle} \ {None} /\ FillsHandle(step) = {}
      BY <2>3, HandlesOf
    <3> HIDE DEF step
    <3> QED
      BY <2>2, <2>3, <2>5, <3>1, PushKeeps
  <2> QED
    BY <1>1, <2>4, <2>5 DEF TranslateComputeOnHostWithH2D
<1>2. CASE TranslateComputeOnDevice
  <2> DEFINE step == [kind |-> "Compute"]
  <2>1. step \in PlanStep /\ step.kind = "Compute" /\ Push(step, {}, 1)
    BY <1>2 DEF PlanStep, TranslateComputeOnDevice
  <2>2. ReadsHandle(step) = {} /\ FillsHandle(step) = {}
    BY <2>1, HandlesOf
  <2> HIDE DEF step
  <2> QED
    BY <2>1, <2>2, PushKeeps
<1>3. CASE TranslateH2D
  <2>1. Cmd.host_handle \in Handles /\ Cmd.dev \in Regions
    BY <1>3, <1>t, CommandFields DEF TranslateH2D
  <2> DEFINE step == [kind |-> "H2D", handle |-> Cmd.host_handle, dev |-> Cmd.dev]
  <2>2. step \in PlanStep /\ step.kind = "H2D" /\ step.handle = Cmd.host_handle
    BY <2>1 DEF PlanStep
  <2>3. ReadsHandle(step) = {Cmd.host_handle} /\ FillsHandle(step) = {}
    BY <2>2, HandlesOf
  <2>4. CASE Throw
    BY <1>0, <2>4
  <2>5. CASE Cmd.host_handle \in handles /\ Push(step, {}, 1)
    <3> HIDE DEF step
    <3> QED
      BY <2>2, <2>3, <2>5, PushKeeps
  <2> QED
    BY <1>3, <2>4, <2>5 DEF TranslateH2D
<1>4. CASE TranslateD2H
  <2>1. Cmd.host_handle \in Handles
    BY <1>4, <1>t, CommandFields DEF TranslateD2H
  <2> DEFINE step == [kind |-> "D2H", handle |-> Cmd.host_handle]
  <2>2. step \in PlanStep /\ step.kind = "D2H" /\ step.handle = Cmd.host_handle
    BY <2>1 DEF PlanStep
  <2>3. ReadsHandle(step) = {} /\ FillsHandle(step) = {Cmd.host_handle}
    BY <2>2, HandlesOf
  <2>4. CASE Throw
    BY <1>0, <2>4
  <2>5. CASE Cmd.host_handle \notin handles /\ Push(step, {Cmd.host_handle}, 1)
    <3> HIDE DEF step
    <3> QED
      BY <2>1, <2>2, <2>3, <2>5, PushKeeps
  <2> QED
    BY <1>4, <2>4, <2>5 DEF TranslateD2H
<1>5. CASE TranslateThrows \/ PreparationThrows
  BY <1>0, <1>5 DEF TranslateThrows, PreparationThrows
<1>6. CASE FinishBuild
  BY <1>0, <1>6, BuilderFrame DEF FinishBuild
<1>7. CASE ExecuteJobPreparationPlan
  BY <1>7, BuilderFrame DEF ExecuteJobPreparationPlan
<1> QED
  BY <1>1, <1>2, <1>3, <1>4, <1>5, <1>6, <1>7 DEF Translate
-----------------------------------------------------------------------------
(* The queues *)

\* Membership in the elements of the sequences q.
LEMMA InSomeQueue ==
    ASSUME NEW q, NEW S, NEW p
    PROVE  p \in UNION {{q[s][a] : a \in DOMAIN q[s]} : s \in S}
             <=> \E s \in S : \E a \in DOMAIN q[s] : p = q[s][a]
<1>1. ASSUME NEW s \in S, NEW a \in DOMAIN q[s], p = q[s][a]
      PROVE  p \in UNION {{q[t][b] : b \in DOMAIN q[t]} : t \in S}
  BY <1>1
<1>2. ASSUME p \in UNION {{q[t][b] : b \in DOMAIN q[t]} : t \in S}
      PROVE  \E s \in S : \E a \in DOMAIN q[s] : p = q[s][a]
  BY <1>2
<1> QED
  BY <1>1, <1>2

LEMMA PendingDef ==
    \A p : p \in AllPending <=> \E s \in Streams : \E a \in DOMAIN queue[s] : p = queue[s][a]
BY InSomeQueue DEF AllPending, Pending

LEMMA OperationFields ==
    ASSUME NEW op \in Operation
    PROVE  /\ op.kind \in {"program", "upload", "H2D", "D2H", "Compute"}
           /\ op.launch \in Nat /\ op.step \in Nat /\ op.corr \in Seq(Nat) /\ op.serial \in Nat
BY DEF Operation

\* A pending operation has its number to itself, and one below the next.
LEMMA SerialsDiffer ==
    ASSUME LaunchTypeOK, SerialInv
    PROVE  /\ \A p \in AllPending : p \in Operation /\ p.serial < serial
           /\ \A p, q \in AllPending : p.serial = q.serial => p = q
<1> HIDE DEF Operation
<1>1. \A s \in Streams : queue[s] \in Seq(Operation)
  BY DEF LaunchTypeOK
<1>2. \A s \in Streams : \A a \in DOMAIN queue[s] : queue[s][a] \in Operation
  BY <1>1
<1> QED
  BY <1>2, PendingDef DEF SerialInv

\* An operation that is submitted joins the pending ones, with the next number.
LEMMA EnqueueAdds ==
    ASSUME LaunchTypeOK, SerialInv, NEW s \in Streams, NEW op \in Operation,
           op.serial = serial, Enqueue(s, op), split' = split, ~split => s \in UntrackedStreams
    PROVE  /\ queue' \in [Streams -> Seq(Operation)] /\ serial' = serial + 1 /\ serial' \in Nat
           /\ SerialInv'
           /\ AllPending' = AllPending \cup {op}
<1> HIDE DEF Operation
<1>1. queue \in [Streams -> Seq(Operation)] /\ serial \in Nat
  BY DEF LaunchTypeOK
<1>2. /\ queue' = [queue EXCEPT ![s] = Append(queue[s], op)] /\ serial' = serial + 1
      /\ queue[s] \in Seq(Operation)
  BY <1>1 DEF Enqueue
<1>3. /\ queue' \in [Streams -> Seq(Operation)]
      /\ queue'[s] = Append(queue[s], op)
      /\ \A t \in Streams : t # s => queue'[t] = queue[t]
  BY <1>1, <1>2
<1>4. /\ DOMAIN queue'[s] = DOMAIN queue[s] \cup {Len(queue[s]) + 1}
      /\ queue'[s][Len(queue[s]) + 1] = op
      /\ \A a \in DOMAIN queue[s] : queue'[s][a] = queue[s][a] /\ a < Len(queue[s]) + 1
      /\ \A a \in DOMAIN queue'[s] : a \in Nat
      /\ Len(queue[s]) \in Nat
  BY <1>2, <1>3
<1>5. \A t \in Streams : \A a \in DOMAIN queue[t] : queue[t][a].serial \in Nat
  <2> SUFFICES ASSUME NEW t \in Streams, NEW a \in DOMAIN queue[t]
               PROVE  queue[t][a].serial \in Nat
    OBVIOUS
  <2>1. queue[t] \in Seq(Operation)
    BY <1>1
  <2>2. queue[t][a] \in Operation
    BY <2>1
  <2> QED
    BY <2>2, OperationFields
<1>6. SerialInv'
  <2> SUFFICES ASSUME NEW t \in Streams, NEW u \in Streams,
                      NEW a \in DOMAIN queue'[t], NEW b \in DOMAIN queue'[u]
               PROVE  /\ queue'[t][a].serial < serial'
                      /\ t = u /\ a < b => queue'[t][a].serial < queue'[u][b].serial
                      /\ queue'[t][a].serial = queue'[u][b].serial => t = u /\ a = b
                      /\ ~split' => t \in UntrackedStreams
    BY DEF SerialInv
  <2>1. \/ a \in DOMAIN queue[t] /\ queue'[t][a] = queue[t][a]
        \/ t = s /\ a = Len(queue[s]) + 1 /\ queue'[t][a] = op
    BY <1>3, <1>4
  <2>2. \/ b \in DOMAIN queue[u] /\ queue'[u][b] = queue[u][b]
        \/ u = s /\ b = Len(queue[s]) + 1 /\ queue'[u][b] = op
    BY <1>3, <1>4, ZenonT(60)
  <2>3. (t = s /\ a \in DOMAIN queue[t] => a < Len(queue[s]) + 1)
        /\ (u = s /\ b \in DOMAIN queue[u] => b < Len(queue[s]) + 1)
        /\ (t = s => a \in Nat) /\ (u = s => b \in Nat) /\ Len(queue[s]) + 1 \in Nat
    BY <1>4
  <2>4. CASE a \in DOMAIN queue[t] /\ b \in DOMAIN queue[u]
    BY <1>1, <1>2, <1>5, <2>1, <2>2, <2>3, <2>4 DEF SerialInv
  <2>5. CASE a \in DOMAIN queue[t] /\ u = s /\ b = Len(queue[s]) + 1 /\ queue'[u][b] = op
    BY <1>1, <1>2, <1>5, <2>1, <2>3, <2>5 DEF SerialInv
  <2>6. CASE b \in DOMAIN queue[u] /\ t = s /\ a = Len(queue[s]) + 1 /\ queue'[t][a] = op
    BY <1>1, <1>2, <1>5, <2>2, <2>3, <2>6 DEF SerialInv
  <2>7. CASE t = s /\ a = Len(queue[s]) + 1 /\ queue'[t][a] = op /\ u = s /\ b = Len(queue[s]) + 1
    BY <1>1, <1>2, <2>3, <2>7
  <2> QED
    BY <2>1, <2>2, <2>4, <2>5, <2>6, <2>7
<1>7. \A p : p \in AllPending' <=> \E t \in Streams : \E a \in DOMAIN queue'[t] : p = queue'[t][a]
  BY InSomeQueue DEF AllPending, Pending, Streams
<1>8. ASSUME NEW p PROVE p \in AllPending' <=> p \in AllPending \/ p = op
  <2>1. ASSUME p \in AllPending' PROVE p \in AllPending \/ p = op
    <3>0. PICK t \in Streams : \E a \in DOMAIN queue'[t] : p = queue'[t][a]
      BY <1>7, <2>1
    <3>1. PICK a \in DOMAIN queue'[t] : p = queue'[t][a]
      BY <3>0
    <3>2. (a \in DOMAIN queue[t] /\ p = queue[t][a]) \/ p = op
      BY <1>3, <1>4, <3>1
    <3> QED
      BY <3>2, PendingDef
  <2>2. ASSUME p \in AllPending PROVE p \in AllPending'
    <3>0. PICK t \in Streams : \E a \in DOMAIN queue[t] : p = queue[t][a]
      BY PendingDef, <2>2
    <3>1. PICK a \in DOMAIN queue[t] : p = queue[t][a]
      BY <3>0
    <3>2. a \in DOMAIN queue'[t] /\ queue'[t][a] = queue[t][a]
      BY <1>3, <1>4
    <3> QED
      BY <3>1, <3>2, <1>7
  <2>3. op \in AllPending'
    BY <1>4, <1>7
  <2> QED
    BY <2>1, <2>2, <2>3
<1> QED
  BY <1>1, <1>2, <1>3, <1>6, <1>8

\* The head of a queue leaves it; the others behind it have larger numbers.
LEMMA ExecuteRemoves ==
    ASSUME LaunchTypeOK, SerialInv, NEW s \in Streams, queue[s] # <<>>,
           queue' = [queue EXCEPT ![s] = Tail(@)], UNCHANGED <<serial, split>>
    PROVE  /\ queue' \in [Streams -> Seq(Operation)]
           /\ SerialInv'
           /\ Head(queue[s]) \in AllPending
           /\ AllPending' = AllPending \ {Head(queue[s])}
           /\ \A p \in Pending(s) : p = Head(queue[s]) \/ Head(queue[s]).serial < p.serial
<1> HIDE DEF Operation
<1>1. queue \in [Streams -> Seq(Operation)] /\ queue[s] \in Seq(Operation)
  BY DEF LaunchTypeOK
<1>2. /\ queue' \in [Streams -> Seq(Operation)]
      /\ queue'[s] = Tail(queue[s])
      /\ \A t \in Streams : t # s => queue'[t] = queue[t]
  BY <1>1
<1>3. /\ \A a \in DOMAIN queue'[s] : /\ a + 1 \in DOMAIN queue[s] /\ a \in Nat /\ a # 0
                                     /\ queue'[s][a] = queue[s][a + 1]
      /\ \A a \in DOMAIN queue[s] : a # 1 => /\ a - 1 \in DOMAIN queue'[s] /\ a \in Nat
                                             /\ queue'[s][a - 1] = queue[s][a]
      /\ 1 \in DOMAIN queue[s] /\ Head(queue[s]) = queue[s][1]
      /\ DOMAIN queue[s] = 1 .. Len(queue[s]) /\ Len(queue[s]) \in Nat
  BY <1>1, <1>2
<1>4. ASSUME NEW t \in Streams, NEW a \in DOMAIN queue'[t]
      PROVE  \/ t # s /\ a \in DOMAIN queue[t] /\ queue'[t][a] = queue[t][a]
             \/ t = s /\ a \in Nat /\ a # 0 /\ a + 1 \in DOMAIN queue[t] /\ queue'[t][a] = queue[t][a + 1]
  BY <1>2, <1>3
<1>5. SerialInv'
  <2> SUFFICES ASSUME NEW t \in Streams, NEW u \in Streams,
                      NEW a \in DOMAIN queue'[t], NEW b \in DOMAIN queue'[u]
               PROVE  /\ queue'[t][a].serial < serial'
                      /\ t = u /\ a < b => queue'[t][a].serial < queue'[u][b].serial
                      /\ queue'[t][a].serial = queue'[u][b].serial => t = u /\ a = b
                      /\ ~split' => t \in UntrackedStreams
    BY DEF SerialInv
  <2>1. CASE t = s /\ u = s
    BY <1>4, <2>1 DEF SerialInv
  <2>2. CASE t = s /\ u # s
    BY <1>4, <2>2 DEF SerialInv
  <2>3. CASE t # s /\ u = s
    BY <1>4, <2>3 DEF SerialInv
  <2>4. CASE t # s /\ u # s
    BY <1>4, <2>4 DEF SerialInv
  <2> QED
    BY <2>1, <2>2, <2>3, <2>4
<1>6. \A p : p \in AllPending' <=> \E t \in Streams : \E a \in DOMAIN queue'[t] : p = queue'[t][a]
  BY InSomeQueue DEF AllPending, Pending, Streams
<1>7. Head(queue[s]) \in AllPending
  BY <1>3, PendingDef
<1>8. \A p \in Pending(s) : p = Head(queue[s]) \/ Head(queue[s]).serial < p.serial
  <2> SUFFICES ASSUME NEW a \in DOMAIN queue[s]
               PROVE  queue[s][a] = Head(queue[s]) \/ Head(queue[s]).serial < queue[s][a].serial
    BY Zenon DEF Pending
  <2> QED
    BY <1>3 DEF SerialInv
<1>9. ASSUME NEW p PROVE p \in AllPending' <=> p \in AllPending /\ p # Head(queue[s])
  <2>1. ASSUME p \in AllPending' PROVE p \in AllPending /\ p # Head(queue[s])
    <3>0. PICK t \in Streams : \E a \in DOMAIN queue'[t] : p = queue'[t][a]
      BY <1>6, <2>1
    <3>1. PICK a \in DOMAIN queue'[t] : p = queue'[t][a]
      BY <3>0
    <3>2. PICK b \in DOMAIN queue[t] : p = queue[t][b] /\ (t = s => b # 1)
      BY <1>4, <3>1
    <3>3. p # queue[s][1]
      BY <1>3, <3>2 DEF SerialInv
    <3> QED
      BY <1>3, <3>2, <3>3, PendingDef
  <2>2. ASSUME p \in AllPending, p # Head(queue[s]) PROVE p \in AllPending'
    <3>0. PICK t \in Streams : \E a \in DOMAIN queue[t] : p = queue[t][a]
      BY PendingDef, <2>2
    <3>1. PICK a \in DOMAIN queue[t] : p = queue[t][a]
      BY <3>0
    <3>2. CASE t = s
      BY <1>3, <1>6, <2>2, <3>1, <3>2, Zenon
    <3>3. CASE t # s
      BY <1>2, <1>6, <3>1, <3>3
    <3> QED
      BY <3>2, <3>3
  <2> QED
    BY <2>1, <2>2
<1> QED
  BY <1>2, <1>5, <1>7, <1>8, <1>9
-----------------------------------------------------------------------------
(* Groups of host computes and their corrections *)

\* The end of a group is the first step after it, or the end of the plan.
LEMMA GroupEndIs ==
    ASSUME BuilderTypeOK, NEW g \in 1 .. Len(steps), NEW e \in g + 1 .. Len(steps) + 1,
           HostSteps(g, e - 1), e <= Len(steps) => steps[e].kind # "HostCompute"
    PROVE  GroupEnd(g) = e
<1> DEFINE P(x) == /\ x <= Len(steps) => steps[x].kind # "HostCompute"
                   /\ \A j \in g .. x - 1 : steps[j].kind = "HostCompute"
<1>1. Len(steps) \in Nat
  BY DEF BuilderTypeOK
<1>2. P(e)
  BY DEF HostSteps
<1>3. ASSUME NEW x \in g + 1 .. Len(steps) + 1, P(x) PROVE x = e
  <2>1. ~(x < e)
    BY <1>1, <1>2, <1>3
  <2>2. ~(e < x)
    BY <1>1, <1>2, <1>3
  <2> QED
    BY <1>1, <2>1, <2>2
<1> HIDE DEF P
<1>4. (CHOOSE x \in g + 1 .. Len(steps) + 1 : P(x)) = e
  BY <1>2, <1>3
<1> QED
  BY <1>4 DEF P, GroupEnd

\* Behind a batched group that is complete comes a compute, and the group fits.
LEMMA BatchedGroup ==
    ASSUME BuilderTypeOK, cap \in Nat, NEW g \in 1 .. Len(steps), NEW e \in g + 1 .. Len(steps) + 1,
           HostSteps(g, e - 1), e <= Len(steps) => steps[e].kind # "HostCompute", Batchable(g)
    PROVE  e <= Len(steps) /\ steps[e].kind = "Compute" /\ e - g <= cap
BY GroupEndIs DEF Batchable

\* So when a step that is no host compute is next, the corrections held back
\* are a group that fits in it, and there are none unless it is a compute.
LEMMA HeldBack ==
    ASSUME BuilderTypeOK, LaunchTypeOK, BatchInv, i # 0,
           i <= Len(steps) => steps[i].kind # "HostCompute"
    PROVE  /\ \E g \in 1 .. i : Group(corr, g, i) /\ i - g <= cap
           /\ (i > Len(steps) \/ steps[i].kind # "Compute") => corr = <<>>
<1>1. PICK g \in 1 .. i : Group(corr, g, i) /\ (g < i => batch /\ Batchable(g))
  BY DEF BatchInv
<1>2. /\ Len(steps) \in Nat /\ i \in 1 .. Len(steps) + 1 /\ cap \in Nat /\ corr \in Seq(Nat)
      /\ g \in Nat /\ i \in Nat
  BY DEF BuilderTypeOK, LaunchTypeOK
<1>3. CASE g = i
  <2>1. Len(corr) = 0
    BY <1>1, <1>2, <1>3 DEF Group
  <2>2. corr = <<>>
    BY <1>2, <2>1
  <2> QED
    BY <1>1, <1>2, <1>3, <2>2
<1>4. CASE g < i
  <2>1. i <= Len(steps) /\ steps[i].kind = "Compute" /\ i - g <= cap
    BY <1>1, <1>2, <1>4, BatchedGroup DEF Group
  <2> QED
    BY <1>1, <1>2, <2>1
<1> QED
  BY <1>2, <1>3, <1>4

\* Whether the group of a host compute is batched.
LEMMA HostComputeBatch ==
    ASSUME BuilderTypeOK, LaunchTypeOK, BatchInv, Running, Step.kind = "HostCompute"
    PROVE  /\ BatchAt(i) \in BOOLEAN /\ (cap = 0 => ~BatchAt(i))
           /\ BatchAt(i) => \E g \in 1 .. i : Group(corr, g, i) /\ Batchable(g)
           /\ ~BatchAt(i) => corr = <<>>
<1>1. /\ Len(steps) \in Nat /\ i \in 1 .. Len(steps) /\ cap \in Nat /\ corr \in Seq(Nat)
      /\ i # 0 /\ batch \in BOOLEAN
  BY DEF BuilderTypeOK, LaunchTypeOK, Running
<1>2. PICK g \in 1 .. i : /\ Group(corr, g, i) /\ (g < i => batch /\ Batchable(g))
                          /\ (g = i /\ ~StartsGroup(i)) => ~batch
  BY <1>1 DEF BatchInv
<1>3. g = i => corr = <<>>
  <2>1. g = i => Len(corr) = 0
    BY <1>1, <1>2 DEF Group
  <2> QED
    BY <1>1, <2>1
<1>4. BatchAt(i) \in BOOLEAN /\ (cap = 0 => ~BatchAt(i))
  <2>1. Batchable(i) \in BOOLEAN
    BY Zenon DEF Batchable
  <2>2. BatchAt(i) = Batchable(i) \/ BatchAt(i) = batch
    BY Zenon DEF BatchAt
  <2>3. cap = 0 => BatchAt(i) = batch /\ ~batch
    BY <1>1 DEF BatchAt, BatchInv
  <2> QED
    BY <1>1, <2>1, <2>2, <2>3, Zenon
<1>5. CASE StartsGroup(i)
  <2>1. g = i
    <3>1. g < i => steps[i - 1].kind = "HostCompute" /\ i # 1
      BY <1>1, <1>2 DEF Group, HostSteps
    <3> QED
      BY <1>1, <1>5, <3>1 DEF StartsGroup
  <2>2. BatchAt(i) => Batchable(i)
    BY <1>1, <1>5, <1>4 DEF BatchAt
  <2> QED
    BY <1>2, <1>3, <1>4, <2>1, <2>2
<1>6. CASE ~StartsGroup(i)
  <2>1. BatchAt(i) = batch
    BY <1>6 DEF BatchAt
  <2>2. g = i \/ g < i
    BY <1>1
  <2> QED
    BY <1>2, <1>3, <1>4, <1>6, <2>1, <2>2
<1> QED
  BY <1>5, <1>6
-----------------------------------------------------------------------------
(* Submitting and running operations keeps LaunchInv *)

LEMMA OpFrame ==
    ASSUME NEW op, UNCHANGED <<steps, phase, cap>>, OpOK(op)
    PROVE  OpOK(op)'
BY DEF OpOK, StepKind, Group, HostSteps

LEMMA OpType ==
    ASSUME LaunchTypeOK, NEW kind \in {"program", "upload", "H2D", "D2H", "Compute"}, NEW k \in Nat,
           NEW cs \in Seq(Nat)
    PROVE  /\ Op(kind, k, cs) \in Operation /\ Op(kind, k, cs).serial = serial
           /\ Op(kind, k, cs).kind = kind /\ Op(kind, k, cs).step = k
           /\ Op(kind, k, cs).corr = cs /\ Op(kind, k, cs).launch = n
BY DEF LaunchTypeOK, Op, Operation

LEMMA Submits ==
    ASSUME LaunchInv, UNCHANGED <<steps, phase, cap, split>>, NEW s \in Streams,
           ~split => s \in UntrackedStreams, NEW op \in Operation, op.serial = serial,
           OpOK(op), Enqueue(s, op)
    PROVE  /\ queue' \in [Streams -> Seq(Operation)] /\ serial' = serial + 1 /\ serial' \in Nat
           /\ SerialInv' /\ OpInv' /\ AllPending' = AllPending \cup {op}
<1> USE DEF LaunchInv
<1>1. /\ queue' \in [Streams -> Seq(Operation)] /\ serial' = serial + 1 /\ serial' \in Nat
      /\ SerialInv' /\ AllPending' = AllPending \cup {op}
  BY EnqueueAdds
<1>2. \A p \in AllPending \cup {op} : OpOK(p)
  BY DEF OpInv
<1>3. \A p : OpOK(p) => OpOK(p)'
  BY OpFrame
<1> QED
  BY <1>1, <1>2, <1>3 DEF OpInv

\* The streams that steps are submitted to.
LEMMA TargetType ==
    ASSUME LaunchTypeOK, NEW step
    PROVE  /\ Target(step) \in Streams /\ (~split => Target(step) \in UntrackedStreams)
           /\ dev \in Streams
BY DEF LaunchTypeOK, Target, Streams

LEMMA LaunchStarts == Init => LaunchInv
<1> SUFFICES ASSUME Init PROVE LaunchInv
  OBVIOUS
<1> USE DEF Init, BuilderInit, LaunchInit
<1>1. LaunchTypeOK
  <2>1. dev \in DevStreams /\ (~split => dev \in UntrackedStreams)
    BY StreamsAssumption
  <2>2. /\ cap \in Nat /\ n \in Nat /\ i \in 0 .. Len(steps) + 1 /\ corr \in Seq(Nat)
        /\ serial \in Nat /\ i = 0 /\ n = 0
    BY BoundAssumption
  <2>3. queue \in [Streams -> Seq(Operation)] /\ DOMAIN mem = Locations
    OBVIOUS
  <2>4. split \in BOOLEAN /\ batch \in BOOLEAN
    BY Zenon
  <2> HIDE DEF Init, BuilderInit, LaunchInit
  <2> QED
    BY <2>1, <2>2, <2>3, <2>4, Zenon DEF LaunchTypeOK
<1>2. BatchInv
  BY DEF BatchInv
<1>3. \A s \in Streams : queue[s] = <<>>
  OBVIOUS
<1>4. SerialInv
  BY <1>3 DEF SerialInv
<1>5. OpInv
  BY <1>3, PendingDef DEF OpInv
<1> QED
  BY <1>1, <1>2, <1>4, <1>5 DEF LaunchInv

\* While the plan is being built no launch runs, and only the upload of the
\* program can be pending.
LEMMA BuildKeepsLaunch == ASSUME BuilderInv, LaunchInv, BuilderInv', Build PROVE LaunchInv'
<1>1. /\ phase # "ready" /\ i = 0 /\ UNCHANGED launchVars /\ Len(steps') \in Nat
      /\ phase' \in {"preparing", "translating", "ready", "failed"}
  <2>1. phase \in {"preparing", "translating"}
    BY DEF Build, PreparationThrows, Translate, TranslateComputeOnHostWithH2D,
           TranslateComputeOnDevice, TranslateH2D, TranslateD2H, TranslateThrows, FinishBuild,
           Translating
  <2> QED
    BY <2>1 DEF Build, LaunchInv, LaunchTypeOK, BuilderInv, BuilderTypeOK
<1> USE DEF LaunchInv, launchVars
<1>2. LaunchTypeOK'
  BY <1>1 DEF LaunchTypeOK, Streams
<1>3. BatchInv'
  BY <1>1 DEF BatchInv
<1>4. SerialInv'
  BY <1>1 DEF SerialInv, Streams
<1>5. \A op \in AllPending : op.kind = "program" /\ OpOK(op)
  BY <1>1 DEF OpInv, OpOK
<1>6. \A op \in AllPending : OpOK(op)'
  BY <1>5 DEF OpOK
<1>7. AllPending' = AllPending
  BY <1>1 DEF AllPending, Pending, Streams
<1> QED
  BY <1>2, <1>3, <1>4, <1>6, <1>7 DEF OpInv

LEMMA PrepareKeepsLaunch ==
    ASSUME BuilderInv, LaunchInv, Prepare
    PROVE  LaunchInv' /\ AllPending' = AllPending \cup {Op("program", 0, <<>>)} /\ n = 0
<1> DEFINE op == Op("program", 0, <<>>)
<1>1. /\ phase = "preparing" /\ phase' = "translating" /\ UNCHANGED <<cmds, at, steps, handles>>
      /\ Enqueue(dev, op)
      /\ UNCHANGED <<split, cap, n, i, dev, batch, corr, mem, hostbuf, wrong>>
  BY DEF Prepare, ExecuteJobPreparationPlan
<1>2. LaunchTypeOK /\ BatchInv /\ SerialInv /\ OpInv /\ i = 0 /\ n = 0
  BY <1>1 DEF LaunchInv, LaunchTypeOK
<1>3. /\ op \in Operation /\ op.serial = serial /\ op.kind = "program" /\ op.corr = <<>>
      /\ op.launch = 0
  <2>1. <<>> \in Seq(Nat) /\ 0 \in Nat
    OBVIOUS
  <2>2. LaunchTypeOK /\ "program" \in {"program", "upload", "H2D", "D2H", "Compute"}
    BY <1>2
  <2>3. /\ op \in Operation /\ op.serial = serial /\ op.kind = "program" /\ op.corr = <<>>
        /\ op.launch = n
    BY <2>1, <2>2 DEF Op, Operation, LaunchTypeOK
  <2> QED
    BY <1>2, <2>3
<1>4. dev \in Streams /\ (~split => dev \in UntrackedStreams)
  BY <1>2 DEF LaunchTypeOK, Streams
<1> HIDE DEF op
<1>5. /\ queue' \in [Streams -> Seq(Operation)] /\ serial' \in Nat /\ SerialInv'
      /\ AllPending' = AllPending \cup {op}
  BY <1>1, <1>2, <1>3, <1>4, EnqueueAdds
<1>6. \A p \in AllPending : p.kind = "program" /\ OpOK(p)
  BY <1>1, <1>2 DEF OpInv, OpOK
<1>7. \A p \in AllPending' : OpOK(p)'
  BY <1>3, <1>5, <1>6 DEF OpOK
<1>8. LaunchTypeOK'
  BY <1>1, <1>2, <1>5 DEF LaunchTypeOK, Streams
<1>9. BatchInv'
  BY <1>1, <1>2 DEF BatchInv
<1> QED
  BY <1>2, <1>5, <1>7, <1>8, <1>9 DEF LaunchInv, OpInv, op

\* A launch that begins or ends leaves the operations alone and holds no
\* correction.
LEMMA LaunchBoundary ==
    ASSUME BuilderInv, LaunchInv,
           (\E s \in DevStreams : BeginLaunch(s)) \/ LaunchThrows \/ EndLaunch
    PROVE  LaunchInv' /\ UNCHANGED <<steps, phase, serial, queue, mem, wrong>> /\ i' \in {0, 1}
<1>1. batch \in BOOLEAN /\ n \in Nat /\ dev \in DevStreams /\ (~split => dev \in UntrackedStreams)
  BY DEF LaunchInv, LaunchTypeOK
<1>2. /\ UNCHANGED <<steps, phase, cap, split, serial, queue, mem, wrong>>
      /\ batch' \in BOOLEAN /\ corr' = <<>>
      /\ n' \in Nat /\ dev' \in DevStreams /\ (~split => dev' \in UntrackedStreams)
      /\ (i' = 0 /\ n' = n) \/ (i' = 1 /\ ~batch' /\ phase = "ready")
  <2>1. CASE LaunchThrows \/ EndLaunch
    BY <1>1, <2>1 DEF LaunchThrows, EndLaunch, builderVars
  <2>2. ASSUME NEW s \in DevStreams, BeginLaunch(s) PROVE
        /\ UNCHANGED <<steps, phase, cap, split, serial, queue, mem, wrong>>
        /\ batch' \in BOOLEAN /\ corr' = <<>>
        /\ n' \in Nat /\ dev' \in DevStreams /\ (~split => dev' \in UntrackedStreams)
        /\ i' = 1 /\ ~batch' /\ phase = "ready"
    <3>1. batch' = FALSE /\ batch' \in BOOLEAN
      BY <2>2, Zenon DEF BeginLaunch
    <3>2. dev' \in DevStreams /\ (~split => dev' \in UntrackedStreams)
      BY <2>2, StreamsAssumption DEF BeginLaunch
    <3>3. /\ UNCHANGED <<steps, phase, cap, split, serial, queue, mem, wrong>>
          /\ corr' = <<>> /\ n' \in Nat /\ i' = 1 /\ phase = "ready"
      BY <1>1, <2>2 DEF BeginLaunch, builderVars
    <3> QED
      BY <3>1, <3>2, <3>3
  <2> QED
    BY <2>1, <2>2
<1>3. Len(steps) \in Nat
  BY DEF BuilderInv, BuilderTypeOK
<1>4. LaunchTypeOK'
  BY <1>2, <1>3 DEF LaunchInv, LaunchTypeOK, Streams
<1>5. BatchInv'
  <2>1. CASE i' = 0
    BY <1>2, <2>1 DEF BatchInv
  <2>2. CASE i' = 1
    <3>1. Group(<<>>, 1, 1)'
      BY DEF Group, HostSteps
    <3> QED
      BY <1>2, <2>2, <3>1 DEF BatchInv
  <2> QED
    BY <1>2, <2>1, <2>2
<1>6. SerialInv'
  BY <1>2 DEF LaunchInv, SerialInv, Streams
<1>7. AllPending' = AllPending
  BY <1>2 DEF AllPending, Pending, Streams
<1>8. OpInv'
  BY <1>2, <1>7, OpFrame DEF LaunchInv, OpInv
<1> QED
  BY <1>2, <1>4, <1>5, <1>6, <1>8 DEF LaunchInv

\* What holds while a step of the plan is being submitted.
LEMMA RunningFacts ==
    ASSUME BuilderInv, LaunchInv, Running
    PROVE  /\ i \in 1 .. Len(steps) /\ i # 0 /\ i \in Nat /\ Len(steps) \in Nat /\ phase = "ready"
           /\ Step \in PlanStep /\ corr \in Seq(Nat)
BY DEF BuilderInv, BuilderTypeOK, LaunchInv, LaunchTypeOK, Running, Step

\* The operation of a host compute, transfer or compute step is in order.
LEMMA StepOpOK ==
    ASSUME BuilderInv, LaunchInv, Running, NEW op \in Operation, op.step = i,
           op.kind # "program", Step.kind = StepKind(op),
           IF op.kind = "Compute" THEN op.corr = corr ELSE op.corr = <<>>
    PROVE  OpOK(op)
<1>1. i \in 1 .. Len(steps) /\ i # 0 /\ phase = "ready" /\ i \in DOMAIN steps
  BY RunningFacts DEF Running
<1>2. op.kind = "Compute" => \E g \in 1 .. i : Group(corr, g, i) /\ i - g <= cap
  BY <1>1, HeldBack DEF StepKind, Step, BuilderInv, LaunchInv
<1> QED
  BY <1>1, <1>2 DEF OpOK, Step

\* Submitting the operation of a step that is not held back.
LEMMA StepSubmits ==
    ASSUME BuilderInv, LaunchInv, Running, NEW op \in Operation, op.step = i,
           op.kind # "program", Step.kind = StepKind(op), op.serial = serial,
           IF op.kind = "Compute" THEN op.corr = corr ELSE op.corr = <<>>,
           Enqueue(Target(Step), op), UNCHANGED <<builderVars, split, cap, n, dev, mem>>,
           i' = i + 1, batch' \in BOOLEAN, cap = 0 => ~batch', corr' = <<>>,
           Step.kind = "HostCompute" => ~batch'
    PROVE  LaunchInv' /\ AllPending' = AllPending \cup {op} /\ serial' = serial + 1
<1>1. OpOK(op)
  BY StepOpOK
<1>2. UNCHANGED <<steps, phase, cap, split>>
  BY DEF builderVars
<1>3. /\ queue' \in [Streams -> Seq(Operation)] /\ serial' = serial + 1 /\ serial' \in Nat
      /\ SerialInv' /\ OpInv' /\ AllPending' = AllPending \cup {op}
  BY <1>1, <1>2, TargetType, Submits DEF LaunchInv
<1>4. i \in 1 .. Len(steps) /\ Len(steps) \in Nat /\ phase = "ready"
  BY RunningFacts
<1>5. LaunchTypeOK'
  BY <1>2, <1>3, <1>4 DEF LaunchInv, LaunchTypeOK, Streams
<1>6. BatchInv'
  <2>0. PICK k \in Nat : k = i + 1
    BY <1>4
  <2>1. Group(<<>>, k, k)'
    BY DEF Group, HostSteps
  <2>2. ~StartsGroup(k)' => ~batch'
    BY <1>2, <1>4, <2>0 DEF StartsGroup, Step
  <2> QED
    BY <1>4, <2>0, <2>1, <2>2 DEF BatchInv
<1> QED
  BY <1>3, <1>5, <1>6 DEF LaunchInv
LEMMA HostComputeKeepsLaunch ==
    ASSUME BuilderInv, LaunchInv, ConstructHostCompute
    PROVE  /\ LaunchInv'
           /\ \/ /\ corr' = Append(corr, i) /\ UNCHANGED <<serial, queue>>
                 /\ AllPending' = AllPending
              \/ /\ corr = <<>> /\ corr' = <<>> /\ serial' = serial + 1
                 /\ AllPending' = AllPending \cup {Op("upload", i, <<>>)}
<1>1. /\ Running /\ Step.kind = "HostCompute" /\ batch' = BatchAt(i) /\ i' = i + 1
      /\ UNCHANGED <<builderVars, split, cap, n, dev, mem, hostbuf>>
      /\ IF BatchAt(i) THEN corr' = Append(corr, i) /\ UNCHANGED <<serial, queue>>
         ELSE Enqueue(Target(Step), Op("upload", i, <<>>)) /\ UNCHANGED corr
  BY DEF ConstructHostCompute
<1>2. /\ i \in 1 .. Len(steps) /\ Len(steps) \in Nat /\ phase = "ready" /\ corr \in Seq(Nat)
      /\ i \in Nat /\ UNCHANGED <<steps, phase>>
  BY <1>1, RunningFacts DEF builderVars
<1>3. /\ BatchAt(i) \in BOOLEAN /\ (cap = 0 => ~BatchAt(i))
      /\ BatchAt(i) => \E g \in 1 .. i : Group(corr, g, i) /\ Batchable(g)
      /\ ~BatchAt(i) => corr = <<>>
  BY <1>1, HostComputeBatch DEF BuilderInv, LaunchInv
<1>4. CASE BatchAt(i)
  <2>1. corr' = Append(corr, i) /\ UNCHANGED <<serial, queue>> /\ batch'
    BY <1>1, <1>4
  <2>2. PICK g \in 1 .. i : Group(corr, g, i) /\ Batchable(g)
    BY <1>3, <1>4
  <2>3. LaunchTypeOK'
    <3>1. corr' \in Seq(Nat) /\ i' \in 0 .. Len(steps') + 1
      BY <1>1, <1>2, <2>1
    <3>2. batch' \in BOOLEAN
      BY <1>1, <1>3
    <3> QED
      BY <1>1, <1>2, <2>1, <3>1, <3>2 DEF LaunchInv, LaunchTypeOK, Streams
  <2>4. BatchInv'
    <3>1. PICK k \in Nat : k = i + 1
      BY <1>2
    <3>2. /\ Append(corr, i) \in Seq(Nat) /\ Len(corr) \in Nat
          /\ Len(Append(corr, i)) = Len(corr) + 1 /\ Append(corr, i)[Len(corr) + 1] = i
          /\ \A c \in 1 .. Len(corr) : Append(corr, i)[c] = corr[c]
      BY <1>2
    <3>3. PICK cs : cs = Append(corr, i)
      BY Zenon
    <3>5. Group(cs, g, k)
      <4>1. HostSteps(g, k - 1)
        BY <1>1, <1>2, <2>2, <3>1, SMTT(30) DEF Group, HostSteps, Step
      <4>2. Len(cs) = k - g /\ \A c \in 1 .. k - g : cs[c] = g + c - 1
        <5>1. Len(corr) = i - g /\ \A c \in 1 .. i - g : corr[c] = g + c - 1
          BY <2>2 DEF Group
        <5>2. /\ Len(cs) = Len(corr) + 1 /\ cs[Len(corr) + 1] = i
              /\ \A c \in 1 .. Len(corr) : cs[c] = corr[c]
          BY <3>2, <3>3, Zenon
        <5>3. ASSUME NEW c \in 1 .. k - g PROVE cs[c] = g + c - 1
          <6>1. c = Len(corr) + 1 \/ c \in 1 .. Len(corr)
            BY <1>2, <3>1, <5>1
          <6>2. CASE c = Len(corr) + 1
            BY <1>2, <5>1, <5>2, <6>2
          <6>3. CASE c \in 1 .. Len(corr)
            BY <5>1, <5>2, <6>3
          <6> QED
            BY <6>1, <6>2, <6>3
        <5> QED
          BY <1>2, <3>1, <5>1, <5>2, <5>3
      <4> QED
        BY <4>1, <4>2 DEF Group
    <3>4. Group(cs, g, k)' /\ Batchable(g)'
      BY <1>1, <1>2, <2>2, <3>5, ZenonT(60) DEF Group, HostSteps, Batchable, GroupEnd
    <3> QED
      BY <1>1, <1>2, <1>3, <2>1, <3>1, <3>3, <3>4 DEF BatchInv
  <2>5. SerialInv'
    BY <1>1, <2>1 DEF LaunchInv, SerialInv, Streams
  <2>6. AllPending' = AllPending
    BY <2>1 DEF AllPending, Pending, Streams
  <2>7. OpInv'
    BY <1>1, <1>2, <2>6, OpFrame DEF LaunchInv, OpInv
  <2> QED
    BY <2>1, <2>3, <2>4, <2>5, <2>6, <2>7 DEF LaunchInv
<1>5. CASE ~BatchAt(i)
  <2> DEFINE op == Op("upload", i, <<>>)
  <2>1. Enqueue(Target(Step), op) /\ corr = <<>> /\ corr' = <<>> /\ ~batch' /\ batch' \in BOOLEAN
    BY <1>1, <1>3, <1>5
  <2>2. <<>> \in Seq(Nat)
    OBVIOUS
  <2>3. /\ op \in Operation /\ op.serial = serial /\ op.kind = "upload" /\ op.step = i
        /\ op.corr = <<>>
    BY <1>2, <2>2 DEF LaunchInv, LaunchTypeOK, Op, Operation
  <2>4. Step.kind = StepKind(op)
    BY <1>1, <2>3 DEF StepKind
  <2> HIDE DEF op
  <2>5. LaunchInv' /\ AllPending' = AllPending \cup {op} /\ serial' = serial + 1
    BY <1>1, <2>1, <2>3, <2>4, StepSubmits
  <2> QED
    BY <2>1, <2>5 DEF op
<1> QED
  BY <1>3, <1>4, <1>5

LEMMA TransferKeepsLaunch ==
    ASSUME BuilderInv, LaunchInv, ConstructTransfer
    PROVE  /\ LaunchInv' /\ serial' = serial + 1 /\ corr = <<>> /\ corr' = <<>>
           /\ AllPending' = AllPending \cup {Op(Step.kind, i, <<>>)}
<1> DEFINE op == Op(Step.kind, i, <<>>)
<1>1. /\ Running /\ Step.kind \in {"H2D", "D2H"} /\ Enqueue(Target(Step), op) /\ i' = i + 1
      /\ UNCHANGED <<builderVars, split, cap, n, dev, batch, corr, mem, hostbuf, wrong>>
  BY DEF ConstructTransfer
<1>2. /\ i \in 1 .. Len(steps) /\ i \in Nat /\ i # 0
  BY <1>1, RunningFacts
<1>3. corr = <<>>
  BY <1>1, <1>2, HeldBack DEF Step, BuilderInv, LaunchInv
<1>4. batch \in BOOLEAN /\ (cap = 0 => ~batch)
  BY <1>2, ZenonT(60) DEF LaunchInv, LaunchTypeOK, BatchInv
<1>5. <<>> \in Seq(Nat)
  OBVIOUS
<1>6. /\ op \in Operation /\ op.serial = serial /\ op.kind = Step.kind /\ op.step = i
      /\ op.corr = <<>>
  BY <1>1, <1>2, <1>5, ZenonT(60) DEF LaunchInv, LaunchTypeOK, Op, Operation
<1>7. Step.kind = StepKind(op)
  BY <1>1, <1>6, ZenonT(60) DEF StepKind
<1> HIDE DEF op
<1>8. LaunchInv' /\ AllPending' = AllPending \cup {op} /\ serial' = serial + 1
  BY <1>1, <1>3, <1>4, <1>6, <1>7, StepSubmits
<1> QED
  BY <1>1, <1>3, <1>8 DEF op

LEMMA ComputeKeepsLaunch ==
    ASSUME BuilderInv, LaunchInv, ConstructCompute
    PROVE  /\ LaunchInv' /\ serial' = serial + 1 /\ corr' = <<>>
           /\ AllPending' = AllPending \cup {Op("Compute", i, corr)}
<1> DEFINE op == Op("Compute", i, corr)
<1>1. /\ Running /\ Step.kind = "Compute" /\ Enqueue(Target(Step), op) /\ i' = i + 1
      /\ corr' = <<>> /\ UNCHANGED <<builderVars, split, cap, n, dev, batch, mem, hostbuf, wrong>>
  BY DEF ConstructCompute
<1>2. /\ i \in 1 .. Len(steps) /\ i \in Nat /\ i # 0 /\ corr \in Seq(Nat)
  BY <1>1, RunningFacts
<1>4. batch \in BOOLEAN /\ (cap = 0 => ~batch)
  BY <1>2, ZenonT(60) DEF LaunchInv, LaunchTypeOK, BatchInv
<1>6. /\ op \in Operation /\ op.serial = serial /\ op.kind = "Compute" /\ op.step = i
      /\ op.corr = corr
  BY <1>1, <1>2 DEF LaunchInv, LaunchTypeOK, Op, Operation
<1>7. Step.kind = StepKind(op)
  BY <1>1, <1>6 DEF StepKind
<1> HIDE DEF op
<1>8. LaunchInv' /\ AllPending' = AllPending \cup {op} /\ serial' = serial + 1
  BY <1>1, <1>4, <1>6, <1>7, StepSubmits
<1> QED
  BY <1>1, <1>8 DEF op
LEMMA ExecuteKeepsLaunch ==
    ASSUME BuilderInv, LaunchInv, NEW s \in Streams, Execute(s)
    PROVE  LaunchInv' /\ AllPending' = AllPending \ {Head(queue[s])} /\ Head(queue[s]) \in AllPending
<1>1. /\ queue[s] # <<>> /\ queue' = [queue EXCEPT ![s] = Tail(@)]
      /\ UNCHANGED <<builderVars, split, cap, n, i, dev, batch, corr, serial>>
  BY DEF Execute, Ready
<1>2. UNCHANGED <<steps, phase>>
  BY <1>1 DEF builderVars
<1>3. /\ queue' \in [Streams -> Seq(Operation)] /\ SerialInv' /\ Head(queue[s]) \in AllPending
      /\ AllPending' = AllPending \ {Head(queue[s])}
  BY <1>1, ExecuteRemoves, Zenon DEF LaunchInv
<1>4. DOMAIN mem' = Locations
  <2>1. DOMAIN mem = Locations
    BY DEF LaunchInv, LaunchTypeOK
  <2>2. ASSUME NEW op, RunCompute(op) PROVE DOMAIN mem' = Locations
    <3>1. PICK seen : seen = Corrected(op)
      BY Zenon
    <3>2. DOMAIN seen = Locations /\ mem' = [seen EXCEPT !["output"] = <<op.launch, op.step>>]
      BY <2>2, <3>1, Zenon DEF RunCompute, Corrected
    <3> QED
      BY <3>2
  <2>3. ASSUME NEW op, RunUpload(op) PROVE DOMAIN mem' = Locations
    BY <2>1, <2>3 DEF RunUpload
  <2>4. ASSUME NEW op, RunDownload(op) PROVE DOMAIN mem' = Locations
    BY <2>1, <2>4 DEF RunDownload
  <2> QED
    BY <2>2, <2>3, <2>4 DEF Execute
<1>5. LaunchTypeOK'
  BY <1>1, <1>2, <1>3, <1>4 DEF LaunchInv, LaunchTypeOK, Streams, Locations
<1>6. BatchInv'
  BY <1>1, <1>2, Zenon DEF LaunchInv, BatchInv, Group, HostSteps, Batchable, GroupEnd, StartsGroup
<1>7. OpInv'
  BY <1>1, <1>2, <1>3, OpFrame DEF LaunchInv, OpInv
<1> QED
  BY <1>3, <1>5, <1>6, <1>7 DEF LaunchInv

-----------------------------------------------------------------------------
(* The invariant holds *)

LEMMA BuilderStep == ASSUME BuilderInv, [Next]_vars PROVE BuilderInv'
<1>1. CASE UNCHANGED <<cmds, at, steps, handles, phase>>
  BY <1>1, BuilderFrame DEF BuilderInv, BuilderTypeOK
<1>2. CASE Prepare \/ Build
  BY <1>2, TranslateKeeps DEF Prepare, Build
<1>3. ASSUME NEW s \in DevStreams, BeginLaunch(s) PROVE UNCHANGED <<cmds, at, steps, handles, phase>>
  BY <1>3 DEF BeginLaunch, builderVars
<1>4. ASSUME NEW s \in Streams, Execute(s) PROVE UNCHANGED <<cmds, at, steps, handles, phase>>
  BY <1>4 DEF Execute, builderVars
<1>5. CASE ConstructHostCompute \/ ConstructTransfer \/ ConstructCompute \/ LaunchThrows \/ EndLaunch
  <2>1. UNCHANGED <<cmds, at, steps, handles, phase>>
    BY <1>5, ZenonT(60) DEF ConstructHostCompute, ConstructTransfer, ConstructCompute, LaunchThrows, EndLaunch,
                builderVars
  <2> QED
    BY <1>1, <2>1, ZenonT(60)
<1>6. CASE UNCHANGED vars
  BY <1>1, <1>6 DEF vars, builderVars
<1> QED
  BY <1>1, <1>2, <1>3, <1>4, <1>5, <1>6 DEF Next

LEMMA LaunchStep == ASSUME BuilderInv, LaunchInv, [Next]_vars PROVE LaunchInv'
<1>1. CASE Prepare
  BY <1>1, PrepareKeepsLaunch
<1>2. CASE Build
  BY <1>2, BuilderStep, BuildKeepsLaunch DEF Next
<1>3. CASE (\E s \in DevStreams : BeginLaunch(s)) \/ LaunchThrows \/ EndLaunch
  BY <1>3, LaunchBoundary
<1>4. CASE ConstructHostCompute
  BY <1>4, HostComputeKeepsLaunch
<1>5. CASE ConstructTransfer
  BY <1>5, TransferKeepsLaunch
<1>6. CASE ConstructCompute
  BY <1>6, ComputeKeepsLaunch
<1>7. ASSUME NEW s \in Streams, Execute(s) PROVE LaunchInv'
  BY <1>7, ExecuteKeepsLaunch
<1>8. CASE UNCHANGED vars
  <2>1. /\ UNCHANGED <<steps, phase, cap, split, serial, queue, mem, n, i, dev, batch, corr>>
    BY <1>8 DEF vars, builderVars, launchVars
  <2>2. LaunchTypeOK'
    BY <2>1 DEF LaunchInv, LaunchTypeOK, Streams
  <2>3. BatchInv'
    BY <2>1, Zenon DEF LaunchInv, BatchInv, Group, HostSteps, Batchable, GroupEnd, StartsGroup
  <2>4. SerialInv'
    BY <2>1 DEF LaunchInv, SerialInv, Streams
  <2>5. AllPending' = AllPending
    BY <2>1 DEF AllPending, Pending, Streams
  <2>6. OpInv'
    BY <2>1, <2>5, OpFrame DEF LaunchInv, OpInv
  <2> QED
    BY <2>2, <2>3, <2>4, <2>6 DEF LaunchInv
<1> QED
  BY <1>1, <1>2, <1>3, <1>4, <1>5, <1>6, <1>7, <1>8 DEF Next

\* BuilderInv and LaunchInv hold in every reachable state of the builder and
\* of SpyreStream::launch.
LEMMA LaunchInvariant == Spec => [](BuilderInv /\ LaunchInv)
<1>1. Init => BuilderInv /\ LaunchInv
  BY BuilderStarts, LaunchStarts DEF Init
<1>2. (BuilderInv /\ LaunchInv) /\ [Next]_vars => (BuilderInv /\ LaunchInv)'
  BY BuilderStep, LaunchStep
<1> QED
  BY <1>1, <1>2, PTL DEF Spec

\* JobPlanBuilder gives every pinned buffer of a plan one producer, for every
\* execution plan.
THEOREM BuildersProduceOnce == Spec => []OneProducer
<1>1. BuilderInv => OneProducer
  BY DEF BuilderInv
<1> QED
  BY <1>1, LaunchInvariant, PTL

\* launch holds no correction when it has submitted the last step, so the check
\* at its end never fires, for every plan and every limit of the runtime.
THEOREM NoCorrectionLeft == Spec => []NoOrphanCorrection
<1>1. BuilderInv /\ LaunchInv => NoOrphanCorrection
  <2> SUFFICES ASSUME BuilderInv, LaunchInv, i > Len(steps) PROVE corr = <<>>
    BY DEF NoOrphanCorrection
  <2>1. i \in Nat /\ Len(steps) \in Nat
    BY DEF LaunchInv, LaunchTypeOK, BuilderInv, BuilderTypeOK
  <2> QED
    BY <2>1, HeldBack DEF LaunchInv, BuilderInv, BatchInv
<1> QED
  BY <1>1, LaunchInvariant, PTL

\* A compute carries at most max_corrections corrections, all of the group of
\* host computes right before it.
THEOREM CorrectionsWithinLimit == Spec => []CorrectionsFit
<1>1. BuilderInv /\ LaunchInv => CorrectionsFit
  <2> SUFFICES ASSUME BuilderInv, LaunchInv, NEW s \in Streams, NEW op \in Pending(s)
               PROVE  /\ Len(op.corr) <= cap
                      /\ \A c \in DOMAIN op.corr :
                            op.corr[c] < op.step /\
                            \A j \in op.corr[c] .. op.step - 1 : steps[j].kind = "HostCompute"
    BY DEF CorrectionsFit
  <2>1. op \in AllPending
    BY DEF AllPending
  <2>2. op \in Operation /\ OpOK(op) /\ cap \in Nat
    BY <2>1, SerialsDiffer DEF LaunchInv, OpInv, LaunchTypeOK
  <2>3. op.corr \in Seq(Nat) /\ op.step \in Nat
    BY <2>2, OperationFields
  <2>4. CASE op.kind # "Compute"
    BY <2>2, <2>4 DEF OpOK
  <2>5. CASE op.kind = "Compute"
    <3>1. PICK g \in 1 .. op.step : Group(op.corr, g, op.step) /\ op.step - g <= cap
      BY <2>2, <2>5 DEF OpOK
    <3>2. /\ Len(op.corr) = op.step - g /\ DOMAIN op.corr = 1 .. op.step - g
          /\ \A c \in 1 .. op.step - g : op.corr[c] = g + c - 1
      BY <2>3, <3>1 DEF Group
    <3>3. \A j \in g .. op.step - 1 : steps[j].kind = "HostCompute"
      BY <3>1 DEF Group, HostSteps
    <3>4. \A c \in DOMAIN op.corr : op.corr[c] < op.step /\ op.corr[c] \in Nat /\ op.corr[c] >= g
      BY <2>3, <3>2, SMTT(30)
    <3> QED
      BY <2>2, <2>3, <3>1, <3>2, <3>3, <3>4, SMTT(30)
  <2> QED
    BY <2>4, <2>5
<1> QED
  BY <1>1, LaunchInvariant, PTL

\* The pending operation that was submitted first can always run, so the two
\* streams of a launch never wait for each other in a circle.
THEOREM SomeStreamRuns == Spec => []NoCircularWait
<1>1. LaunchInv => NoCircularWait
  <2> SUFFICES ASSUME LaunchInv, NEW u \in Streams, queue[u] # <<>>
               PROVE  \E s \in Streams : Ready(s)
    BY DEF NoCircularWait
  <2>1. \A s \in Streams : queue[s] \in Seq(Operation)
    BY DEF LaunchInv, LaunchTypeOK
  <2>2. \A s \in Streams : \A a \in DOMAIN queue[s] :
            queue[s][a] \in AllPending /\ queue[s][a].serial \in Nat /\ a \in Nat /\ a >= 1
    <3> SUFFICES ASSUME NEW s \in Streams, NEW a \in DOMAIN queue[s]
                 PROVE  queue[s][a] \in AllPending /\ queue[s][a].serial \in Nat /\ a \in Nat /\ a >= 1
      OBVIOUS
    <3>1. queue[s] \in Seq(Operation)
      BY <2>1
    <3>2. queue[s][a] \in Operation /\ a \in Nat /\ a >= 1
      BY <3>1
    <3> QED
      BY <3>2, OperationFields, PendingDef
  <2>3. \A s \in Streams : queue[s] # <<>> => 1 \in DOMAIN queue[s] /\ Head(queue[s]) = queue[s][1]
    BY <2>1
  <2>4. \A s \in Streams : \A a \in DOMAIN queue[s] : queue[s] # <<>>
    BY <2>1
  <2> DEFINE N == {m \in Nat : \E s \in Streams : \E a \in DOMAIN queue[s] : m = queue[s][a].serial}
  <2>5. queue[u][1].serial \in N
    BY <2>2, <2>3
  <2>6. PICK m \in N : \A k \in N : m <= k
    BY <2>5, Least, Zenon
  <2>7. PICK s \in Streams : \E a \in DOMAIN queue[s] : m = queue[s][a].serial
    BY <2>6
  <2>8. PICK a \in DOMAIN queue[s] : m = queue[s][a].serial
    BY <2>7
  <2>9. \A t \in Streams : \A b \in DOMAIN queue[t] : m <= queue[t][b].serial
    BY <2>2, <2>6, ZenonT(60)
  <2>10. queue[s] # <<>> /\ 1 \in DOMAIN queue[s] /\ Head(queue[s]) = queue[s][1]
    BY <2>3, <2>4, <2>8, ZenonT(60)
  <2>11. a = 1
    <3>1. a > 1 => queue[s][1].serial < queue[s][a].serial
      BY <2>2, <2>10 DEF LaunchInv, SerialInv
    <3> QED
      BY <2>2, <2>8, <2>9, <2>10, <3>1
  <2>12. \A t \in Streams : \A p \in Pending(t) : ~(p.serial < m)
    <3> SUFFICES ASSUME NEW t \in Streams, NEW b \in DOMAIN queue[t] PROVE ~(queue[t][b].serial < m)
      BY Zenon DEF Pending
    <3> QED
      BY <2>2, <2>9
  <2> HIDE DEF N
  <2>13. Ready(s)
    BY <2>8, <2>10, <2>11, <2>12 DEF Ready
  <2> QED
    BY <2>13
<1> QED
  BY <1>1, LaunchInvariant, PTL
================================================================================
