--------------------------- MODULE KernelLaunchReads ---------------------------
(***************************************************************************)
(* Proof that the operations of KernelLaunch read what the plan says,      *)
(* although launches only submit them and the device runs them later.      *)
(***************************************************************************)
EXTENDS KernelLaunchProofs

\* Without the hazard tracker one stream runs everything.
SingleUntracked == \A s, t \in UntrackedStreams : s = t

-----------------------------------------------------------------------------
(* What the pending operations will leave in device memory *)

\* Running op leaves v in location l.
Leaves(op, l, v) ==
    \/ op.kind = "program" /\ l = "program" /\ v = <<op.launch, 1>>
    \/ op.kind \in {"upload", "H2D"} /\ l = steps[op.step].dev /\ v = <<op.launch, op.step>>
    \/ op.kind = "Compute" /\ l = "output" /\ v = <<op.launch, op.step>>
    \/ /\ op.kind = "Compute"
       /\ \E c \in DOMAIN op.corr :
             /\ steps[op.corr[c]].dev = l /\ v = <<op.launch, op.corr[c]>>
             /\ \A d \in DOMAIN op.corr : steps[op.corr[d]].dev = l => d <= c

\* Once the operations numbered below x are done, location l holds v: the last
\* of them that writes l leaves v there or, when none does, v is there already.
WillHold(l, x, v) ==
    \/ mem[l] = v /\ \A p \in AllPending : p.serial < x => l \notin OpWrites(p)
    \/ \E p \in AllPending :
          /\ p.serial < x /\ l \in OpWrites(p) /\ Leaves(p, l, v)
          /\ \A q \in AllPending : q.serial < x /\ l \in OpWrites(q) => q.serial <= p.serial

\* w is the last step before k that writes l.
LastWriter(w, k, l) == w \in Writers(k, l) /\ \A o \in Writers(k, l) : o <= w

Carried(cs, l) == \E c \in DOMAIN cs : steps[cs[c]].dev = l

\* Step k of launch m, submitted as operation x with corrections cs, will find
\* in l what the plan says, unless it brings it itself.
WillFind(m, k, cs, x, l) ==
    \A w \in Writers(k, l) : LastWriter(w, k, l) /\ ~Carried(cs, l) => WillHold(l, x, <<m, w>>)

\* The pending operations, and the next one to be submitted, will read what
\* the plan says.
ReadsOK(op) ==
    \A l \in OpReads(op) :
        IF l = "program" THEN WillHold(l, op.serial, <<0, 1>>)
        ELSE WillFind(op.launch, op.step, op.corr, op.serial, l)

ProgramOK == phase \in {"translating", "ready"} => WillHold("program", serial, <<0, 1>>)

NextOK == i # 0 => \A l \in Regions \cup {"output"} : WillFind(n, i, corr, serial, l)

ReadInv ==
    /\ \A op \in AllPending : ReadsOK(op)
    /\ ProgramOK /\ NextOK
    /\ DeviceReadsInOrder

-----------------------------------------------------------------------------
(* What steps and operations read and write, by kind *)

LEMMA WritesOfKind ==
    ASSUME NEW step
    PROVE  /\ step.kind = "Compute" => WritesOf(step) = {"output"}
           /\ step.kind \in {"HostCompute", "H2D"} => WritesOf(step) = {step.dev}
           /\ step.kind = "D2H" => WritesOf(step) = {step.handle}
BY Zenon DEF WritesOf

LEMMA OpMemory ==
    ASSUME NEW op
    PROVE  /\ op.kind = "Compute" => OpReads(op) = Regions \cup {"program"}
           /\ op.kind = "D2H" => OpReads(op) = {"output"} /\ OpWrites(op) = {}
           /\ op.kind \in {"program", "upload", "H2D"} => OpReads(op) = {}
           /\ op.kind = "program" => OpWrites(op) = {"program"}
           /\ op.kind \in {"upload", "H2D"} => OpWrites(op) = {steps[op.step].dev}
<1>1. /\ op.kind = "Compute" => OpReads(op) = Regions \cup {"program"}
      /\ op.kind = "D2H" => OpReads(op) = {"output"}
      /\ op.kind \in {"program", "upload", "H2D"} => OpReads(op) = {}
  BY Zenon DEF OpReads
<1>2. /\ op.kind = "D2H" => OpWrites(op) = {}
      /\ op.kind = "program" => OpWrites(op) = {"program"}
      /\ op.kind \in {"upload", "H2D"} => OpWrites(op) = {steps[op.step].dev}
  BY Zenon DEF OpWrites
<1> QED
  BY <1>1, <1>2

LEMMA ComputeWrites ==
    ASSUME NEW op, op.kind = "Compute"
    PROVE  \A l : l \in OpWrites(op) <=> l = "output" \/ Carried(op.corr, l)
<1>1. OpWrites(op) = {"output"} \cup {steps[op.corr[c]].dev : c \in DOMAIN op.corr}
  BY Zenon DEF OpWrites
<1> QED
  BY <1>1 DEF Carried

\* An operation writes the locations it leaves something in.
LEMMA LeavesWrites ==
    ASSUME NEW op, NEW l, NEW v, Leaves(op, l, v)
    PROVE  l \in OpWrites(op)
BY OpMemory, ComputeWrites DEF Leaves, Carried

-----------------------------------------------------------------------------
(* The last writer of a location *)

\* A value that is the one of the last writer is what Expected asks for.
LEMMA ExpectedFrom ==
    ASSUME NEW m, NEW k \in Nat, NEW l, NEW v,
           \A w \in Writers(k, l) : LastWriter(w, k, l) => v = <<m, w>>
    PROVE  Expected(m, k, l, v)
<1> DEFINE W == Writers(k, l)
<1>1. W \subseteq 0 .. k
  BY DEF Writers
<1>2. SUFFICES ASSUME W # {} PROVE v = <<m, CHOOSE j \in W : \A o \in W : o <= j>>
  BY DEF Expected
<1>3. PICK w \in W : \A o \in W : o <= w
  BY <1>1, <1>2, Greatest
<1>4. v = <<m, w>>
  BY <1>3 DEF LastWriter
<1>5. \A j \in W : (\A o \in W : o <= j) => j = w
  BY <1>1, <1>3
<1>6. (CHOOSE j \in W : \A o \in W : o <= j) = w
  <2> HIDE DEF W
  <2> QED
    BY <1>3, <1>5
<1> QED
  BY <1>4, <1>6

\* The last correction for a region that a compute carries comes from the last
\* writer of that region.
LEMMA CarriedLast ==
    ASSUME BuilderInv, NEW k \in 1 .. Len(steps), NEW cs \in Seq(Nat), NEW g \in 1 .. k,
           Group(cs, g, k), NEW l, NEW c \in DOMAIN cs, steps[cs[c]].dev = l,
           \A d \in DOMAIN cs : steps[cs[d]].dev = l => d <= c
    PROVE  cs[c] \in Writers(k, l) /\ \A o \in Writers(k, l) : o <= cs[c]
<1>1. /\ Len(steps) \in Nat /\ Len(cs) = k - g /\ DOMAIN cs = 1 .. k - g /\ k \in Nat /\ g \in Nat
      /\ \A d \in 1 .. k - g : cs[d] = g + d - 1
      /\ \A j \in g .. k - 1 : steps[j].kind = "HostCompute"
  BY DEF Group, HostSteps, BuilderInv, BuilderTypeOK
<1>2. cs[c] \in g .. k - 1 /\ cs[c] \in 1 .. k - 1 /\ c \in Nat
  BY <1>1
<1>3. \A j \in g .. k - 1 : WritesOf(steps[j]) = {steps[j].dev}
  BY <1>1, WritesOfKind, ZenonT(60)
<1>4. cs[c] \in Writers(k, l)
  BY <1>2, <1>3, Zenon DEF Writers
<1>5. ASSUME NEW o \in Writers(k, l) PROVE o <= cs[c]
  <2>1. o \in 1 .. k - 1 /\ l \in WritesOf(steps[o])
    BY DEF Writers
  <2>2. CASE o < g
    BY <1>1, <1>2, <2>1, <2>2
  <2>3. CASE o >= g
    <3>1. steps[o].dev = l
      <4>1. o \in g .. k - 1
        BY <1>1, <2>1, <2>3
      <4>2. WritesOf(steps[o]) = {steps[o].dev}
        BY <1>3, <4>1, Zenon
      <4> QED
        BY <2>1, <4>2, Zenon
    <3>2. PICK d \in 1 .. k - g : d = o - g + 1
      BY <1>1, <2>1, <2>3
    <3>3. cs[d] = o
      BY <1>1, <2>1, <3>2
    <3>4. d <= c
      BY <1>1, <3>1, <3>3, Zenon
    <3> QED
      BY <1>1, <1>2, <2>1, <3>2, <3>4
  <2> QED
    BY <1>1, <2>1, <2>2, <2>3
<1> QED
  BY <1>4, <1>5

\* ... and there is one when any is carried.
LEMMA LastCarried ==
    ASSUME NEW cs \in Seq(Nat), NEW l, Carried(cs, l)
    PROVE  \E c \in DOMAIN cs : /\ steps[cs[c]].dev = l
                                /\ \A d \in DOMAIN cs : steps[cs[d]].dev = l => d <= c
<1> DEFINE C == {c \in DOMAIN cs : steps[cs[c]].dev = l}
<1>1. C \subseteq 0 .. Len(cs) /\ Len(cs) \in Nat
  OBVIOUS
<1>2. C # {}
  BY DEF Carried
<1>3. PICK c \in C : \A d \in C : d <= c
  <2> HIDE DEF C
  <2> QED
    BY <1>1, <1>2, Greatest, Zenon
<1> QED
  BY <1>3

\* Two last writers are the same.
LEMMA LastUnique ==
    ASSUME NEW k \in Nat, NEW l, NEW w, NEW x, LastWriter(w, k, l), LastWriter(x, k, l)
    PROVE  w = x
BY DEF LastWriter, Writers

-----------------------------------------------------------------------------
(* WillHold from one state to the next *)

LEMMA MemoryFrame ==
    ASSUME UNCHANGED steps
    PROVE  /\ \A op : OpReads(op)' = OpReads(op) /\ OpWrites(op)' = OpWrites(op)
           /\ \A op, l, v : Leaves(op, l, v)' <=> Leaves(op, l, v)
           /\ \A w, k, l : LastWriter(w, k, l)' <=> LastWriter(w, k, l)
           /\ \A k, l : Writers(k, l)' = Writers(k, l)
           /\ \A cs, l : Carried(cs, l)' <=> Carried(cs, l)
<1>1. ASSUME NEW op PROVE OpReads(op)' = OpReads(op) /\ OpWrites(op)' = OpWrites(op)
  BY Zenon DEF OpReads, OpWrites
<1>2. ASSUME NEW op, NEW l, NEW v PROVE Leaves(op, l, v)' <=> Leaves(op, l, v)
  BY DEF Leaves
<1>3. ASSUME NEW k, NEW l PROVE Writers(k, l)' = Writers(k, l)
  BY Zenon DEF Writers, WritesOf
<1>4. ASSUME NEW cs, NEW l PROVE Carried(cs, l)' <=> Carried(cs, l)
  BY DEF Carried
<1>5. ASSUME NEW w, NEW k, NEW l PROVE LastWriter(w, k, l)' <=> LastWriter(w, k, l)
  BY <1>3 DEF LastWriter
<1> QED
  BY <1>1, <1>2, <1>3, <1>4, <1>5

\* Submitting an operation changes nothing for the ones before it, ...
LEMMA HoldsBefore ==
    ASSUME UNCHANGED <<steps, mem>>, NEW op, op.serial = serial, serial \in Nat,
           AllPending' = AllPending \cup {op}, NEW l, NEW x \in Nat, x <= serial, NEW v,
           WillHold(l, x, v)
    PROVE  WillHold(l, x, v)'
<1>1. ~(op.serial < x)
  OBVIOUS
<1>2. \A p \in AllPending' : p.serial < x => p \in AllPending
  BY <1>1
<1>3. \A p : OpWrites(p)' = OpWrites(p) /\ (Leaves(p, l, v)' <=> Leaves(p, l, v))
  BY MemoryFrame
<1> QED
  BY <1>2, <1>3 DEF WillHold

\* ... and what was to be in a location stays there unless the new one writes
\* it; then it is what the new one leaves.
LEMMA HoldsAfter ==
    ASSUME UNCHANGED <<steps, mem>>, NEW op, op.serial = serial, serial \in Nat,
           AllPending' = AllPending \cup {op}, \A p \in AllPending : p.serial \in Nat /\ p.serial < serial,
           NEW l, NEW v, NEW x \in Nat, x = serial + 1,
           Leaves(op, l, v) \/ (l \notin OpWrites(op) /\ WillHold(l, serial, v))
    PROVE  WillHold(l, x, v)'
<1>1. \A p : OpWrites(p)' = OpWrites(p) /\ (Leaves(p, l, v)' <=> Leaves(p, l, v))
  BY MemoryFrame
<1>2. \A p \in AllPending : p.serial < x /\ p.serial < serial /\ p.serial <= op.serial
  OBVIOUS
<1>3. op.serial < x /\ op.serial <= op.serial
  OBVIOUS
<1>4. CASE Leaves(op, l, v)
  <2>1. l \in OpWrites(op)
    BY <1>4, LeavesWrites
  <2> QED
    BY <1>1, <1>2, <1>3, <1>4, <2>1 DEF WillHold
<1>5. CASE l \notin OpWrites(op) /\ WillHold(l, serial, v)
  BY <1>1, <1>2, <1>5 DEF WillHold
<1> QED
  BY <1>4, <1>5
-----------------------------------------------------------------------------
(* Submitting *)

\* An operation that keeps finding what it needs.
LEMMA ReadsFrame ==
    ASSUME NEW p, UNCHANGED steps, ReadsOK(p),
           \A l, v : l \in OpReads(p) /\ WillHold(l, p.serial, v) => WillHold(l, p.serial, v)'
    PROVE  ReadsOK(p)'
<1> SUFFICES ASSUME NEW l \in OpReads(p)
             PROVE  IF l = "program" THEN WillHold(l, p.serial, <<0, 1>>)'
                    ELSE WillFind(p.launch, p.step, p.corr, p.serial, l)'
  BY MemoryFrame DEF ReadsOK
<1>1. CASE l = "program"
  BY <1>1 DEF ReadsOK
<1>2. CASE l # "program"
  <2>1. WillFind(p.launch, p.step, p.corr, p.serial, l)
    BY <1>2 DEF ReadsOK
  <2>2. /\ Writers(p.step, l)' = Writers(p.step, l)
        /\ \A w : LastWriter(w, p.step, l)' <=> LastWriter(w, p.step, l)
        /\ Carried(p.corr, l)' <=> Carried(p.corr, l)
    BY MemoryFrame
  <2> QED
    BY <1>2, <2>1, <2>2 DEF WillFind
<1> QED
  BY <1>1, <1>2

\* The operation of the next step finds what its launch put there, ...
LEMMA NewOpReads ==
    ASSUME BuilderInv, LaunchInv, ReadInv, Running, NEW op \in Operation, op.step = i,
           op.launch = n, op.serial = serial, op.kind # "program", Step.kind = StepKind(op),
           op.corr = corr, UNCHANGED <<steps, mem>>, AllPending' = AllPending \cup {op}
    PROVE  ReadsOK(op)'
<1>1. i # 0 /\ phase = "ready" /\ serial \in Nat
  BY RunningFacts DEF LaunchInv, LaunchTypeOK
<1>2. \A l, v : WillHold(l, serial, v) => WillHold(l, op.serial, v)'
  BY <1>1, HoldsBefore
<1>3. ReadsOK(op)
  <2> SUFFICES ASSUME NEW l \in OpReads(op)
               PROVE  IF l = "program" THEN WillHold(l, serial, <<0, 1>>)
                      ELSE WillFind(n, i, corr, serial, l)
    BY DEF ReadsOK
  <2>1. l = "program" \/ l \in Regions \cup {"output"}
    BY OpMemory, OperationFields
  <2> QED
    BY <1>1, <2>1 DEF ReadInv, ProgramOK, NextOK
<1> QED
  BY <1>2, <1>3, ReadsFrame

\* ... and leaves for the steps after it what they expect.
LEMMA NewOpLeaves ==
    ASSUME BuilderInv, LaunchInv, ReadInv, Running, NEW op \in Operation, op.step = i,
           op.launch = n, op.serial = serial, op.kind # "program", Step.kind = StepKind(op),
           op.corr = corr, op.kind # "Compute" => corr = <<>>,
           UNCHANGED <<steps, mem, n>>, AllPending' = AllPending \cup {op},
           NEW l \in Regions \cup {"output"}, NEW k \in Nat, k = i + 1,
           NEW w \in Writers(k, l), LastWriter(w, k, l), NEW x \in Nat, x = serial + 1
    PROVE  WillHold(l, x, <<n, w>>)'
<1>1. /\ i \in 1 .. Len(steps) /\ Len(steps) \in Nat /\ i \in Nat /\ i # 0 /\ phase = "ready"
      /\ Step \in PlanStep /\ corr \in Seq(Nat)
  BY RunningFacts
<1>2. /\ w \in 1 .. i /\ l \in WritesOf(steps[w])
      /\ \A o \in 1 .. i : l \in WritesOf(steps[o]) => o <= w
  BY <1>1 DEF LastWriter, Writers
<1>3. serial \in Nat /\ \A p \in AllPending : p.serial \in Nat /\ p.serial < serial
  BY SerialsDiffer, OperationFields DEF LaunchInv, LaunchTypeOK
<1>4. /\ op.kind \in {"upload", "H2D", "D2H", "Compute"}
      /\ op.kind = "upload" => Step.kind = "HostCompute"
      /\ op.kind # "upload" => Step.kind = op.kind
  BY OperationFields DEF StepKind
<1>5. /\ op.kind \in {"upload", "H2D"} => WritesOf(Step) = {Step.dev} /\ OpWrites(op) = {Step.dev}
      /\ op.kind = "Compute" => WritesOf(Step) = {"output"}
      /\ op.kind = "D2H" => WritesOf(Step) = {Step.handle} /\ OpWrites(op) = {}
                            /\ Step.handle # l
  <2>1. op.kind = "D2H" => Step.handle # l
    BY <1>1, <1>4, StepFields, NamesAssumption
  <2> QED
    BY <1>4, <2>1, OpMemory, WritesOfKind DEF Step
<1>6. Leaves(op, l, <<n, w>>) \/ (l \notin OpWrites(op) /\ WillHold(l, serial, <<n, w>>))
  <2>1. CASE w = i
    <3>1. l \in WritesOf(Step)
      BY <1>2, <2>1 DEF Step
    <3> QED
      BY <1>4, <1>5, <2>1, <3>1, Zenon DEF Leaves, Step
  <2>2. CASE w # i
    <3>1. l \notin WritesOf(Step) /\ w \in 1 .. i - 1
      <4>1. i \in 1 .. i /\ w \in 1 .. i - 1 /\ ~(i <= w)
        BY <1>1, <1>2, <2>2
      <4> QED
        BY <1>2, <4>1, Zenon DEF Step
    <3>2. w \in Writers(i, l) /\ LastWriter(w, i, l)
      BY <1>1, <1>2, <3>1 DEF LastWriter, Writers
    <3>3. CASE Carried(corr, l)
      <4>1. op.kind = "Compute"
        BY <3>3 DEF Carried
      <4>2. PICK g \in 1 .. i : Group(corr, g, i)
        BY <1>1 DEF LaunchInv, BatchInv
      <4>3. PICK c \in DOMAIN corr : /\ steps[corr[c]].dev = l
                                     /\ \A d \in DOMAIN corr : steps[corr[d]].dev = l => d <= c
        BY <1>1, <3>3, LastCarried
      <4>4. LastWriter(corr[c], i, l)
        BY <1>1, <4>2, <4>3, CarriedLast, Zenon DEF LastWriter
      <4>5. w = corr[c]
        BY <1>1, <3>2, <4>4, LastUnique, Zenon
      <4> QED
        BY <4>1, <4>3, <4>5 DEF Leaves
    <3>4. CASE ~Carried(corr, l)
      <4>1. WillHold(l, serial, <<n, w>>)
        BY <1>1, <3>2, <3>4 DEF ReadInv, NextOK, WillFind
      <4>2. l \notin OpWrites(op)
        BY <1>4, <1>5, <3>1, <3>4, ComputeWrites
      <4> QED
        BY <4>1, <4>2
    <3> QED
      BY <3>3, <3>4
  <2> QED
    BY <2>1, <2>2
<1>7. PICK v : v = <<n, w>>
  BY Zenon
<1>8. Leaves(op, l, v) \/ (l \notin OpWrites(op) /\ WillHold(l, serial, v))
  BY <1>6, <1>7
<1>9. WillHold(l, x, v)'
  BY <1>3, <1>8, HoldsAfter
<1> QED
  BY <1>7, <1>9
\* The next step is submitted as op.
LEMMA SubmitKeepsReads ==
    ASSUME BuilderInv, LaunchInv, ReadInv, Running, NEW op \in Operation, op.step = i,
           op.launch = n, op.serial = serial, op.kind # "program", Step.kind = StepKind(op),
           op.corr = corr, op.kind # "Compute" => corr = <<>>,
           UNCHANGED <<steps, mem, n, phase>>, AllPending' = AllPending \cup {op},
           serial' = serial + 1, i' = i + 1, corr' = <<>>, DeviceReadsInOrder'
    PROVE  ReadInv'
<1>1. /\ i \in Nat /\ i # 0 /\ phase = "ready" /\ serial \in Nat
      /\ \A p \in AllPending : p.serial \in Nat /\ p.serial < serial
  BY RunningFacts, SerialsDiffer, OperationFields DEF LaunchInv, LaunchTypeOK
<1>2. ASSUME NEW p \in AllPending PROVE ReadsOK(p)'
  <2>1. \A l, v : WillHold(l, p.serial, v) => WillHold(l, p.serial, v)'
    BY <1>1, HoldsBefore
  <2> QED
    BY <2>1, ReadsFrame DEF ReadInv
<1>3. ReadsOK(op)'
  BY NewOpReads
<1>4. ProgramOK'
  <2>1. WillHold("program", serial, <<0, 1>>)
    BY <1>1 DEF ReadInv, ProgramOK
  <2>2. "program" \notin OpWrites(op)
    <3>1. op.kind \in {"upload", "H2D", "D2H", "Compute"}
      BY OperationFields
    <3>2. op.kind \in {"upload", "H2D"} => steps[op.step].dev \in Regions
      BY RunningFacts, StepFields DEF StepKind, Step
    <3>3. op.kind = "Compute" => ~Carried(op.corr, "program")
      <4>1. PICK g \in 1 .. i : Group(corr, g, i)
        BY <1>1 DEF LaunchInv, BatchInv
      <4>2. ASSUME NEW c \in DOMAIN corr PROVE steps[corr[c]].dev \in Regions
        <5>1. /\ corr[c] \in g .. i - 1 /\ i \in 1 .. Len(steps) /\ steps \in Seq(PlanStep)
              /\ Len(steps) \in Nat
          BY <4>1, RunningFacts, SMTT(30) DEF Group, BuilderInv, BuilderTypeOK
        <5>2. steps[corr[c]].kind = "HostCompute" /\ steps[corr[c]] \in PlanStep
          BY <4>1, <5>1 DEF Group, HostSteps
        <5> QED
          BY <5>2, StepFields
      <4> QED
        BY <4>2, NamesAssumption DEF Carried
    <3> QED
      BY <3>1, <3>2, <3>3, OpMemory, ComputeWrites, NamesAssumption
  <2>3. PICK x \in Nat : x = serial + 1
    BY <1>1
  <2>4. WillHold("program", x, <<0, 1>>)'
    BY <1>1, <2>1, <2>2, <2>3, HoldsAfter
  <2> QED
    BY <2>3, <2>4 DEF ProgramOK
<1>5. NextOK'
  <2>1. PICK k \in Nat, x \in Nat : k = i + 1 /\ x = serial + 1
    BY <1>1
  <2>2. ASSUME NEW l \in Regions \cup {"output"}, NEW w \in Writers(k, l), LastWriter(w, k, l)
        PROVE  WillHold(l, x, <<n, w>>)'
    BY <2>1, <2>2, NewOpLeaves, Zenon
  <2>3. \A l : Writers(k, l)' = Writers(k, l) /\ \A w : LastWriter(w, k, l)' <=> LastWriter(w, k, l)
    BY MemoryFrame
  <2> QED
    BY <2>1, <2>2, <2>3 DEF NextOK, WillFind
<1> QED
  BY <1>2, <1>3, <1>4, <1>5 DEF ReadInv

\* Nothing is submitted and memory stays as it is.
LEMMA HoldsSame ==
    ASSUME UNCHANGED <<steps, mem>>, AllPending' = AllPending, NEW l, NEW x, NEW v
    PROVE  WillHold(l, x, v)' <=> WillHold(l, x, v)
<1>1. \A p : OpWrites(p)' = OpWrites(p) /\ (Leaves(p, l, v)' <=> Leaves(p, l, v))
  BY MemoryFrame
<1> QED
  BY <1>1 DEF WillHold

LEMMA QuietKeepsReads ==
    ASSUME ReadInv, UNCHANGED <<steps, mem, phase, serial>>, AllPending' = AllPending,
           DeviceReadsInOrder', NextOK'
    PROVE  ReadInv'
<1>1. \A p \in AllPending : ReadsOK(p)'
  BY HoldsSame, ReadsFrame DEF ReadInv
<1>2. ProgramOK'
  BY HoldsSame DEF ReadInv, ProgramOK
<1> QED
  BY <1>1, <1>2 DEF ReadInv

LEMMA BoundaryKeepsReads ==
    ASSUME BuilderInv, LaunchInv, ReadInv,
           (\E s \in DevStreams : BeginLaunch(s)) \/ LaunchThrows \/ EndLaunch
    PROVE  ReadInv'
<1>1. UNCHANGED <<steps, phase, serial, queue, mem, wrong>> /\ i' \in {0, 1}
  BY LaunchBoundary
<1>2. AllPending' = AllPending
  BY <1>1 DEF AllPending, Pending, Streams
<1>3. \A l : Writers(1, l)' = {}
  BY DEF Writers
<1>4. NextOK'
  BY <1>1, <1>3 DEF NextOK, WillFind
<1>5. DeviceReadsInOrder'
  BY <1>1 DEF ReadInv, DeviceReadsInOrder
<1> QED
  BY <1>1, <1>2, <1>4, <1>5, QuietKeepsReads

LEMMA HostComputeKeepsReads ==
    ASSUME BuilderInv, LaunchInv, ReadInv, ConstructHostCompute
    PROVE  ReadInv'
<1>1. /\ Running /\ Step.kind = "HostCompute" /\ i' = i + 1 /\ UNCHANGED <<steps, phase, n, mem>>
      /\ wrong' \subseteq wrong \cup {"HostCompute"}
  BY DEF ConstructHostCompute, builderVars, Note
<1>2. DeviceReadsInOrder'
  BY <1>1 DEF ReadInv, DeviceReadsInOrder
<1>3. /\ i \in 1 .. Len(steps) /\ Len(steps) \in Nat /\ i \in Nat /\ i # 0 /\ corr \in Seq(Nat)
      /\ phase = "ready"
  BY <1>1, RunningFacts
<1>4. CASE corr' = Append(corr, i) /\ UNCHANGED <<serial, queue>> /\ AllPending' = AllPending
  <2>0. i + 1 \in Nat /\ Append(corr, i) \in Seq(Nat)
    BY <1>3
  <2>1. PICK k \in Nat, cs \in Seq(Nat) : k = i + 1 /\ cs = Append(corr, i)
    BY <2>0, Zenon
  <2>2. \A l : Carried(corr, l) \/ Step.dev = l => Carried(cs, l)
    <3>1. /\ DOMAIN cs = DOMAIN corr \cup {Len(corr) + 1} /\ cs[Len(corr) + 1] = i
          /\ \A c \in DOMAIN corr : cs[c] = corr[c]
      BY <1>3, <2>1
    <3> QED
      BY <3>1 DEF Carried, Step
  <2>3. ASSUME NEW l \in Regions \cup {"output"}, NEW w \in Writers(k, l), LastWriter(w, k, l),
               ~Carried(cs, l)
        PROVE  WillHold(l, serial, <<n, w>>)
    <3>1. WritesOf(steps[i]) = {steps[i].dev} /\ steps[i].dev # l
      BY <1>1, <2>2, <2>3, WritesOfKind DEF Step
    <3>2. w \in Writers(i, l) /\ LastWriter(w, i, l)
      <4>1. l \notin WritesOf(steps[i])
        BY <3>1, Zenon
      <4>2. /\ w \in 1 .. i /\ l \in WritesOf(steps[w])
            /\ \A o \in 1 .. i : l \in WritesOf(steps[o]) => o <= w
        BY <1>3, <2>1, <2>3 DEF LastWriter, Writers
      <4>3. w \in 1 .. i - 1
        BY <1>3, <4>1, <4>2
      <4> QED
        BY <1>3, <4>2, <4>3 DEF LastWriter, Writers
    <3> QED
      BY <1>3, <2>2, <2>3, <3>2 DEF ReadInv, NextOK, WillFind
  <2>4. ASSUME NEW l \in Regions \cup {"output"} PROVE WillFind(n, k, cs, serial, l)'
    <3>1. /\ Writers(k, l)' = Writers(k, l) /\ (Carried(cs, l)' <=> Carried(cs, l))
          /\ \A w : LastWriter(w, k, l)' <=> LastWriter(w, k, l)
      BY <1>1, MemoryFrame
    <3>2. \A v, x : WillHold(l, x, v) => WillHold(l, x, v)'
      BY <1>1, <1>4, HoldsSame
    <3> QED
      BY <1>1, <1>4, <2>3, <3>1, <3>2 DEF WillFind
  <2>5. NextOK'
    BY <1>1, <1>4, <2>1, <2>4 DEF NextOK
  <2> QED
    BY <1>1, <1>2, <1>4, <2>5, QuietKeepsReads
<1>5. CASE /\ corr = <<>> /\ corr' = <<>> /\ serial' = serial + 1
           /\ AllPending' = AllPending \cup {Op("upload", i, <<>>)}
  <2> DEFINE op == Op("upload", i, <<>>)
  <2>1. /\ op \in Operation /\ op.serial = serial /\ op.kind = "upload" /\ op.step = i
        /\ op.corr = corr /\ op.launch = n
    BY <1>3, <1>5 DEF LaunchInv, LaunchTypeOK, Op, Operation
  <2>2. Step.kind = StepKind(op)
    BY <1>1, <2>1 DEF StepKind
  <2> HIDE DEF op
  <2> QED
    BY <1>1, <1>2, <1>5, <2>1, <2>2, SubmitKeepsReads, SMTT(30) DEF op
<1> QED
  BY <1>4, <1>5, HostComputeKeepsLaunch

LEMMA TransferKeepsReads ==
    ASSUME BuilderInv, LaunchInv, ReadInv, ConstructTransfer
    PROVE  ReadInv'
<1> DEFINE op == Op(Step.kind, i, <<>>)
<1>1. /\ Running /\ Step.kind \in {"H2D", "D2H"} /\ i' = i + 1
      /\ UNCHANGED <<steps, phase, n, mem, wrong>>
  BY DEF ConstructTransfer, builderVars
<1>2. /\ serial' = serial + 1 /\ corr = <<>> /\ corr' = <<>>
      /\ AllPending' = AllPending \cup {op}
  BY TransferKeepsLaunch
<1>3. i \in Nat
  BY <1>1, RunningFacts
<1>4. /\ op \in Operation /\ op.serial = serial /\ op.kind = Step.kind /\ op.step = i
      /\ op.corr = corr /\ op.launch = n
  BY <1>1, <1>2, <1>3 DEF LaunchInv, LaunchTypeOK, Op, Operation
<1>5. Step.kind = StepKind(op)
  BY <1>1, <1>4 DEF StepKind
<1>6. DeviceReadsInOrder'
  BY <1>1, ZenonT(60) DEF ReadInv, DeviceReadsInOrder
<1> HIDE DEF op
<1> QED
  BY <1>1, <1>2, <1>4, <1>5, <1>6, SubmitKeepsReads

LEMMA ComputeKeepsReads ==
    ASSUME BuilderInv, LaunchInv, ReadInv, ConstructCompute
    PROVE  ReadInv'
<1> DEFINE op == Op("Compute", i, corr)
<1>1. /\ Running /\ Step.kind = "Compute" /\ i' = i + 1
      /\ UNCHANGED <<steps, phase, n, mem, wrong>>
  BY DEF ConstructCompute, builderVars
<1>2. /\ serial' = serial + 1 /\ corr' = <<>> /\ AllPending' = AllPending \cup {op}
  BY ComputeKeepsLaunch
<1>3. i \in Nat /\ corr \in Seq(Nat)
  BY <1>1, RunningFacts
<1>4. /\ op \in Operation /\ op.serial = serial /\ op.kind = "Compute" /\ op.step = i
      /\ op.corr = corr /\ op.launch = n
  BY <1>1, <1>2, <1>3 DEF LaunchInv, LaunchTypeOK, Op, Operation
<1>5. Step.kind = StepKind(op)
  BY <1>1, <1>4 DEF StepKind
<1>6. DeviceReadsInOrder'
  BY <1>1 DEF ReadInv, DeviceReadsInOrder
<1> HIDE DEF op
<1> QED
  BY <1>1, <1>2, <1>4, <1>5, <1>6, SubmitKeepsReads
-----------------------------------------------------------------------------
(* Building the plan *)

\* Before the plan is ready only the program's upload can be pending.
LEMMA OnlyProgram ==
    ASSUME LaunchInv, phase # "ready"
    PROVE  /\ i = 0
           /\ \A p \in AllPending : p.kind = "program" /\ p.launch = 0
BY DEF LaunchInv, LaunchTypeOK, OpInv, OpOK

\* An upload of the program is the same whatever the steps are.
LEMMA ProgramMemory ==
    ASSUME NEW p, p.kind = "program", p.launch = 0
    PROVE  /\ OpReads(p) = {} /\ OpWrites(p) = {"program"} /\ OpReads(p)' = {}
           /\ OpWrites(p)' = {"program"}
           /\ Leaves(p, "program", <<0, 1>>) /\ Leaves(p, "program", <<0, 1>>)'
<1>1. OpReads(p) = {} /\ OpReads(p)' = {}
  BY Zenon DEF OpReads
<1>2. OpWrites(p) = {"program"} /\ OpWrites(p)' = {"program"}
  BY Zenon DEF OpWrites
<1> QED
  BY <1>1, <1>2 DEF Leaves

LEMMA BuildKeepsReads ==
    ASSUME BuilderInv, LaunchInv, ReadInv, Build
    PROVE  ReadInv'
<1>1. (phase = "preparing" /\ phase' = "failed") \/ phase = "translating"
  BY DEF Build, PreparationThrows, Translate, TranslateComputeOnHostWithH2D, Throw,
         TranslateComputeOnDevice, TranslateH2D, TranslateD2H, TranslateThrows, FinishBuild,
         Translating
<1>2. UNCHANGED <<queue, mem, serial, i, wrong>>
  BY DEF Build, launchVars
<1>3. AllPending' = AllPending
  BY <1>2 DEF AllPending, Pending, Streams
<1>4. i = 0 /\ \A p \in AllPending : p.kind = "program" /\ p.launch = 0
  BY <1>1, OnlyProgram
<1>5. \A p \in AllPending : ReadsOK(p)'
  BY <1>4, ProgramMemory, ZenonT(60) DEF ReadsOK
<1>6. ProgramOK'
  <2> SUFFICES ASSUME phase = "translating" PROVE WillHold("program", serial, <<0, 1>>)'
    BY <1>1 DEF ProgramOK
  <2>1. WillHold("program", serial, <<0, 1>>)
    BY DEF ReadInv, ProgramOK
  <2>2. \A p \in AllPending : /\ OpWrites(p)' = OpWrites(p)
                              /\ Leaves(p, "program", <<0, 1>>)'
    BY <1>4, ProgramMemory, Zenon
  <2> QED
    BY <1>2, <1>3, <2>1, <2>2 DEF WillHold
<1>7. NextOK' /\ DeviceReadsInOrder'
  BY <1>2, <1>4 DEF NextOK, ReadInv, DeviceReadsInOrder
<1> QED
  BY <1>3, <1>5, <1>6, <1>7, ZenonT(60) DEF ReadInv

LEMMA PrepareKeepsReads ==
    ASSUME BuilderInv, LaunchInv, ReadInv, Prepare
    PROVE  ReadInv'
<1> DEFINE op == Op("program", 0, <<>>)
<1>1. /\ phase = "preparing" /\ UNCHANGED <<steps, mem, i, wrong>> /\ serial' = serial + 1
  BY DEF Prepare, ExecuteJobPreparationPlan, Enqueue
<1>2. n = 0 /\ AllPending' = AllPending \cup {op}
  BY PrepareKeepsLaunch
<1>3. i = 0 /\ \A p \in AllPending : p.kind = "program" /\ p.launch = 0
  BY <1>1, OnlyProgram
<1>4. op.kind = "program" /\ op.launch = 0 /\ op.serial = serial
  BY <1>2 DEF Op
<1> HIDE DEF op
<1>5. \A p \in AllPending' : ReadsOK(p)'
  BY <1>2, <1>3, <1>4, ProgramMemory DEF ReadsOK
<1>6. ProgramOK'
  <2>1. serial \in Nat /\ \A p \in AllPending : p.serial \in Nat /\ p.serial < serial
    BY SerialsDiffer, OperationFields DEF LaunchInv, LaunchTypeOK
  <2>2. PICK x \in Nat : x = serial + 1
    BY <2>1
  <2>3. Leaves(op, "program", <<0, 1>>)
    BY <1>4, ProgramMemory
  <2>4. WillHold("program", x, <<0, 1>>)'
    BY <1>1, <1>2, <1>4, <2>1, <2>2, <2>3, HoldsAfter, SMTT(30)
  <2> QED
    BY <1>1, <2>2, <2>4 DEF ProgramOK
<1>7. NextOK' /\ DeviceReadsInOrder'
  BY <1>1, <1>3 DEF NextOK, ReadInv, DeviceReadsInOrder
<1> QED
  BY <1>5, <1>6, <1>7 DEF ReadInv
-----------------------------------------------------------------------------
(* Running an operation *)

\* No pending operation that was submitted before the head of a stream that is
\* ready conflicts with it.
LEMMA ReadyOrder ==
    ASSUME SingleUntracked, LaunchInv, NEW s \in Streams, Execute(s), NEW p \in AllPending,
           p.serial < Head(queue[s]).serial
    PROVE  ~Conflict(p, Head(queue[s]))
<1>1. Ready(s) /\ queue[s] # <<>> /\ queue' = [queue EXCEPT ![s] = Tail(@)] /\ UNCHANGED <<serial, split>>
  BY DEF Execute, Ready
<1>2. PICK t \in Streams : \E a \in DOMAIN queue[t] : p = queue[t][a]
  BY PendingDef
<1>3. PICK a \in DOMAIN queue[t] : p = queue[t][a]
  BY <1>2
<1>4. p \in Pending(t)
  BY <1>3 DEF Pending
<1>5. \A q \in Pending(s) : q = Head(queue[s]) \/ Head(queue[s]).serial < q.serial
  BY <1>1, ExecuteRemoves, Zenon DEF LaunchInv
<1>6. p.serial \in Nat /\ Head(queue[s]).serial \in Nat
  BY <1>1, ExecuteRemoves, SerialsDiffer, OperationFields, Zenon DEF LaunchInv
<1>7. t # s
  BY <1>4, <1>5, <1>6
<1>8. split
  <2> SUFFICES ASSUME ~split PROVE FALSE
    OBVIOUS
  <2>1. 1 \in DOMAIN queue[s]
    BY <1>1 DEF LaunchInv, LaunchTypeOK
  <2>2. s \in UntrackedStreams /\ t \in UntrackedStreams
    BY <1>3, <2>1 DEF LaunchInv, SerialInv
  <2> QED
    BY <1>7, <2>2 DEF SingleUntracked
<1> QED
  BY <1>1, <1>4, <1>7, <1>8 DEF Ready

\* What the corrections of an operation make of a location.
LEMMA CorrectedAt ==
    ASSUME NEW op, op.corr \in Seq(Nat), NEW l \in Locations
    PROVE  /\ ~Carried(op.corr, l) => Corrected(op)[l] = mem[l]
           /\ \A c \in DOMAIN op.corr :
                 /\ steps[op.corr[c]].dev = l
                 /\ \A d \in DOMAIN op.corr : steps[op.corr[d]].dev = l => d <= c
                 => Corrected(op)[l] = <<op.launch, op.corr[c]>>
<1> DEFINE C == {c \in DOMAIN op.corr : steps[op.corr[c]].dev = l}
<1>1. Corrected(op)[l] = IF C = {} THEN mem[l]
                         ELSE <<op.launch, op.corr[CHOOSE c \in C : \A d \in C : d <= c]>>
  BY DEF Corrected
<1>2. ASSUME ~Carried(op.corr, l) PROVE C = {}
  BY <1>2 DEF Carried
<1>3. ASSUME NEW c \in DOMAIN op.corr, steps[op.corr[c]].dev = l,
             \A d \in DOMAIN op.corr : steps[op.corr[d]].dev = l => d <= c
      PROVE  Corrected(op)[l] = <<op.launch, op.corr[c]>>
  <2>1. c \in C /\ \A d \in C : d <= c
    BY <1>3
  <2>2. \A e \in C : (\A d \in C : d <= e) => e = c
    BY <2>1
  <2> HIDE DEF C
  <2>3. (CHOOSE e \in C : \A d \in C : d <= e) = c
    BY <2>1, <2>2, SMTT(30)
  <2> QED
    BY <1>1, <2>1, <2>3, Zenon
<1> HIDE DEF C
<1> QED
  BY <1>1, <1>2, <1>3, Zenon

\* The corrections a compute carries go to regions.
LEMMA CarriedRegions ==
    ASSUME BuilderInv, LaunchInv, NEW op \in AllPending, NEW c \in DOMAIN op.corr
    PROVE  steps[op.corr[c]].dev \in Regions
<1>1. op \in Operation /\ OpOK(op)
  BY SerialsDiffer DEF LaunchInv, OpInv
<1>2. op.corr \in Seq(Nat) /\ op.step \in Nat
  BY <1>1, OperationFields
<1>3. op.kind = "Compute"
  BY <1>1 DEF OpOK
<1>4. PICK g \in 1 .. op.step : Group(op.corr, g, op.step)
  BY <1>1, <1>3, ZenonT(60) DEF OpOK
<1>5. /\ op.corr[c] \in g .. op.step - 1 /\ op.step \in DOMAIN steps /\ steps \in Seq(PlanStep)
      /\ Len(steps) \in Nat
  <2>0. /\ Len(op.corr) = op.step - g /\ DOMAIN op.corr = 1 .. Len(op.corr)
        /\ \A d \in 1 .. op.step - g : op.corr[d] = g + d - 1
    BY <1>2, <1>4, SMTT(30) DEF Group
  <2>1. op.corr[c] \in g .. op.step - 1
    <3>1. PICK last \in Nat : last = op.step /\ g \in 1 .. last
      BY <1>2, Zenon
    <3>2. c \in 1 .. last - g /\ op.corr[c] = g + c - 1
      BY <2>0, <3>1, Zenon
    <3> QED
      BY <3>1, <3>2
  <2> QED
    BY <1>1, <1>3, <2>1, SMTT(30) DEF OpOK, BuilderInv, BuilderTypeOK
<1>6. steps[op.corr[c]].kind = "HostCompute" /\ steps[op.corr[c]] \in PlanStep
  BY <1>2, <1>4, <1>5, SMTT(30) DEF Group, HostSteps
<1> QED
  BY <1>6, StepFields

\* Running an operation changes memory as Leaves says.
LEMMA ExecuteMemory ==
    ASSUME BuilderInv, LaunchInv, NEW s \in Streams, Execute(s), NEW op, op = Head(queue[s]),
           NEW l \in Locations
    PROVE  /\ l \notin OpWrites(op) => mem'[l] = mem[l]
           /\ \A v : Leaves(op, l, v) => mem'[l] = v
<1>1. op \in AllPending
  BY ExecuteKeepsLaunch
<1>2. op \in Operation /\ OpOK(op) /\ DOMAIN mem = Locations
  BY <1>1, SerialsDiffer DEF LaunchInv, OpInv, LaunchTypeOK
<1>3. op.corr \in Seq(Nat)
  BY <1>2, OperationFields
<1>4. CASE op.kind = "Compute" /\ RunCompute(op)
  <2>1. PICK seen : seen = Corrected(op)
    BY Zenon
  <2>2. DOMAIN seen = Locations
    BY <2>1, Zenon DEF Corrected
  <2>3. mem' = [seen EXCEPT !["output"] = <<op.launch, op.step>>]
    BY <1>4, <2>1 DEF RunCompute
  <2>4. mem'[l] = IF l = "output" THEN <<op.launch, op.step>> ELSE seen[l]
    BY <2>2, <2>3, ZenonT(60)
  <2>5. l \notin OpWrites(op) => mem'[l] = mem[l]
    BY <1>3, <1>4, <2>1, <2>4, ComputeWrites, CorrectedAt
  <2>6. ASSUME NEW v, Leaves(op, l, v) PROVE mem'[l] = v
    <3>1. CASE l = "output"
      <4>1. ~Carried(op.corr, l)
        BY <1>1, <3>1, CarriedRegions, NamesAssumption, SMTT(30) DEF Carried
      <4>2. v = <<op.launch, op.step>>
        BY <1>4, <2>6, <4>1, Zenon DEF Leaves, Carried
      <4> QED
        BY <2>4, <3>1, <4>2
    <3>2. CASE l # "output"
      <4>1. PICK c \in DOMAIN op.corr :
                /\ steps[op.corr[c]].dev = l /\ v = <<op.launch, op.corr[c]>>
                /\ \A d \in DOMAIN op.corr : steps[op.corr[d]].dev = l => d <= c
        BY <1>4, <2>6, <3>2, Zenon DEF Leaves
      <4> QED
        BY <1>3, <2>1, <2>4, <3>2, <4>1, CorrectedAt, Zenon
    <3> QED
      BY <3>1, <3>2
  <2> QED
    BY <2>5, <2>6
<1>5. CASE op.kind = "program" /\ RunUpload(op)
  <2>1. mem' = [mem EXCEPT !["program"] = <<op.launch, 1>>]
    BY <1>5 DEF RunUpload
  <2>2. OpWrites(op) = {"program"}
    BY <1>5, OpMemory, SMTT(30)
  <2>3. \A v : Leaves(op, l, v) => l = "program" /\ v = <<op.launch, 1>>
    BY <1>5, Zenon DEF Leaves
  <2> QED
    BY <1>2, <2>1, <2>2, <2>3, ZenonT(60)
<1>6. CASE op.kind \in {"upload", "H2D"} /\ RunUpload(op)
  <2>1. mem' = [mem EXCEPT ![steps[op.step].dev] = <<op.launch, op.step>>]
    BY <1>6, Zenon DEF RunUpload
  <2>2. OpWrites(op) = {steps[op.step].dev}
    BY <1>6, OpMemory, SMTT(30)
  <2>3. \A v : Leaves(op, l, v) => l = steps[op.step].dev /\ v = <<op.launch, op.step>>
    BY <1>6, Zenon DEF Leaves
  <2> QED
    BY <1>2, <2>1, <2>2, <2>3, SMTT(30)
<1>7. CASE op.kind = "D2H" /\ RunDownload(op)
  BY <1>7, Zenon DEF RunDownload, Leaves
<1> QED
  BY <1>4, <1>5, <1>6, <1>7 DEF Execute

\* An operation finds in the locations it reads what was to be there.
LEMMA ReadsMemory ==
    ASSUME SingleUntracked, LaunchInv, NEW s \in Streams, Execute(s), NEW op, op = Head(queue[s]),
           NEW l \in OpReads(op), NEW v, WillHold(l, op.serial, v)
    PROVE  mem[l] = v
<1>1. ASSUME NEW p \in AllPending, p.serial < op.serial PROVE l \notin OpWrites(p)
  <2>1. ~Conflict(p, op)
    BY <1>1, ReadyOrder, ZenonT(60)
  <2> QED
    BY <2>1 DEF Conflict
<1> QED
  BY <1>1 DEF WillHold

\* What is to be in a location is not disturbed by running an operation that
\* was submitted before, or that does not write it.
LEMMA HoldsOn ==
    ASSUME SingleUntracked, BuilderInv, LaunchInv, NEW s \in Streams, Execute(s),
           NEW op, op = Head(queue[s]),
           NEW l \in Locations, NEW x \in Nat, NEW v, WillHold(l, x, v),
           op.serial < x \/ l \notin OpWrites(op)
    PROVE  WillHold(l, x, v)'
<1>1. AllPending' = AllPending \ {op} /\ op \in AllPending
  BY ExecuteKeepsLaunch
<1>2. UNCHANGED steps
  BY DEF Execute, builderVars
<1>3. \A p : OpWrites(p)' = OpWrites(p) /\ (Leaves(p, l, v)' <=> Leaves(p, l, v))
  BY <1>2, MemoryFrame, SMTT(30)
<1>4. /\ l \notin OpWrites(op) => mem'[l] = mem[l]
      /\ Leaves(op, l, v) => mem'[l] = v
  BY ExecuteMemory, Zenon
<1>5. /\ \A p \in AllPending : p.serial \in Nat
      /\ \A p \in AllPending : p.serial = op.serial => p = op
  BY <1>1, SerialsDiffer, OperationFields DEF LaunchInv
<1>6. ASSUME NEW p \in AllPending, p.serial < op.serial, l \in OpWrites(op) PROVE l \notin OpWrites(p)
  <2>1. ~Conflict(p, op)
    BY <1>6, ReadyOrder, ZenonT(60)
  <2> QED
    BY <1>6, <2>1 DEF Conflict
<1>7. CASE mem[l] = v /\ \A p \in AllPending : p.serial < x => l \notin OpWrites(p)
  <2>1. l \notin OpWrites(op)
    BY <1>1, <1>7
  <2> QED
    BY <1>1, <1>3, <1>4, <1>7, <2>1 DEF WillHold
<1>8. ASSUME NEW p \in AllPending, p.serial < x, l \in OpWrites(p), Leaves(p, l, v),
             \A q \in AllPending : q.serial < x /\ l \in OpWrites(q) => q.serial <= p.serial
      PROVE  WillHold(l, x, v)'
  <2>1. CASE p = op
    <3>1. mem'[l] = v
      BY <1>4, <1>8, <2>1, SMTT(30)
    <3>2. \A q \in AllPending' : q.serial < x => l \notin OpWrites(q)
      BY <1>1, <1>5, <1>6, <1>8, <2>1, SMTT(30)
    <3> QED
      BY <1>3, <3>1, <3>2, ZenonT(60) DEF WillHold
  <2>2. CASE p # op
    BY <1>1, <1>3, <1>8, <2>2, ZenonT(60) DEF WillHold
  <2> QED
    BY <2>1, <2>2, ZenonT(60)
<1> QED
  BY <1>7, <1>8 DEF WillHold
\* The kinds of steps that read what the plan says stay right.
LEMMA ExecuteReads ==
    ASSUME SingleUntracked, BuilderInv, LaunchInv, ReadInv, NEW s \in Streams, Execute(s)
    PROVE  DeviceReadsInOrder'
<1>1. PICK op : op = Head(queue[s])
  BY Zenon
<1>2. op \in AllPending /\ ReadsOK(op)
  BY <1>1, ExecuteKeepsLaunch DEF ReadInv
<1>3. op \in Operation /\ OpOK(op)
  BY <1>2, SerialsDiffer DEF LaunchInv, OpInv
<1>4. op.corr \in Seq(Nat) /\ op.step \in Nat
  BY <1>3, OperationFields, SMTT(30)
<1>5. ASSUME NEW l \in OpReads(op), l # "program", ~Carried(op.corr, l)
      PROVE  \A w \in Writers(op.step, l) : LastWriter(w, op.step, l) => mem[l] = <<op.launch, w>>
  BY <1>1, <1>2, <1>5, ReadsMemory, Zenon DEF ReadsOK, WillFind
<1>6. CASE op.kind = "Compute" /\ RunCompute(op)
  <2>0. OpReads(op) = Regions \cup {"program"}
    BY <1>6, OpMemory
  <2>1. Corrected(op)["program"] # NoValue
    <3>1. ~Carried(op.corr, "program")
      BY <1>2, CarriedRegions, NamesAssumption, SMTT(30) DEF Carried
    <3>2. Corrected(op)["program"] = mem["program"]
      BY <1>4, <3>1, CorrectedAt, SMTT(30) DEF Locations
    <3>3. mem["program"] = <<0, 1>>
      BY <1>1, <1>2, <2>0, ReadsMemory, Zenon DEF ReadsOK
    <3> QED
      BY <3>2, <3>3 DEF NoValue
  <2>2. ASSUME NEW r \in Regions PROVE Expected(op.launch, op.step, r, Corrected(op)[r])
    <3>0. r # "program" /\ r \in OpReads(op) /\ r \in Locations
      BY <2>0, NamesAssumption DEF Locations
    <3>1. ASSUME NEW w \in Writers(op.step, r), LastWriter(w, op.step, r)
          PROVE  Corrected(op)[r] = <<op.launch, w>>
      <4>1. CASE ~Carried(op.corr, r)
        BY <1>4, <1>5, <3>0, <3>1, <4>1, CorrectedAt, ZenonT(60)
      <4>2. CASE Carried(op.corr, r)
        <5>1. PICK c \in DOMAIN op.corr :
                  /\ steps[op.corr[c]].dev = r
                  /\ \A d \in DOMAIN op.corr : steps[op.corr[d]].dev = r => d <= c
          BY <1>4, <4>2, LastCarried, Zenon
        <5>2. Corrected(op)[r] = <<op.launch, op.corr[c]>>
          BY <1>4, <3>0, <5>1, CorrectedAt, ZenonT(60)
        <5>3. PICK g \in 1 .. op.step : Group(op.corr, g, op.step)
          BY <1>3, <1>6, ZenonT(60) DEF OpOK
        <5>4. op.step \in 1 .. Len(steps)
          BY <1>3, <1>6, SMTT(30) DEF OpOK, BuilderInv, BuilderTypeOK
        <5>5. LastWriter(op.corr[c], op.step, r)
          BY <1>4, <5>1, <5>3, <5>4, CarriedLast, ZenonT(60) DEF LastWriter
        <5> QED
          BY <1>4, <3>1, <5>2, <5>5, LastUnique, SMTT(30)
      <4> QED
        BY <4>1, <4>2, ZenonT(60)
    <3> QED
      BY <1>4, <3>1, ExpectedFrom, Zenon
  <2>3. wrong' = wrong
    BY <1>6, <2>1, <2>2 DEF RunCompute, Note
  <2> QED
    BY <2>3 DEF ReadInv, DeviceReadsInOrder
<1>7. CASE op.kind \in {"program", "upload", "H2D"} /\ RunUpload(op)
  <2>1. wrong' \subseteq wrong \cup {"H2D"}
    BY <1>7, SMTT(30) DEF RunUpload, Note
  <2> QED
    BY <2>1, ZenonT(60) DEF ReadInv, DeviceReadsInOrder
<1>8. CASE op.kind = "D2H" /\ RunDownload(op)
  <2>1. "output" \in OpReads(op)
    BY <1>8, OpMemory, SMTT(30)
  <2>2. ~Carried(op.corr, "output")
    BY <1>3, <1>8, SMTT(30) DEF OpOK, Carried
  <2>3. Expected(op.launch, op.step, "output", mem["output"])
    BY <1>4, <1>5, <2>1, <2>2, ExpectedFrom, Zenon
  <2>4. wrong' = wrong
    BY <1>8, <2>3 DEF RunDownload, Note
  <2> QED
    BY <2>4 DEF ReadInv, DeviceReadsInOrder
<1> QED
  BY <1>1, <1>6, <1>7, <1>8 DEF Execute

\* The next step keeps finding what it needs.
LEMMA NextFrame ==
    ASSUME NextOK, UNCHANGED <<steps, n, i, corr, serial>>,
           \A l \in Locations : \A v : WillHold(l, serial, v) => WillHold(l, serial, v)'
    PROVE  NextOK'
<1> SUFFICES ASSUME i # 0, NEW l \in Regions \cup {"output"} PROVE WillFind(n, i, corr, serial, l)'
  BY DEF NextOK
<1>1. WillFind(n, i, corr, serial, l) /\ l \in Locations
  BY DEF NextOK, Locations
<1>2. PICK k, cs, m : k = i /\ cs = corr /\ m = n
  BY Zenon
<1>3. /\ Writers(k, l)' = Writers(k, l) /\ (Carried(cs, l)' <=> Carried(cs, l))
      /\ \A w : LastWriter(w, k, l)' <=> LastWriter(w, k, l)
  BY MemoryFrame
<1>4. \A w \in Writers(k, l) : LastWriter(w, k, l) /\ ~Carried(cs, l) => WillHold(l, serial, <<m, w>>)
  BY <1>1, <1>2 DEF WillFind
<1>5. \A w \in Writers(k, l)' : LastWriter(w, k, l)' /\ ~Carried(cs, l)' => WillHold(l, serial, <<m, w>>)'
  BY <1>1, <1>3, <1>4
<1> QED
  BY <1>2, <1>5 DEF WillFind

LEMMA ExecuteKeepsReads ==
    ASSUME SingleUntracked, BuilderInv, LaunchInv, ReadInv, NEW s \in Streams, Execute(s)
    PROVE  ReadInv'
<1>1. PICK op : op = Head(queue[s])
  BY Zenon
<1>2. /\ op \in AllPending /\ AllPending' = AllPending \ {op}
      /\ UNCHANGED <<steps, phase, n, i, corr, serial>>
  BY <1>1, ExecuteKeepsLaunch, Zenon DEF Execute, builderVars
<1>3. /\ \A p \in AllPending : p \in Operation /\ p.serial \in Nat /\ p.serial < serial
      /\ \A p \in AllPending : p.serial = op.serial => p = op
      /\ serial \in Nat
  BY <1>2, SerialsDiffer, OperationFields DEF LaunchInv, LaunchTypeOK
<1>4. ASSUME NEW p \in AllPending, p # op PROVE ReadsOK(p)'
  <2>1. OpReads(p) \subseteq Locations
    BY <1>3, OperationFields, OpMemory DEF Locations
  <2>2. ASSUME NEW l \in OpReads(p) PROVE op.serial < p.serial \/ l \notin OpWrites(op)
    <3>1. CASE p.serial < op.serial
      <4>1. ~Conflict(p, op)
        BY <1>1, <3>1, ReadyOrder
      <4> QED
        BY <4>1 DEF Conflict
    <3>2. CASE op.serial < p.serial
      BY <3>2
    <3> QED
      BY <1>2, <1>3, <1>4, <3>1, <3>2, SMTT(30)
  <2>3. \A l, v : l \in OpReads(p) /\ WillHold(l, p.serial, v) => WillHold(l, p.serial, v)'
    BY <1>1, <1>3, <2>1, <2>2, HoldsOn
  <2> QED
    BY <1>2, <2>3, ReadsFrame DEF ReadInv
<1>5. \A l \in Locations : \A v : WillHold(l, serial, v) => WillHold(l, serial, v)'
  <2>1. PICK x \in Nat : x = serial
    BY <1>3
  <2>2. op.serial < x
    BY <1>2, <1>3, <2>1
  <2>3. \A l \in Locations : \A v : WillHold(l, x, v) => WillHold(l, x, v)'
    BY <1>1, <2>2, HoldsOn
  <2> QED
    BY <1>2, <2>1, <2>3
<1>6. ProgramOK'
  BY <1>2, <1>5 DEF ReadInv, ProgramOK, Locations
<1>7. NextOK'
  BY <1>2, <1>5, NextFrame DEF ReadInv
<1> QED
  BY <1>2, <1>4, <1>6, <1>7, ExecuteReads DEF ReadInv

-----------------------------------------------------------------------------
(* The theorem *)

LEMMA ReadStarts == ASSUME Init PROVE ReadInv
<1>1. AllPending = {}
  <2>1. \A s \in Streams : queue[s] = <<>> /\ DOMAIN queue[s] = {}
    BY DEF Init, LaunchInit
  <2>2. \A p : p \notin AllPending
    BY <2>1, PendingDef, Zenon
  <2> QED
    BY <2>2
<1> QED
  BY <1>1, SMTT(30) DEF Init, LaunchInit, BuilderInit, ReadInv, ProgramOK, NextOK, DeviceReadsInOrder

LEMMA ReadStep ==
    ASSUME SingleUntracked, BuilderInv, LaunchInv, ReadInv, [Next]_vars
    PROVE  ReadInv'
<1>1. CASE Prepare
  BY <1>1, PrepareKeepsReads
<1>2. CASE Build
  BY <1>2, BuildKeepsReads
<1>3. CASE (\E s \in DevStreams : BeginLaunch(s)) \/ LaunchThrows \/ EndLaunch
  BY <1>3, BoundaryKeepsReads, SMTT(30)
<1>4. CASE ConstructHostCompute
  BY <1>4, HostComputeKeepsReads
<1>5. CASE ConstructTransfer
  BY <1>5, TransferKeepsReads
<1>6. CASE ConstructCompute
  BY <1>6, ComputeKeepsReads
<1>7. ASSUME NEW s \in Streams, Execute(s) PROVE ReadInv'
  BY <1>7, ExecuteKeepsReads
<1>8. CASE UNCHANGED vars
  <2>1. UNCHANGED <<steps, mem, phase, serial, queue, i, n, corr, wrong>>
    BY <1>8, SMTT(30) DEF vars, builderVars, launchVars
  <2>2. AllPending' = AllPending
    BY <2>1 DEF AllPending, Pending, Streams
  <2>3. DeviceReadsInOrder'
    BY <2>1 DEF ReadInv, DeviceReadsInOrder
  <2>4. NextOK'
    <3>1. \A l, v, x : WillHold(l, x, v)' <=> WillHold(l, x, v)
      BY <2>1, <2>2, HoldsSame
    <3>2. \A l, v : WillHold(l, serial, v) => WillHold(l, serial, v)'
      BY <2>1, <3>1
    <3> QED
      BY <2>1, <3>2, NextFrame DEF ReadInv
  <2> QED
    BY <2>1, <2>2, <2>3, <2>4, QuietKeepsReads, SMTT(30)
<1> QED
  BY <1>1, <1>2, <1>3, <1>4, <1>5, <1>6, <1>7, <1>8, SMTT(30) DEF Next

\* Launches that only submit their operations compute what the plan says: with
\* the hazard tracker on for any number of streams, with it off when one
\* stream runs everything, for every plan the builder accepts, every number of
\* launches in flight and every interleaving of the device's streams.
THEOREM LaunchesReadInOrder ==
    ASSUME SingleUntracked
    PROVE  Spec => []DeviceReadsInOrder
<1>1. Init => ReadInv
  BY ReadStarts
<1>2. (BuilderInv /\ LaunchInv /\ ReadInv) /\ [Next]_vars => ReadInv'
  BY ReadStep
<1>3. ReadInv => DeviceReadsInOrder
  BY DEF ReadInv
<1> QED
  BY <1>1, <1>2, <1>3, LaunchInvariant, PTL DEF Spec
================================================================================
