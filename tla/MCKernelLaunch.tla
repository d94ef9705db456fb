---------------------------- MODULE MCKernelLaunch -----------------------------
(* Execution plans for the runs of KernelLaunch. *)
EXTENDS KernelLaunch
CONSTANTS h1, h2, r1, r2

Pair(o, in, r) == <<[op |-> "ComputeOnHost", ohandle |-> o, ihandle |-> in],
                    [op |-> "H2D", host_handle |-> o, dev |-> r]>>
Device == <<[op |-> "ComputeOnDevice"]>>
ToDevice(h, r) == <<[op |-> "H2D", host_handle |-> h, dev |-> r]>>
ToHost(h) == <<[op |-> "D2H", host_handle |-> h]>>

\* The pieces an execution plan is put together from.
Pieces ==
    {Device, ToHost(h1), ToHost(h2), ToDevice(h2, r1),
     Pair(h1, None, r1), Pair(h2, None, r2), Pair(h2, None, r1)}
Faulty == {<<[op |-> "bad"]>>,
           <<[op |-> "ComputeOnHost", ohandle |-> h1, ihandle |-> None]>>}

MCPrograms ==
    {a \o b \o c \o d : a, b, c, d \in Pieces \cup {<<>>}}
      \cup {a \o b \o c : a, b \in Pieces \cup {<<>>}, c \in Faulty}

\* A host compute whose input is fetched from the device by the same plan.
FeedbackPrograms ==
    {Device \o ToHost(h1) \o Pair(h2, h1, r1) \o Device}
================================================================================
