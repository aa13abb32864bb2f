----------------------------- MODULE MCServices -----------------------------
(***************************************************************************)
(* Services for TLC.  The four parts share nothing, so every behaviour of  *)
(* all of them violates a property of one just when a behaviour of that    *)
(* one alone does: here the one that "service" names takes the steps.      *)
(***************************************************************************)
EXTENDS Services, TLC

\* Nodes that tie although they differ (4 cores when rounded up), that score below
\* zero, are tainted, are not ready, or have a label that a selector's value names.
MCNode == [ready |-> TRUE, cpu |-> 4000, memory |-> 8, taints |-> {}, labels |-> <<>>]
MCGpu  == [key |-> "gpu", value |-> "a100"]
MCNodes == {MCNode, [MCNode EXCEPT !.cpu = 3500],
            [MCNode EXCEPT !.cpu = 192000, !.memory = 512],
            [MCNode EXCEPT !.cpu = 64000, !.taints = {[MCGpu EXCEPT !.value = "t4"]
                                                       @@ [effect |-> "NoSchedule"]}],
            [MCNode EXCEPT !.ready = FALSE],
            [MCNode EXCEPT !.memory = 64, !.labels = [zone |-> "b"]]}
MCNodeLists == UNION {[1..n -> MCNodes] : n \in 0..3}
MCJob  == [cpu |-> <<>>, memory |-> <<>>, tolerations |-> {}, selector |-> <<>>]
MCJobs == {MCJob, [MCJob EXCEPT !.cpu = <<3800>>, !.tolerations = {MCGpu}],
           [MCJob EXCEPT !.memory = <<8>>, !.tolerations = {[MCGpu EXCEPT !.value = ""]},
                         !.selector = [tier |-> "zone"]]}

\* Billing: two resources.
MCUsages   == {[cpu |-> 1, gpu |-> 0], [cpu |-> 1, gpu |-> 2]}
MCDefault  == [cpu |-> 50, gpu |-> 2000]
MCPrices   == {MCDefault, [cpu |-> 100, gpu |-> 4000]}

\* Nothing reads the due date: every bill has the one it gets by default (NoDate).
MCDueDates == {-1}

\* A bill may come with a date of payment.
MCPaidDates == {-1, 0}

MCNoUpdate == [usage |-> <<>>, discount |-> <<>>, status |-> <<>>, due |-> <<>>]
MCUpdates  == {[MCNoUpdate EXCEPT !.status = <<"pending">>],
               [MCNoUpdate EXCEPT !.usage = <<[cpu |-> 1, gpu |-> 2]>>],
               [MCNoUpdate EXCEPT !.discount = <<50>>, !.status = <<"overdue">>]}

VARIABLE service

\* Bound: after the first call of selectNode, those with a list of one node at most.
SelectionBound == next = 0 /\ nodes # <<>> => Len(nodes') <= 1

\* Bound: one of the two bills has no discount and always the same usage.
BillingBound ==
    "b2" \in DOMAIN bills' => /\ bills'["b2"].discount = 0
                             /\ bills'["b2"].usage = [cpu |-> 1, gpu |-> 2]

MCInit ==
    /\ ServicesInit
    /\ job = MCJob
    /\ service \in {"billing", "benchmark", "distribution", "selection"}

MCNext ==
    /\ \/ service = "selection" /\ SelectionStep /\ SelectionBound
       \/ service = "billing" /\ BillingStep /\ BillingBound
       \/ service = "benchmark" /\ BenchmarkStep
       \/ service = "distribution" /\ DistributionStep
    /\ UNCHANGED service

MCSpec == MCInit /\ [][MCNext]_<<servicesVars, service>> /\ Bench!Fairness
=============================================================================
