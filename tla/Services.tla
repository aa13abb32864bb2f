------------------------------ MODULE Services ------------------------------
(***************************************************************************)
(* Four parts that work side by side: the choice of a node                 *)
(* (NodeSelection), the billing service (Billing), the benchmark service   *)
(* (Benchmark) and the distribution of workloads (WorkloadDistribution).   *)
(* They share no variable and never call each other, so a step is a step   *)
(* of one of them.                                                         *)
(***************************************************************************)
EXTENDS NodeSelection

CONSTANTS BillIds, Tenants, Resources, Usages, Prices, DefaultPriceUnits,
          Discounts, DueDates, PaidDates, Updates, MaxTime
VARIABLES bills, prices, now, ledger
Bills == INSTANCE Billing

CONSTANTS BenchNodes, BenchTypes, Readers, Limits, MaxBenchmarks
VARIABLES results, nodeScores, rank, waiting, executing, reader
Bench == INSTANCE Benchmark

CONSTANTS ClusterNames, MaxReplicas
VARIABLES clusters, replicas, allocations
Dist == INSTANCE WorkloadDistribution WITH Names <- ClusterNames

ASSUME ServicesAssumption ==
    /\ SelectionAssumption
    /\ Bills!BillingAssumption
    /\ Bench!BenchmarkAssumption
    /\ Dist!DistributionAssumption

billingVars      == <<bills, prices, now, ledger>>
benchmarkVars    == <<results, nodeScores, rank, waiting, executing, reader>>
distributionVars == <<clusters, replicas, allocations>>
servicesVars     == <<vars, billingVars, benchmarkVars, distributionVars>>

ServicesInit == Init /\ Bills!Init /\ Bench!Init /\ Dist!Init

SelectionStep    == Next /\ UNCHANGED <<billingVars, benchmarkVars, distributionVars>>
BillingStep      == Bills!Next /\ UNCHANGED <<vars, benchmarkVars, distributionVars>>
BenchmarkStep    == Bench!Next /\ UNCHANGED <<vars, billingVars, distributionVars>>
DistributionStep == Dist!Next /\ UNCHANGED <<vars, billingVars, benchmarkVars>>

ServicesNext == SelectionStep \/ BillingStep \/ BenchmarkStep \/ DistributionStep

ServicesSpec ==
    ServicesInit /\ [][ServicesNext]_servicesVars /\ Bench!Fairness

-----------------------------------------------------------------------------
(* The properties of the services *)

\* The type invariants of the services.
ServicesTypeOK == TypeOK /\ Bills!TypeOK /\ Bench!TypeOK /\ Dist!TypeOK

\* The totals of bills, payments and summaries (Billing).
TotalIsDue        == Bills!TotalIsDue
PaymentsAreBooked == Bills!PaymentsAreBooked
SummariesAddUp    == Bills!SummariesAddUp

\* The split of replicas over clusters (WorkloadDistribution).
SplitIsExact == Dist!SplitIsExact

\* Rankings of nodes, composite scores, and the end of benchmarks (Benchmark).
RankingIsConsistent == Bench!RankingIsConsistent
CompositeIsGrounded == Bench!CompositeIsGrounded
BenchmarksComplete  == Bench!BenchmarksComplete
=============================================================================
