------------------------ MODULE WorkloadDistribution ------------------------
(***************************************************************************)
(* The replicas of a workload over the clusters of the federation          *)
(* (NewWorkloadDistribution, internal/federation).  The clusters come from *)
(* ClusterRegistry.List, which ranges over a map: in any order, and not in *)
(* the same one twice.  A caller distributes, and distributes again when   *)
(* the replicas or the clusters have changed.                              *)
(* A definition X_Y is the mutation Y of X, used by no specification.      *)
(***************************************************************************)
EXTENDS Integers, Sequences, FiniteSetsExt

CONSTANTS Names,        \* of clusters
          MaxReplicas   \* bound: replicas asked for

DistributionAssumption == IsFiniteSet(Names) /\ MaxReplicas \in Nat

VARIABLES clusters,    \* the clusters of the last distribution, in their order
          replicas,    \* its TotalReplicas
          allocations  \* its Allocations

vars == <<clusters, replicas, allocations>>

Place(cs, n) == CHOOSE i \in DOMAIN cs : cs[i] = n
Listed(cs)   == {cs[i] : i \in DOMAIN cs}

\* The lists of some of the clusters: no cluster is there twice.
Listings ==
    UNION {{cs \in [1..k -> Names] : \A i, j \in 1..k : cs[i] = cs[j] => i = j} :
             k \in 0..Cardinality(Names)}

NewWorkloadDistribution_NoRemainder(r, cs) ==
    [n \in Listed(cs) |-> r \div Len(cs)]

\* The first clusters of the list get what is left of an even split.
NewWorkloadDistribution(r, cs) ==
    LET perCluster == r \div Len(cs)
        remainder  == r % Len(cs)
    IN  [n \in Listed(cs) |->
           perCluster + IF Place(cs, n) <= remainder THEN 1 ELSE 0]

\* GetAllocation of allocations a.
GetAllocation(a, n) == IF n \in DOMAIN a THEN a[n] ELSE 0

Init ==
    /\ clusters = <<>>
    /\ replicas = 0
    /\ allocations = NewWorkloadDistribution(0, <<>>)

Distribute(r, cs) ==
    /\ clusters' = cs
    /\ replicas' = r
    /\ allocations' = NewWorkloadDistribution(r, cs)

Next == \E r \in 0..MaxReplicas, cs \in Listings : Distribute(r, cs)

Spec == Init /\ [][Next]_vars

-----------------------------------------------------------------------------
(* Properties *)

\* Every variable has its type: in particular no cluster gets a negative number
\* of replicas, or more than there are.
TypeOK ==
    /\ clusters \in Listings
    /\ replicas \in 0..MaxReplicas
    /\ allocations \in [Listed(clusters) -> 0..replicas]

\* Every replica is placed, once, and no cluster gets two more than another.
SplitIsExact ==
    clusters # <<>> =>
       /\ SumFunctionOnSet([n \in Names |-> GetAllocation(allocations, n)], Names) = replicas
       /\ \A m, n \in Listed(clusters) : allocations[m] - allocations[n] <= 1
=============================================================================
