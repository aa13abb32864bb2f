---------------------------- MODULE NodeSelection ----------------------------
(***************************************************************************)
(* How the scheduler picks the node of a job (selectNode and what it calls *)
(* in internal/scheduler/scheduler.go): a pass over the listed nodes that  *)
(* keeps the first one of the lowest score.                                *)
(*                                                                         *)
(* CPU is in millicores and memory in GiB.  A score is an integer, 25600   *)
(* times the code's float64, whose rounding is left out.                   *)
(* A definition X_Y is the mutation Y of X, used by no specification.      *)
(***************************************************************************)
EXTENDS Integers, Sequences, FiniteSets

CONSTANTS Nodes,
          NodeLists,   \* what ListNodes may return
          Jobs         \* the specifications of jobs

VARIABLES
  nodes,      \* the listed nodes
  job,        \* the job that is scheduled
  next,       \* the node to look at next; 0 between two calls
  selected,   \* the position of the selected node, or 0
  minScore

vars == <<nodes, job, next, selected, minScore>>

Init == nodes = <<>> /\ job \in Jobs /\ next = 0 /\ selected = 0 /\ minScore = 0

-----------------------------------------------------------------------------
(* A node and a job *)

\* A quantity that is missing or does not parse is <<>>, and asks for nothing.
Covers(allocatable, request) == request # <<>> => request[1] <= allocatable

\* An empty value tolerates every value of the key; effects are not compared.
hasToleration(tolerations, taint) ==
    \E t \in tolerations : t.key = taint.key /\ t.value \in {taint.value, ""}

matchesRequirements(n, j) ==
    /\ Covers(n.cpu, j.cpu)
    /\ Covers(n.memory, j.memory)
    /\ \A t \in n.taints : t.effect = "NoSchedule" => hasToleration(j.tolerations, t)

\* A node is ready when its first condition of type Ready is True.
Eligible(n, j) == n.ready /\ matchesRequirements(n, j)

\* Quantity.Value rounds up to whole cores.
Cores(millicores) == (millicores + 999) \div 1000

\* A map lookup: "" for a key that is not there.
Lookup(m, k) == IF k \in DOMAIN m THEN m[k] ELSE ""

\* The loop ranges over the selector's values and takes them for label keys.
Mismatches(n, j) ==
    {k \in DOMAIN j.selector :
        LET label == j.selector[k]
        IN  label \in DOMAIN n.labels /\ n.labels[label] # Lookup(j.selector, label)}

\* ((1 - cores/100) + (1 - memory/128 GiB)) / 2, and 10 for each mismatch.
calculateNodeScore(n, j) ==
    25600 - 128 * Cores(n.cpu) - 100 * n.memory + 256000 * Cardinality(Mismatches(n, j))

-----------------------------------------------------------------------------
(* selectNode *)

Call(ns, j) ==
    /\ next = 0
    /\ nodes' = ns
    /\ job' = j
    /\ next' = 1
    /\ selected' = 0
    /\ minScore' = 0

Looking == next \in DOMAIN nodes

Skip ==
    /\ Looking
    /\ ~Eligible(nodes[next], job)
    /\ next' = next + 1
    /\ UNCHANGED <<nodes, job, selected, minScore>>

Better_ThanZero(n) == calculateNodeScore(n, job) < minScore
Better(n) == selected = 0 \/ calculateNodeScore(n, job) < minScore

Select ==
    /\ Looking
    /\ Eligible(nodes[next], job)
    /\ Better(nodes[next])
    /\ selected' = next
    /\ minScore' = calculateNodeScore(nodes[next], job)
    /\ next' = next + 1
    /\ UNCHANGED <<nodes, job>>

Keep ==
    /\ Looking
    /\ Eligible(nodes[next], job)
    /\ ~Better(nodes[next])
    /\ next' = next + 1
    /\ UNCHANGED <<nodes, job, selected, minScore>>

\* The selected node, or ErrNoSuitableNode.
Return ==
    /\ next = Len(nodes) + 1
    /\ next' = 0
    /\ UNCHANGED <<nodes, job, selected, minScore>>

Next ==
    \/ \E ns \in NodeLists, j \in Jobs : Call(ns, j)
    \/ Skip \/ Select \/ Keep \/ Return

Spec == Init /\ [][Next]_vars

-----------------------------------------------------------------------------
(* Assumption and properties *)

\* Nodes have quantities, and selectors are finite maps.
SelectionAssumption ==
    /\ NodeLists \subseteq Seq(Nodes)
    /\ \A n \in Nodes : n.cpu \in Nat /\ n.memory \in Nat
    /\ \A j \in Jobs : IsFiniteSet(DOMAIN j.selector)

\* Every variable has its type.
TypeOK ==
    /\ nodes \in NodeLists \cup {<<>>}
    /\ job \in Jobs
    /\ next \in 0..(Len(nodes) + 1)
    /\ selected \in 0..Len(nodes)
    /\ minScore \in Int

\* The node a job gets is one it fits on, no node it fits on has a lower score,
\* and of those with the same score it is the first of the list; and a job gets
\* none only when it fits on none.  For lists in whatever order, scores below
\* zero included: machines of more than 128 GiB have them.
SelectionIsBest ==
    next = Len(nodes) + 1 =>
        IF selected = 0 THEN \A i \in DOMAIN nodes : ~Eligible(nodes[i], job)
        ELSE LET score(i) == calculateNodeScore(nodes[i], job)
             IN  /\ Eligible(nodes[selected], job)
                 /\ \A i \in DOMAIN nodes : Eligible(nodes[i], job) =>
                       /\ score(selected) <= score(i)
                       /\ i < selected => score(selected) < score(i)
=============================================================================
