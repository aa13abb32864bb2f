--------------------------- MODULE MCJobScheduler ---------------------------
(* Instances of JobScheduler for TLC. *)
EXTENDS JobScheduler

CONSTANTS j1, j2, j3, q1, q2, n1, n2, ns1, ns2

\* j3 has a queue (or a namespace) of its own; with MCFitsMixed j1 needs n2.
MCQueueOf     == [j \in Jobs |-> IF j = j3 THEN q2 ELSE q1]
MCOneQueue    == [j \in Jobs |-> q1]
MCNamespaceOf == [j \in Jobs |-> IF j = j3 THEN ns2 ELSE ns1]
MCOneSpace    == [j \in Jobs |-> ns1]
MCFitsAll     == [j \in Jobs |-> {n1}]
MCFitsMixed   == [j \in Jobs |-> IF j = j1 THEN {n2} ELSE {n1}]
=============================================================================
