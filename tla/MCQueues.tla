------------------------------ MODULE MCQueues ------------------------------
(***************************************************************************)
(* Queues for TLC.  The two parts share nothing, so every behaviour of     *)
(* both violates a property of one of them just when a behaviour of that   *)
(* one alone does: here the one that "manager" names takes the steps.      *)
(***************************************************************************)
EXTENDS Queues

\* Queues: a fair and bounded one, a plain one of the same priority, and one of a
\* higher priority.
CONSTANTS j1, j2, j3, j4, j5, j6

MCJobPriority == [j \in Jobs |-> IF j = j3 THEN 2 ELSE 1]
MCJobQueue ==
    [j \in Jobs |-> CASE j = j1 -> "urgent" [] j \in {j2, j3, j4} -> "shared" [] OTHER -> "batch"]

QueueSettings ==
    [urgent |-> [priority |-> 20, max |-> 0, fair |-> FALSE],
     shared |-> [priority |-> 10, max |-> 2, fair |-> TRUE],
     batch  |-> [priority |-> 10, max |-> -1, fair |-> FALSE]]
MCQueuePriority == [q \in DOMAIN QueueSettings |-> QueueSettings[q].priority]
MCMaxLen        == [q \in DOMAIN QueueSettings |-> QueueSettings[q].max]
MCIsFair        == [q \in DOMAIN QueueSettings |-> QueueSettings[q].fair]

\* Gangs: one with MinMember = MaxMember, and one that can grow when it is ready.
MCSizes == {<<2, 2>>, <<1, 3>>}

VARIABLE manager

MCInit == QueuesInit /\ manager \in {"queues", "gangs"}

MCNext ==
    \/ manager = "queues" /\ ManagerStep /\ UNCHANGED manager
    \/ manager = "gangs" /\ GangStep /\ UNCHANGED manager

MCSpec ==
    MCInit /\ [][MCNext]_<<queuesVars, manager>> /\ WF_vars(Dequeue) /\ Gangs!Fairness
=============================================================================
