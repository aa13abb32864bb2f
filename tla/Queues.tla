------------------------------- MODULE Queues -------------------------------
(***************************************************************************)
(* internal/scheduler/kueue_volcano.go: the queue manager (QueueManager)   *)
(* and the gang scheduler (GangScheduler).  Each has a mutex and a map of  *)
(* its own and neither calls the other, so they share no variable, and a   *)
(* step is a step of one of them.                                          *)
(***************************************************************************)
EXTENDS QueueManager

CONSTANTS GangNames, GangJobs, Sizes, Unparsable, Schedulers, MaxGangs
VARIABLES heap, gangs, free, pc, mine, batch, built
Gangs == INSTANCE GangScheduler WITH Names <- GangNames, Jobs <- GangJobs

ASSUME QueuesAssumption == Gangs!GangAssumption

gangVars   == <<heap, gangs, free, pc, mine, batch, built>>
queuesVars == <<vars, gangVars>>

QueuesInit == Init /\ Gangs!Init

ManagerStep == Next /\ UNCHANGED gangVars
GangStep    == Gangs!Next /\ UNCHANGED vars

QueuesNext == ManagerStep \/ GangStep

QueuesSpec ==
    QueuesInit /\ [][QueuesNext]_queuesVars /\ WF_vars(Dequeue) /\ Gangs!Fairness

-----------------------------------------------------------------------------
(* The properties of both *)

\* The type invariants of the queue manager and the gang scheduler.
QueuesTypeOK == TypeOK /\ Gangs!TypeOK

\* What is bound, and that scheduling ends (GangScheduler).
GangsAreExact  == Gangs!GangsAreExact
SchedulingEnds == Gangs!SchedulingEnds
=============================================================================
