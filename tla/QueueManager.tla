---------------------------- MODULE QueueManager ----------------------------
(***************************************************************************)
(* The named job queues (internal/scheduler/kueue_volcano.go).  Every      *)
(* method of QueueManager holds QueueManager.mu throughout, so each is one *)
(* action; a method that returns an error changes nothing.                 *)
(*                                                                         *)
(* Nothing in the repository calls these methods, so the caller is a       *)
(* dispatcher that does with them what they are for: it enqueues jobs,     *)
(* dequeues, and requeues a job it has dequeued.  When it is done with a   *)
(* job, or the job is dropped with its queue, another job with the same    *)
(* queue and priority may come in under the same name, so that arrivals    *)
(* never end.  The time stamp QueuedAt and the constant Attempts of a      *)
(* QueuedJob are written and never read; the model has neither.            *)
(* A definition X_Y is the mutation Y of X, used by no specification.      *)
(***************************************************************************)
EXTENDS Integers, Sequences, FiniteSets

CONSTANTS Jobs,
          JobPriority, JobQueue,
          QueuePriority,  \* the priority each queue is created with
          MaxLen,         \* its MaxLen; 0 or less is no limit
          IsFair          \* its IsFair

QueueNames == DOMAIN QueuePriority

ASSUME QueueAssumption ==
    /\ JobPriority \in [Jobs -> Int]
    /\ JobQueue \in [Jobs -> QueueNames]
    /\ QueuePriority \in [QueueNames -> Int]
    /\ MaxLen \in [QueueNames -> Int]
    /\ IsFair \in [QueueNames -> BOOLEAN]

VARIABLES queues,   \* qm.queues, by name: the sequence Jobs of each queue
          held      \* jobs the dispatcher has dequeued

vars == <<queues, held>>

\* How an entry got into its queue is a history field.
QueuedJob == [job : Jobs, requeued : BOOLEAN]

Init ==
    /\ queues = [q \in {} |-> <<>>]
    /\ held = {}

CreateQueue(q) ==
    /\ q \notin DOMAIN queues
    /\ queues' = [r \in DOMAIN queues \cup {q} |-> IF r = q THEN <<>> ELSE queues[r]]
    /\ UNCHANGED held

\* The jobs of the queue are dropped with it.
DeleteQueue(q) ==
    /\ q \in DOMAIN queues
    /\ queues' = [r \in DOMAIN queues \ {q} |-> queues[r]]
    /\ UNCHANGED held

Put(j, requeued) ==
    /\ JobQueue[j] \in DOMAIN queues
    /\ queues' = [queues EXCEPT ![JobQueue[j]] =
                    Append(@, [job |-> j, requeued |-> requeued])]

HasRoom_OneMore(q) == MaxLen[q] <= 0 \/ Len(queues[q]) <= MaxLen[q]
HasRoom(q) == MaxLen[q] <= 0 \/ Len(queues[q]) < MaxLen[q]

Waits(j) == \E q \in DOMAIN queues : \E i \in DOMAIN queues[q] : queues[q][i].job = j

Enqueue(j) ==
    /\ j \notin held /\ ~Waits(j)
    /\ Put(j, FALSE)
    /\ HasRoom(JobQueue[j])
    /\ UNCHANGED held

\* Requeue does not look at MaxLen.
Requeue(j) ==
    /\ j \in held
    /\ Put(j, TRUE)
    /\ held' = held \ {j}

\* getSortedQueues: the exchange sort of the map's values.  The map iterates in
\* any order, so queues of one priority come in any order.
getSortedQueues ==
    {s \in [1..Cardinality(DOMAIN queues) -> DOMAIN queues] :
       \A i, k \in DOMAIN s : i < k =>
          s[i] # s[k] /\ QueuePriority[s[i]] >= QueuePriority[s[k]]}

\* selectNextJob: the index it takes, as a set of one.
selectNextJob_Last(q) ==
    LET prio(i) == JobPriority[queues[q][i].job]
    IN  {i \in DOMAIN queues[q] :
           IF IsFair[q] THEN \A k \in DOMAIN queues[q] :
                                prio(k) <= prio(i) /\ (k > i => prio(k) < prio(i))
           ELSE i = 1}
selectNextJob(q) ==
    LET prio(i) == JobPriority[queues[q][i].job]
    IN  {i \in DOMAIN queues[q] :
           IF IsFair[q] THEN \A k \in DOMAIN queues[q] :
                                prio(k) <= prio(i) /\ (k < i => prio(k) < prio(i))
           ELSE i = 1}

Without(s, i) == SubSeq(s, 1, i - 1) \o SubSeq(s, i + 1, Len(s))

Take(q, i) ==
    /\ queues' = [queues EXCEPT ![q] = Without(@, i)]
    /\ held' = held \cup {queues[q][i].job}

Dequeue_FirstQueueOnly ==
    \E s \in getSortedQueues :
       DOMAIN queues # {} /\ \E i \in selectNextJob(s[1]) : Take(s[1], i)

\* The first non-empty queue of the sorted list gives up the job it selects.
Dequeue ==
    \E s \in getSortedQueues, n \in 1..Cardinality(DOMAIN queues) :
       /\ \A m \in 1..(n - 1) : queues[s[m]] = <<>>
       /\ \E i \in selectNextJob(s[n]) : Take(s[n], i)

\* The dispatcher is done with a job.
Done(j) ==
    /\ j \in held
    /\ held' = held \ {j}
    /\ UNCHANGED queues

Next ==
    \/ \E q \in QueueNames : CreateQueue(q) \/ DeleteQueue(q)
    \/ \E j \in Jobs : Enqueue(j) \/ Requeue(j) \/ Done(j)
    \/ Dequeue

Spec == Init /\ [][Next]_vars

\* A dispatcher keeps asking for jobs.
FairSpec == Spec /\ WF_vars(Dequeue)

-----------------------------------------------------------------------------
(* Properties *)

\* Every variable has its type; a job waits in the queue it asks for, waits once,
\* and is not held by the dispatcher while it waits; and MaxLen bounds the new
\* jobs of a queue: only requeued jobs, which Requeue lets in whatever the length,
\* exceed it.
TypeOK ==
    /\ DOMAIN queues \subseteq QueueNames
    /\ \A q \in DOMAIN queues : queues[q] \in Seq(QueuedJob)
    /\ held \subseteq Jobs
    /\ \A q, r \in DOMAIN queues : \A i \in DOMAIN queues[q], k \in DOMAIN queues[r] :
          /\ queues[q][i].job \notin held
          /\ JobQueue[queues[q][i].job] = q
          /\ queues[q][i].job = queues[r][k].job => q = r /\ i = k
    /\ \A q \in DOMAIN queues : MaxLen[q] > 0 =>
          Cardinality({i \in DOMAIN queues[q] : ~queues[q][i].requeued}) <= MaxLen[q]

\* The queues as PriorityDispatch sees them.
Waiting == {j \in Jobs : Waits(j)}

Before(e, f) ==
    \E q \in DOMAIN queues : \E i, k \in DOMAIN queues[q] :
       i < k /\ queues[q][i].job = e /\ queues[q][k].job = f
Earlier == {p \in Jobs \X Jobs : Before(p[1], p[2])}

Kind == [q \in DOMAIN queues |-> [priority |-> QueuePriority[q], fair |-> IsFair[q]]]

Dispatcher == INSTANCE PriorityDispatch
                WITH waiting <- Waiting, earlier <- Earlier, kind <- Kind

\* The queues serve jobs in the order PriorityDispatch promises.
ImplementsDispatch == Dispatcher!Spec

\* A k that is put into its queue will be served before a j that waits already: its
\* queue has no lower priority, or j's own queue is fair and k the more important.
Overtakes(k, j) ==
    \/ JobQueue[k] # JobQueue[j] /\ QueuePriority[JobQueue[k]] >= QueuePriority[JobQueue[j]]
    \/ JobQueue[k] = JobQueue[j] /\ IsFair[JobQueue[j]] /\ JobPriority[k] > JobPriority[j]

\* Priorities are strict, so that a job does wait forever when others keep coming
\* in before it, be they new or requeued.  That is the only way: while the
\* dispatcher asks for jobs, a job is starved only by jobs that overtake it again
\* and again, never by those that were there before it, by later ones of its own
\* plain queue or of its own priority, by an empty queue, or by queues that come and go.
NoStarvation ==
    \A j \in Jobs :
       \/ []<><<\E k \in Jobs : Overtakes(k, j) /\ (Enqueue(k) \/ Requeue(k))>>_vars
       \/ Waits(j) ~> ~Waits(j)
=============================================================================
