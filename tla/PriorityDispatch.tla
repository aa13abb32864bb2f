-------------------------- MODULE PriorityDispatch --------------------------
(***************************************************************************)
(* What the job queues of internal/scheduler/kueue_volcano.go promise:     *)
(* jobs wait in queues of different priority; the next job to be           *)
(* dispatched comes from a non-empty queue of the highest priority; a      *)
(* plain queue serves its oldest job, a fair queue the oldest of its jobs  *)
(* of the highest job priority.  How queues are stored and sorted is left  *)
(* to QueueManager, which implements this specification.                   *)
(***************************************************************************)
EXTENDS Integers

CONSTANTS Jobs,
          JobPriority,   \* priority of each job
          JobQueue       \* the name of the queue each job asks for

VARIABLES waiting,  \* the jobs that wait, each in its queue
          earlier,  \* pairs <<e, f>> of one queue's jobs: e came before f
          kind      \* queue name -> [priority, fair], for existing queues

Arrive(j) ==
    /\ j \notin waiting
    /\ JobQueue[j] \in DOMAIN kind
    /\ waiting' = waiting \cup {j}
    /\ earlier' = earlier \cup {<<e, j>> : e \in {f \in waiting : JobQueue[f] = JobQueue[j]}}
    /\ UNCHANGED kind

\* The jobs of S alone go on waiting, in the order they have.
Keep(S) ==
    /\ waiting' = S
    /\ earlier' = {p \in earlier : p[1] \in S /\ p[2] \in S}

\* e is served before f, a job of the same queue.
Precedes(e, f) ==
    LET p == JobPriority[e]  r == JobPriority[f] IN
    IF kind[JobQueue[e]].fair THEN p > r \/ (p = r /\ <<f, e>> \notin earlier)
    ELSE <<f, e>> \notin earlier

First(e) ==
    /\ \A f \in waiting : kind[JobQueue[f]].priority <= kind[JobQueue[e]].priority
    /\ \A f \in waiting : JobQueue[f] = JobQueue[e] => Precedes(e, f)

Dispatch ==
    /\ \E e \in waiting : First(e) /\ Keep(waiting \ {e})
    /\ UNCHANGED kind

\* Queues come and go; a queue that goes takes its jobs with it.
OpenQueue ==
    /\ \E q \in DOMAIN kind' \ DOMAIN kind :
          /\ DOMAIN kind' = DOMAIN kind \cup {q}
          /\ \A r \in DOMAIN kind : kind'[r] = kind[r]
    /\ UNCHANGED <<waiting, earlier>>

CloseQueue ==
    \E q \in DOMAIN kind :
       /\ kind' = [r \in DOMAIN kind \ {q} |-> kind[r]]
       /\ Keep({e \in waiting : JobQueue[e] # q})

Init == waiting = {} /\ earlier = {} /\ kind = [q \in {} |-> {}]

Next == (\E j \in Jobs : Arrive(j)) \/ Dispatch \/ OpenQueue \/ CloseQueue

Spec == Init /\ [][Next]_<<waiting, earlier, kind>>
=============================================================================
