---------------------------- MODULE JobScheduler ----------------------------
(***************************************************************************)
(* The pod scheduler (internal/scheduler/scheduler.go): callers put jobs   *)
(* in named in-memory queues with EnqueueJob, scheduleLoop makes passes    *)
(* over the queues and creates one pod per job, and cleanupLoop deletes    *)
(* the pods of finished jobs.                                              *)
(*                                                                         *)
(* Two locks matter.  Scheduler.mu is held by EnqueueJob while it waits    *)
(* for the queue's own lock, and by a pass only while it copies the map of *)
(* queues.  JobQueue.mu is held by a pass during all its API calls for     *)
(* that queue, and by EnqueueJob for one append.  API calls may fail, and  *)
(* the reply to a pod creation that did happen may be lost to the client's *)
(* timeout.  A bad quantity in a job's spec makes resource.MustParse panic *)
(* and ends the process, which restarts with no queues.                    *)
(*                                                                         *)
(* Jobs are identified with their ids, and each is enqueued by one caller. *)
(* Which node a job needs is data: FitsOn stands for                       *)
(* matchesRequirements, and selectNode may return any ready fitting node.  *)
(* A definition X_Y is the mutation Y of X, used by no specification.      *)
(***************************************************************************)
EXTENDS Integers, Sequences, FiniteSets

CONSTANTS Jobs, Queues, Namespaces, Nodes,
          QueueOf,       \* job.Queue, with "" already read as "default"
          NamespaceOf,   \* job.Namespace
          FitsOn,        \* the nodes whose allocatable and taints suit the job
          BadSpec,       \* jobs with a quantity MustParse does not accept
          Terminating,   \* namespaces that are being deleted
          FlakyNodes,    \* nodes whose readiness may change
          Workers,       \* cfg.Workers
          Cleaners,      \* cleanup loops running against the cluster
          Self,          \* the cleanup loop of this process
          NoJob, NoQueue,
          MaxLost,       \* bound: creations whose reply is lost, per job
          MaxErrors,     \* bound: API calls that fail
          MaxKills       \* bound: times the process is killed and restarted

ASSUME SchedAssumption ==
    /\ QueueOf \in [Jobs -> Queues]
    /\ NamespaceOf \in [Jobs -> Namespaces]
    /\ FitsOn \in [Jobs -> SUBSET Nodes]
    /\ BadSpec \subseteq Jobs
    /\ FlakyNodes \subseteq Nodes
    /\ Terminating \subseteq Namespaces
    /\ Workers \in Nat \ {0}
    /\ Self \in Cleaners
    /\ NoJob \notin Jobs /\ NoQueue \notin Queues
    /\ MaxLost \in Nat /\ MaxErrors \in Nat /\ MaxKills \in Nat

VARIABLES
  known,      \* the keys of s.queues
  jobs,       \* queue.jobs
  enq,        \* per caller of EnqueueJob: "new", "locked" (has s.mu), "done"
  mu,         \* the caller that holds s.mu for writing, or NoJob
  pc,         \* scheduleLoop: "idle", "queues", "loop", "create", "exited"
  pending,    \* queues of this pass not yet served
  queue,      \* the queue being served, whose mu is held, or NoQueue
  idx,        \* i + 1
  job,        \* the job being scheduled
  failed,     \* history: jobs of this queue whose attempt failed in this pass
  cpc,        \* per cleanup loop: "idle", "namespaces", "pods", "exited"
  nsTodo,     \* per cleanup loop: namespaces not yet listed
  todo,       \* per cleanup loop: finished pods of the listing, not yet deleted
  stopping,   \* stopCh is closed
  pods,       \* the cluster: state of the pod named after each job
  ready,      \* the cluster: ready nodes
  runs,       \* history: pods created for each job
  lost,       \* history: creations of each job's pod whose reply was lost
  dropped,    \* history: jobs in memory when the process ended
  kills,
  errors      \* API calls that failed

queues  == <<known, jobs, enq, mu>>
inPass  == <<pending, queue, idx, job, failed>>
cleanup == <<cpc, nsTodo, todo>>
process == <<stopping, dropped, kills, errors>>
cluster == <<pods, ready, runs, lost>>
vars    == <<queues, pc, inPass, cleanup, process, cluster>>

PodState == {"none", "running", "succeeded", "failed", "terminating"}

Init ==
    /\ known = {}
    /\ jobs = [q \in Queues |-> <<>>]
    /\ enq = [j \in Jobs |-> "new"]
    /\ mu = NoJob
    /\ pc = "idle"
    /\ pending = {} /\ queue = NoQueue /\ idx = 1 /\ job = NoJob /\ failed = {}
    /\ cpc = [c \in Cleaners |-> "idle"]
    /\ nsTodo = [c \in Cleaners |-> {}]
    /\ todo = [c \in Cleaners |-> {}]
    /\ stopping = FALSE
    /\ pods = [j \in Jobs |-> "none"]
    /\ ready = Nodes
    /\ runs = [j \in Jobs |-> 0]
    /\ lost = [j \in Jobs |-> 0]
    /\ dropped = {}
    /\ kills = 0
    /\ errors = 0

\* An API call fails and has no effect.
ApiError == errors < MaxErrors /\ errors' = errors + 1

-----------------------------------------------------------------------------
(* EnqueueJob *)

\* s.mu.Lock() and the creation of a missing queue.
EnqueueLock(j) ==
    /\ enq[j] = "new"
    /\ mu = NoJob
    /\ mu' = j
    /\ enq' = [enq EXCEPT ![j] = "locked"]
    /\ known' = known \cup {QueueOf[j]}
    /\ UNCHANGED <<jobs, pc, inPass, cleanup, process, cluster>>

\* q.mu.Lock(), the append, and both unlocks.
EnqueueAppend(j) ==
    /\ enq[j] = "locked"
    /\ queue # QueueOf[j]
    /\ jobs' = [jobs EXCEPT ![QueueOf[j]] = Append(@, j)]
    /\ enq' = [enq EXCEPT ![j] = "done"]
    /\ mu' = NoJob
    /\ UNCHANGED <<known, pc, inPass, cleanup, process, cluster>>

-----------------------------------------------------------------------------
(* scheduleLoop *)

\* A tick: copy the map of queues under s.mu.RLock().
PassStart ==
    /\ pc = "idle"
    /\ mu = NoJob
    /\ pending' = known
    /\ pc' = "queues"
    /\ UNCHANGED <<queues, queue, idx, job, failed, cleanup, process, cluster>>

\* The next queue of the copy, in any order: queue.mu.Lock(); i := 0.
PassLock(q) ==
    /\ pc = "queues"
    /\ q \in pending
    /\ pending' = pending \ {q}
    /\ queue' = q
    /\ idx' = 1
    /\ failed' = {}
    /\ pc' = "loop"
    /\ UNCHANGED <<queues, job, cleanup, process, cluster>>

PassEnd ==
    /\ pc = "queues"
    /\ pending = {}
    /\ pc' = "idle"
    /\ UNCHANGED <<queues, inPass, cleanup, process, cluster>>

LoopGoesOn_OneShort == idx <= Len(jobs[queue]) /\ idx < Workers
LoopGoesOn == idx <= Len(jobs[queue]) /\ idx <= Workers

PassUnlock_Forgets ==
    /\ pc = "loop"
    /\ ~LoopGoesOn
    /\ pc' = "queues"
    /\ UNCHANGED <<queues, inPass, cleanup, process, cluster>>

PassUnlock ==
    /\ pc = "loop"
    /\ ~LoopGoesOn
    /\ queue' = NoQueue
    /\ pc' = "queues"
    /\ UNCHANGED <<queues, pending, idx, job, failed, cleanup, process, cluster>>

\* scheduleJob returned an error: the job keeps its place and i moves on.
Fail(j) ==
    /\ idx' = idx + 1
    /\ failed' = failed \cup {j}
    /\ job' = NoJob
    /\ pc' = "loop"
    /\ UNCHANGED <<queues, pending, queue, cleanup, stopping, dropped, kills>>

ListNodesFails ==
    /\ pc = "loop" /\ LoopGoesOn
    /\ ApiError
    /\ Fail(jobs[queue][idx])
    /\ UNCHANGED cluster

NoSuitableNode ==
    /\ pc = "loop" /\ LoopGoesOn
    /\ FitsOn[jobs[queue][idx]] \cap ready = {}
    /\ Fail(jobs[queue][idx])
    /\ UNCHANGED <<cluster, errors>>

\* selectNode found a node; a bad quantity panics in createPodFromJob.
SelectNode(j) ==
    /\ pc = "loop" /\ LoopGoesOn
    /\ j = jobs[queue][idx]
    /\ j \notin BadSpec
    /\ FitsOn[j] \cap ready # {}
    /\ job' = j
    /\ pc' = "create"
    /\ UNCHANGED <<queues, pending, queue, idx, failed, cleanup, process, cluster>>

\* The API server accepts the pod: its name is free and its namespace stays.
Creatable(j) == pods[j] = "none" /\ NamespaceOf[j] \notin Terminating

Without(s, i) == SubSeq(s, 1, i - 1) \o SubSeq(s, i + 1, Len(s))

CreatePod_RemovesHead(j) ==
    /\ pc = "create" /\ job = j
    /\ Creatable(j)
    /\ pods' = [pods EXCEPT ![j] = "running"]
    /\ runs' = [runs EXCEPT ![j] = @ + 1]
    /\ jobs' = [jobs EXCEPT ![queue] = Tail(@)]
    /\ job' = NoJob
    /\ pc' = "loop"
    /\ UNCHANGED <<known, enq, mu, pending, queue, idx, failed, cleanup, process, ready, lost>>

CreatePod_NoStepBack(j) ==
    /\ pc = "create" /\ job = j
    /\ Creatable(j)
    /\ pods' = [pods EXCEPT ![j] = "running"]
    /\ runs' = [runs EXCEPT ![j] = @ + 1]
    /\ jobs' = [jobs EXCEPT ![queue] = Without(@, idx)]
    /\ job' = NoJob
    /\ idx' = idx + 1
    /\ pc' = "loop"
    /\ UNCHANGED <<known, enq, mu, pending, queue, failed, cleanup, process, ready, lost>>

\* The pod is created: queue.jobs loses the job and i stays where it is.
CreatePod(j) ==
    /\ pc = "create" /\ job = j
    /\ Creatable(j)
    /\ pods' = [pods EXCEPT ![j] = "running"]
    /\ runs' = [runs EXCEPT ![j] = @ + 1]
    /\ jobs' = [jobs EXCEPT ![queue] = Without(@, idx)]
    /\ job' = NoJob
    /\ pc' = "loop"
    /\ UNCHANGED <<known, enq, mu, pending, queue, idx, failed, cleanup, process, ready, lost>>

CreateFails(j) ==
    /\ pc = "create" /\ job = j
    /\ ApiError
    /\ Fail(j)
    /\ UNCHANGED cluster

\* AlreadyExists, or Forbidden in a terminating namespace.
CreateRefused(j) ==
    /\ pc = "create" /\ job = j
    /\ ~Creatable(j)
    /\ Fail(j)
    /\ UNCHANGED <<cluster, errors>>

\* The pod is created but the client's timeout loses the reply.
CreateReplyLost(j) ==
    /\ pc = "create" /\ job = j
    /\ Creatable(j)
    /\ lost[j] < MaxLost
    /\ pods' = [pods EXCEPT ![j] = "running"]
    /\ runs' = [runs EXCEPT ![j] = @ + 1]
    /\ lost' = [lost EXCEPT ![j] = @ + 1]
    /\ Fail(j)
    /\ UNCHANGED <<ready, errors>>

-----------------------------------------------------------------------------
(* cleanupLoop *)

Finished(j) == pods[j] \in {"succeeded", "failed"}

\* A tick: ListNamespaces, without those that are being deleted.
CleanStart(c) ==
    /\ cpc[c] = "idle"
    /\ nsTodo' = [nsTodo EXCEPT ![c] = Namespaces \ Terminating]
    /\ cpc' = [cpc EXCEPT ![c] = "namespaces"]
    /\ UNCHANGED <<queues, pc, inPass, todo, process, cluster>>

CleanStartFails(c) ==
    /\ cpc[c] = "idle"
    /\ ApiError
    /\ UNCHANGED <<queues, pc, inPass, cleanup, stopping, dropped, kills, cluster>>

CleanListPods_AnyPhase(c, ns) ==
    /\ cpc[c] = "namespaces"
    /\ ns \in nsTodo[c]
    /\ nsTodo' = [nsTodo EXCEPT ![c] = @ \ {ns}]
    /\ todo' = [todo EXCEPT ![c] = {j \in Jobs : NamespaceOf[j] = ns /\ pods[j] # "none"}]
    /\ cpc' = [cpc EXCEPT ![c] = "pods"]
    /\ UNCHANGED <<queues, pc, inPass, process, cluster>>

\* ListPods: the finished pods of the namespace that are not being deleted yet.
CleanListPods(c, ns) ==
    /\ cpc[c] = "namespaces"
    /\ ns \in nsTodo[c]
    /\ nsTodo' = [nsTodo EXCEPT ![c] = @ \ {ns}]
    /\ todo' = [todo EXCEPT ![c] = {j \in Jobs : NamespaceOf[j] = ns /\ Finished(j)}]
    /\ cpc' = [cpc EXCEPT ![c] = "pods"]
    /\ UNCHANGED <<queues, pc, inPass, process, cluster>>

\* ListPods failed: the namespace is skipped.
CleanListFails(c, ns) ==
    /\ cpc[c] = "namespaces"
    /\ ns \in nsTodo[c]
    /\ ApiError
    /\ nsTodo' = [nsTodo EXCEPT ![c] = @ \ {ns}]
    /\ UNCHANGED <<queues, pc, inPass, cpc, todo, stopping, dropped, kills, cluster>>

\* DeletePod by name: whatever pod has the name by then is deleted.  A pod that
\* is gone or terminating already is left as it is.
CleanDelete(c, j) ==
    /\ cpc[c] = "pods"
    /\ j \in todo[c]
    /\ todo' = [todo EXCEPT ![c] = @ \ {j}]
    /\ pods' = [pods EXCEPT ![j] = IF @ = "none" THEN @ ELSE "terminating"]
    /\ UNCHANGED <<queues, pc, inPass, cpc, nsTodo, process, ready, runs, lost>>

\* The error of DeletePod is ignored.
CleanDeleteFails(c, j) ==
    /\ cpc[c] = "pods"
    /\ j \in todo[c]
    /\ ApiError
    /\ todo' = [todo EXCEPT ![c] = @ \ {j}]
    /\ UNCHANGED <<queues, pc, inPass, cpc, nsTodo, stopping, dropped, kills, cluster>>

CleanNextNamespace(c) ==
    /\ cpc[c] = "pods"
    /\ todo[c] = {}
    /\ cpc' = [cpc EXCEPT ![c] = "namespaces"]
    /\ UNCHANGED <<queues, pc, inPass, nsTodo, todo, process, cluster>>

CleanEnd(c) ==
    /\ cpc[c] = "namespaces"
    /\ nsTodo[c] = {}
    /\ cpc' = [cpc EXCEPT ![c] = "idle"]
    /\ UNCHANGED <<queues, pc, inPass, nsTodo, todo, process, cluster>>

-----------------------------------------------------------------------------
(* Stop, and the end of the process *)

\* Stop: close(s.stopCh).  It returns when both loops have exited.
Stop ==
    /\ ~stopping
    /\ stopping' = TRUE
    /\ UNCHANGED <<queues, pc, inPass, cleanup, dropped, kills, errors, cluster>>

LoopExit_WhenEmpty ==
    /\ stopping
    /\ pc = "idle"
    /\ \A q \in known : jobs[q] = <<>>
    /\ pc' = "exited"
    /\ UNCHANGED <<queues, inPass, cleanup, process, cluster>>

\* Between ticks a loop selects between the ticker and stopCh.
LoopExit ==
    /\ stopping
    /\ pc = "idle"
    /\ pc' = "exited"
    /\ UNCHANGED <<queues, inPass, cleanup, process, cluster>>

CleanExit ==
    /\ stopping
    /\ cpc[Self] = "idle"
    /\ cpc' = [cpc EXCEPT ![Self] = "exited"]
    /\ UNCHANGED <<queues, pc, inPass, nsTodo, todo, process, cluster>>

Queued(j) == \E i \in DOMAIN jobs[QueueOf[j]] : jobs[QueueOf[j]][i] = j

\* The process ends and is started again: all it knew was in memory.
Restart ==
    /\ dropped' = dropped \cup {j \in Jobs : Queued(j) \/ enq[j] = "locked"}
    /\ enq' = [j \in Jobs |-> IF enq[j] = "locked" THEN "done" ELSE enq[j]]
    /\ known' = {}
    /\ jobs' = [q \in Queues |-> <<>>]
    /\ mu' = NoJob
    /\ pc' = "idle"
    /\ pending' = {} /\ queue' = NoQueue /\ idx' = 1 /\ job' = NoJob /\ failed' = {}
    /\ cpc' = [cpc EXCEPT ![Self] = "idle"]
    /\ nsTodo' = [nsTodo EXCEPT ![Self] = {}]
    /\ todo' = [todo EXCEPT ![Self] = {}]
    /\ stopping' = FALSE
    /\ UNCHANGED <<errors, cluster>>

\* resource.MustParse panics in createPodFromJob; nothing recovers.
Panic ==
    /\ pc = "loop" /\ LoopGoesOn
    /\ jobs[queue][idx] \in BadSpec
    /\ FitsOn[jobs[queue][idx]] \cap ready # {}
    /\ Restart
    /\ UNCHANGED kills

\* A deployment, an eviction or a node failure ends the process at any point.  On a
\* signal main cancels the context and leaves without Stop or wg.Wait: whatever the
\* loops are doing, calls that fail because of the context included, ends there.
Kill ==
    /\ kills < MaxKills
    /\ kills' = kills + 1
    /\ Restart

-----------------------------------------------------------------------------
(* The cluster *)

\* A pod's containers end.  Nothing restarts them: RestartPolicyNever.
PodEnds(j, state) ==
    /\ pods[j] = "running"
    /\ pods' = [pods EXCEPT ![j] = state]
    /\ UNCHANGED <<queues, pc, inPass, cleanup, process, ready, runs, lost>>

PodRemoved(j) ==
    /\ pods[j] = "terminating"
    /\ pods' = [pods EXCEPT ![j] = "none"]
    /\ UNCHANGED <<queues, pc, inPass, cleanup, process, ready, runs, lost>>

NodeFlips(n) ==
    /\ ready' = IF n \in ready THEN ready \ {n} ELSE ready \cup {n}
    /\ UNCHANGED <<queues, pc, inPass, cleanup, process, pods, runs, lost>>

-----------------------------------------------------------------------------

Enqueue(j) == EnqueueLock(j) \/ EnqueueAppend(j)

Pass ==
    \/ PassStart
    \/ \E q \in Queues : PassLock(q)
    \/ PassEnd
    \/ PassUnlock
    \/ ListNodesFails
    \/ NoSuitableNode
    \/ \E j \in Jobs : \/ SelectNode(j)
                       \/ CreatePod(j)
                       \/ CreateFails(j)
                       \/ CreateRefused(j)
                       \/ CreateReplyLost(j)
    \/ Panic

Clean(c) ==
    \/ CleanStart(c) \/ CleanStartFails(c)
    \/ \E ns \in Namespaces : CleanListPods(c, ns) \/ CleanListFails(c, ns)
    \/ \E j \in Jobs : CleanDelete(c, j) \/ CleanDeleteFails(c, j)
    \/ CleanNextNamespace(c)
    \/ CleanEnd(c)

Cluster ==
    \/ \E j \in Jobs : \/ \E state \in {"succeeded", "failed"} : PodEnds(j, state)
                       \/ PodRemoved(j)
    \/ \E n \in FlakyNodes : NodeFlips(n)

Next ==
    \/ \E j \in Jobs : Enqueue(j)
    \/ Pass
    \/ \E c \in Cleaners : Clean(c)
    \/ Stop \/ LoopExit \/ CleanExit
    \/ Kill
    \/ Cluster

Spec == Init /\ [][Next]_vars

(***************************************************************************)
(* Fairness.  Goroutines keep running: weak fairness of each loop's steps. *)
(* Every API call returns, because the client has a timeout, and errors    *)
(* are transient, because they are bounded.  sync.Mutex hands itself to a  *)
(* waiter that starves, and select picks among ready cases at random:      *)
(* strong fairness of EnqueueJob's append and of the loops' exits.  Pods   *)
(* end and terminating pods disappear.                                     *)
(***************************************************************************)
Fairness ==
    /\ \A j \in Jobs : WF_vars(EnqueueLock(j)) /\ SF_vars(EnqueueAppend(j))
    /\ WF_vars(Pass)
    /\ WF_vars(Clean(Self))
    /\ SF_vars(LoopExit) /\ SF_vars(CleanExit)
    /\ \A j \in Jobs : WF_vars(PodEnds(j, "succeeded")) /\ WF_vars(PodRemoved(j))

FairSpec == Spec /\ Fairness

-----------------------------------------------------------------------------
(* Properties *)

\* Every variable has its type; a pass serves only queues that exist, and holds
\* exactly one queue's lock while it is in the loop of that queue.
TypeOK ==
    /\ known \subseteq Queues
    /\ jobs \in [Queues -> Seq(Jobs)]
    /\ enq \in [Jobs -> {"new", "locked", "done"}]
    /\ mu \in Jobs \cup {NoJob}
    /\ pc \in {"idle", "queues", "loop", "create", "exited"}
    /\ pending \subseteq known
    /\ IF pc \in {"loop", "create"} THEN queue \in known ELSE queue = NoQueue
    /\ idx \in Nat \ {0}
    /\ IF pc = "create" THEN job \in Jobs ELSE job = NoJob
    /\ failed \subseteq Jobs
    /\ cpc \in [Cleaners -> {"idle", "namespaces", "pods", "exited"}]
    /\ nsTodo \in [Cleaners -> SUBSET Namespaces]
    /\ todo \in [Cleaners -> SUBSET Jobs]
    /\ stopping \in BOOLEAN
    /\ pods \in [Jobs -> PodState]
    /\ ready \subseteq Nodes
    /\ runs \in [Jobs -> Nat]
    /\ lost \in [Jobs -> Nat]
    /\ dropped \subseteq Jobs
    /\ kills \in Nat
    /\ errors \in Nat

\* While a pass serves a queue, the jobs before the cursor are exactly those
\* whose attempt failed in this pass, and the job in hand is the one at the
\* cursor: no job is passed over untried, and the slice element removed after
\* the API calls is the job that was scheduled.
CursorIsExact ==
    pc \in {"loop", "create"} =>
       /\ idx - 1 <= Len(jobs[queue])
       /\ {jobs[queue][k] : k \in 1..(idx - 1)} = failed
       /\ pc = "create" => idx <= Len(jobs[queue]) /\ jobs[queue][idx] = job

\* Every accepted job is accounted for: it waits once in its own queue or its pod
\* was created, exactly once unless the reply to a creation was lost, in which
\* case it waits although it ran; a restart forgets the jobs that were in memory.
JobAccounting ==
    /\ \A q \in Queues : \A i, k \in DOMAIN jobs[q] :
          /\ QueueOf[jobs[q][i]] = q
          /\ jobs[q][i] = jobs[q][k] => i = k
    /\ \A j \in Jobs :
          IF enq[j] # "done" THEN ~Queued(j) /\ runs[j] = 0 /\ lost[j] = 0 /\ j \notin dropped
          ELSE IF j \in dropped THEN ~Queued(j) /\ runs[j] = lost[j]
          ELSE IF Queued(j) THEN runs[j] = lost[j] ELSE runs[j] = lost[j] + 1

\* The cleanup loop never deletes a pod whose containers still run, although it
\* deletes by name from a listing that may be old by the time it acts.
CleanerSparesRunning ==
    [][\A j \in Jobs : pods[j] = "running" => pods'[j] # "terminating"]_vars

\* EnqueueJob returns although a pass keeps the queue's lock during API calls.
EnqueueReturns ==
    \A j \in Jobs : enq[j] = "locked" ~> enq[j] # "locked"

\* Stop returns: a pass under way ends and both loops see the closed channel.
StopReturns == stopping ~> (pc = "exited" /\ cpc[Self] = "exited")

\* Jobs for which some node is always ready, in a namespace that stays.
Steady == {j \in Jobs \ BadSpec : /\ FitsOn[j] \ FlakyNodes # {}
                                  /\ NamespaceOf[j] \notin Terminating}

\* A job for which there is a node leaves its queue, even when the reply to its
\* pod's creation is lost, as long as fewer than Workers jobs of the queue have
\* no node: Workers of them at the head would use up every pass.
QueueDrains ==
    \A j \in Steady :
       Cardinality({k \in Jobs \ Steady : QueueOf[k] = QueueOf[j]}) < Workers
         => (Queued(j) ~> (~Queued(j) \/ stopping))
=============================================================================
