------------------------- MODULE JobSchedulerProofs -------------------------
(***************************************************************************)
(* Proofs about JobScheduler, for every set of jobs, queues, nodes and     *)
(* namespaces and every bound.                                             *)
(*                                                                         *)
(* SInv is inductive.  JobAccounting alone is not: that CreatePod takes    *)
(* the job it scheduled out of the queue needs CursorIsExact, which says   *)
(* that the element at the cursor is still that job; and that in turn      *)
(* needs the part of TypeOK that says which queue's lock a pass holds,     *)
(* since EnqueueAppend would otherwise move under the cursor.              *)
(***************************************************************************)
EXTENDS JobScheduler, TLAPS

SInv == TypeOK /\ CursorIsExact /\ JobAccounting

-----------------------------------------------------------------------------
(* Lemmas *)

\* Removing one element shifts the later ones by one place (the slice idiom
\* append(jobs[:i], jobs[i+1:]...)).
LEMMA WithoutFacts ==
  ASSUME NEW S, NEW s \in Seq(S), NEW i \in 1..Len(s)
  PROVE  /\ Without(s, i) \in Seq(S)
         /\ Len(Without(s, i)) = Len(s) - 1
         /\ \A k \in 1..(i - 1) : Without(s, i)[k] = s[k]
         /\ \A k \in i..(Len(s) - 1) : Without(s, i)[k] = s[k + 1]
  <1> DEFINE a == SubSeq(s, 1, i - 1)
             b == SubSeq(s, i + 1, Len(s))
  <1>1. /\ a \in Seq(S) /\ Len(a) = i - 1
        /\ \A k \in 1..(i - 1) : a[k] = s[k]
    OBVIOUS
  <1>2. /\ b \in Seq(S) /\ Len(b) = Len(s) - i
        /\ \A k \in 1..(Len(s) - i) : b[k] = s[i + k]
    OBVIOUS
  <1>3. /\ a \o b \in Seq(S) /\ Len(a \o b) = Len(s) - 1
        /\ \A k \in 1..(i - 1) : (a \o b)[k] = a[k]
        /\ \A k \in i..(Len(s) - 1) : (a \o b)[k] = b[k - (i - 1)]
    <2> HIDE DEF a, b
    <2> QED BY <1>1, <1>2
  <1>4. ASSUME NEW k \in i..(Len(s) - 1) PROVE b[k - (i - 1)] = s[k + 1]
    <2>1. k - (i - 1) \in 1..(Len(s) - i)
      OBVIOUS
    <2>2. b[k - (i - 1)] = s[i + (k - (i - 1))]
      BY <1>2, <2>1
    <2>3. i + (k - (i - 1)) = k + 1
      OBVIOUS
    <2> QED BY <2>2, <2>3
  <1> QED BY <1>1, <1>3, <1>4 DEF Without

\* A sequence without repetitions that loses its element at i loses that value
\* and no other, and still has no repetitions.
LEMMA WithoutValues ==
  ASSUME NEW S, NEW s \in Seq(S), NEW i \in 1..Len(s),
         \A k, m \in 1..Len(s) : s[k] = s[m] => k = m
  PROVE  LET t == Without(s, i) IN
         /\ \A k, m \in 1..Len(t) : t[k] = t[m] => k = m
         /\ \A v : (\E k \in 1..Len(t) : t[k] = v)
                     <=> (v # s[i] /\ \E k \in 1..Len(s) : s[k] = v)
  <1> DEFINE t == Without(s, i)
             old(k) == IF k < i THEN k ELSE k + 1
  <1>1. /\ t \in Seq(S) /\ Len(t) = Len(s) - 1
        /\ \A k \in 1..(i - 1) : t[k] = s[k]
        /\ \A k \in i..(Len(s) - 1) : t[k] = s[k + 1]
    BY WithoutFacts
  <1> HIDE DEF t
  <1>2. \A k \in 1..Len(t) : t[k] = s[old(k)] /\ old(k) \in 1..Len(s) /\ old(k) # i
    BY <1>1
  <1>3. \A k, m \in 1..Len(t) : old(k) = old(m) => k = m
    BY <1>1
  <1>4. \A k \in 1..Len(s) : k # i => \E m \in 1..Len(t) : old(m) = k
    <2> SUFFICES ASSUME NEW k \in 1..Len(s), k # i
                 PROVE  \E m \in 1..Len(t) : old(m) = k
      OBVIOUS
    <2>1. CASE k < i
      <3>1. k \in 1..Len(t) /\ old(k) = k
        BY <2>1, <1>1
      <3> QED BY <3>1
    <2>2. CASE k > i
      <3>1. k - 1 \in 1..Len(t) /\ old(k - 1) = k
        BY <2>2, <1>1
      <3> QED BY <3>1
    <2> QED BY <2>1, <2>2
  <1> HIDE DEF old
  <1>5. \A k, m \in 1..Len(t) : t[k] = t[m] => k = m
    BY <1>2, <1>3
  <1>6. ASSUME NEW v
        PROVE  (\E k \in 1..Len(t) : t[k] = v)
                 <=> (v # s[i] /\ \E k \in 1..Len(s) : s[k] = v)
    <2>1. ASSUME NEW k \in 1..Len(t), t[k] = v
          PROVE  v # s[i] /\ \E m \in 1..Len(s) : s[m] = v
      BY <2>1, <1>2
    <2>2. ASSUME v # s[i], NEW k \in 1..Len(s), s[k] = v
          PROVE  \E m \in 1..Len(t) : t[m] = v
      <3>1. k # i
        BY <2>2
      <3>2. PICK m \in 1..Len(t) : old(m) = k
        BY <3>1, <1>4
      <3> QED BY <3>2, <1>2, <2>2
    <2> QED BY <2>1, <2>2
  <1> QED BY <1>5, <1>6 DEF t

-----------------------------------------------------------------------------
(* The invariant *)

LEMMA SInit == Init => SInv
  <1> SUFFICES ASSUME Init PROVE SInv
    OBVIOUS
  <1>1. TypeOK
    <2>1. /\ cpc \in [Cleaners -> {"idle", "namespaces", "pods", "exited"}]
          /\ nsTodo \in [Cleaners -> SUBSET Namespaces]
          /\ todo \in [Cleaners -> SUBSET Jobs]
      BY DEF Init
    <2>2. /\ jobs \in [Queues -> Seq(Jobs)] /\ pods \in [Jobs -> PodState]
          /\ enq \in [Jobs -> {"new", "locked", "done"}]
          /\ runs \in [Jobs -> Nat] /\ lost \in [Jobs -> Nat]
      BY DEF Init, PodState
    <2>3. /\ known = {} /\ mu = NoJob /\ pc = "idle" /\ pending = {} /\ queue = NoQueue
          /\ idx = 1 /\ job = NoJob /\ failed = {} /\ stopping = FALSE /\ ready = Nodes
          /\ dropped = {} /\ kills = 0 /\ errors = 0
      BY DEF Init
    <2>4. /\ known \subseteq Queues /\ mu \in Jobs \cup {NoJob} /\ pending \subseteq known
          /\ pc \in {"idle", "queues", "loop", "create", "exited"}
          /\ pc \notin {"loop", "create"} /\ pc # "create"
          /\ idx \in Nat \ {0} /\ failed \subseteq Jobs /\ stopping \in BOOLEAN
          /\ ready \subseteq Nodes /\ dropped \subseteq Jobs /\ kills \in Nat /\ errors \in Nat
      <3>1. known \subseteq Queues
        BY <2>3
      <3>2. mu \in Jobs \cup {NoJob}
        BY <2>3
      <3>3. pending \subseteq known
        BY <2>3
      <3>4. pc \in {"idle", "queues", "loop", "create", "exited"}
        BY <2>3
      <3>5. pc \notin {"loop", "create"}
        BY <2>3
      <3>6. pc # "create"
        BY <2>3
      <3>7. idx \in Nat \ {0}
        BY <2>3
      <3>8. failed \subseteq Jobs
        BY <2>3
      <3>9. stopping \in BOOLEAN
        BY <2>3
      <3>10. ready \subseteq Nodes
        BY <2>3
      <3>11. dropped \subseteq Jobs
        BY <2>3
      <3>12. kills \in Nat
        BY <2>3
      <3>13. errors \in Nat
        BY <2>3
      <3> QED BY <3>1, <3>2, <3>3, <3>4, <3>5, <3>6, <3>7, <3>8, <3>9, <3>10, <3>11, <3>12, <3>13
    <2> QED BY <2>1, <2>2, <2>3, <2>4 DEF TypeOK
  <1>2. CursorIsExact
    BY DEF Init, CursorIsExact
  <1>3. JobAccounting
    BY SchedAssumption DEF Init, JobAccounting, Queued
  <1> QED BY <1>1, <1>2, <1>3 DEF SInv

\* What TypeOK says of the loop of one queue.
LEMMA InLoop ==
  ASSUME TypeOK, pc \in {"loop", "create"}
  PROVE  /\ queue \in Queues /\ queue \in known
         /\ jobs[queue] \in Seq(Jobs) /\ Len(jobs[queue]) \in Nat
         /\ idx \in Nat \ {0}
         /\ idx <= Len(jobs[queue]) => idx \in 1..Len(jobs[queue]) /\ jobs[queue][idx] \in Jobs
  <1>1. queue \in known /\ queue \in Queues /\ idx \in Nat \ {0}
    BY DEF TypeOK
  <1>2. jobs[queue] \in Seq(Jobs)
    BY <1>1 DEF TypeOK
  <1> QED BY <1>1, <1>2

LEMMA STypeOK == SInv /\ [Next]_vars => TypeOK'
  <1> SUFFICES ASSUME SInv, [Next]_vars PROVE TypeOK'
    OBVIOUS
  <1> USE DEF queues, inPass, cleanup, process, cluster
  <1>0. TypeOK
    BY DEF SInv
  <1>1. ASSUME NEW j \in Jobs, EnqueueLock(j) PROVE TypeOK'
    BY <1>0, <1>1, SchedAssumption DEF EnqueueLock, TypeOK
  <1>2. ASSUME NEW j \in Jobs, EnqueueAppend(j) PROVE TypeOK'
    <2>1. jobs' \in [Queues -> Seq(Jobs)]
      <3>1. QueueOf[j] \in Queues /\ jobs[QueueOf[j]] \in Seq(Jobs)
        BY <1>0, SchedAssumption DEF TypeOK
      <3>2. Append(jobs[QueueOf[j]], j) \in Seq(Jobs)
        BY <3>1
      <3> QED BY <1>0, <1>2, <3>2 DEF EnqueueAppend, TypeOK
    <2> QED BY <1>0, <1>2, <2>1 DEF EnqueueAppend, TypeOK
  <1>3. CASE PassStart
    BY <1>0, <1>3 DEF PassStart, TypeOK
  <1>4. ASSUME NEW q \in Queues, PassLock(q) PROVE TypeOK'
    BY <1>0, <1>4 DEF PassLock, TypeOK
  <1>5. CASE PassEnd
    BY <1>0, <1>5 DEF PassEnd, TypeOK
  <1>6. CASE PassUnlock
    BY <1>0, <1>6 DEF PassUnlock, TypeOK
  <1>7. ASSUME NEW j \in Jobs, Fail(j), pc \in {"loop", "create"},
               errors' \in Nat, runs' \in [Jobs -> Nat], lost' \in [Jobs -> Nat],
               pods' \in [Jobs -> PodState], ready' = ready
        PROVE  TypeOK'
    <2>1. /\ queue' = queue /\ queue \in known /\ known' = known /\ pending' = pending
          /\ pc' = "loop" /\ job' = NoJob
      BY <1>0, <1>7 DEF Fail, TypeOK
    <2>2. idx' \in Nat \ {0} /\ failed' \subseteq Jobs
      BY <1>0, <1>7 DEF Fail, TypeOK
    <2>3. UNCHANGED <<jobs, enq, mu, cleanup, stopping, dropped, kills>>
      BY <1>7 DEF Fail
    <2> QED BY <1>0, <1>7, <2>1, <2>2, <2>3 DEF TypeOK
  <1>8. CASE ListNodesFails
    <2>1. jobs[queue][idx] \in Jobs
      BY <1>0, <1>8, InLoop DEF ListNodesFails, LoopGoesOn
    <2>2. /\ errors' \in Nat /\ runs' \in [Jobs -> Nat] /\ lost' \in [Jobs -> Nat]
          /\ pods' \in [Jobs -> PodState] /\ ready' = ready
      BY <1>0, <1>8 DEF ListNodesFails, ApiError, TypeOK
    <2> QED BY <1>7, <1>8, <2>1, <2>2 DEF ListNodesFails
  <1>9. CASE NoSuitableNode
    <2>1. jobs[queue][idx] \in Jobs
      BY <1>0, <1>9, InLoop DEF NoSuitableNode, LoopGoesOn
    <2>2. /\ errors' \in Nat /\ runs' \in [Jobs -> Nat] /\ lost' \in [Jobs -> Nat]
          /\ pods' \in [Jobs -> PodState] /\ ready' = ready
      BY <1>0, <1>9 DEF NoSuitableNode, TypeOK
    <2> QED BY <1>7, <1>9, <2>1, <2>2 DEF NoSuitableNode
  <1>10. ASSUME NEW j \in Jobs, SelectNode(j) PROVE TypeOK'
    BY <1>0, <1>10 DEF SelectNode, TypeOK
  <1>11. ASSUME NEW j \in Jobs, CreatePod(j) PROVE TypeOK'
    <2>1. idx \in 1..Len(jobs[queue]) /\ jobs[queue] \in Seq(Jobs)
      BY <1>0, <1>11, InLoop DEF CreatePod, SInv, CursorIsExact
    <2>2. Without(jobs[queue], idx) \in Seq(Jobs)
      BY <2>1, WithoutFacts
    <2>3. jobs' \in [Queues -> Seq(Jobs)]
      BY <1>0, <1>11, <2>2 DEF CreatePod, TypeOK
    <2> QED BY <1>0, <1>11, <2>3 DEF CreatePod, TypeOK, PodState
  <1>12. ASSUME NEW j \in Jobs, CreateFails(j) PROVE TypeOK'
    <2>1. /\ errors' \in Nat /\ runs' \in [Jobs -> Nat] /\ lost' \in [Jobs -> Nat]
          /\ pods' \in [Jobs -> PodState] /\ ready' = ready
      BY <1>0, <1>12 DEF CreateFails, ApiError, TypeOK
    <2> QED BY <1>7, <1>12, <2>1 DEF CreateFails
  <1>13. ASSUME NEW j \in Jobs, CreateRefused(j) PROVE TypeOK'
    <2>1. /\ errors' \in Nat /\ runs' \in [Jobs -> Nat] /\ lost' \in [Jobs -> Nat]
          /\ pods' \in [Jobs -> PodState] /\ ready' = ready
      BY <1>0, <1>13 DEF CreateRefused, TypeOK
    <2> QED BY <1>7, <1>13, <2>1 DEF CreateRefused
  <1>14. ASSUME NEW j \in Jobs, CreateReplyLost(j) PROVE TypeOK'
    <2>1. /\ runs' \in [Jobs -> Nat] /\ lost' \in [Jobs -> Nat]
          /\ pods' \in [Jobs -> PodState] /\ errors' \in Nat
      BY <1>0, <1>14 DEF CreateReplyLost, TypeOK, PodState
    <2> QED BY <1>7, <1>14, <2>1 DEF CreateReplyLost
  <1>15. CASE Restart /\ kills' \in Nat
    <2>1. jobs' \in [Queues -> Seq(Jobs)] /\ enq' \in [Jobs -> {"new", "locked", "done"}]
      BY <1>0, <1>15 DEF Restart, TypeOK
    <2>2. /\ cpc' \in [Cleaners -> {"idle", "namespaces", "pods", "exited"}]
          /\ nsTodo' \in [Cleaners -> SUBSET Namespaces]
          /\ todo' \in [Cleaners -> SUBSET Jobs]
      BY <1>0, <1>15, SchedAssumption DEF Restart, TypeOK
    <2>3. /\ known' = {} /\ mu' = NoJob /\ pc' = "idle" /\ pending' = {}
          /\ queue' = NoQueue /\ idx' = 1 /\ job' = NoJob /\ failed' = {}
          /\ stopping' = FALSE /\ dropped' \subseteq Jobs
          /\ UNCHANGED <<errors, cluster>>
      BY <1>0, <1>15 DEF Restart, TypeOK
    <2>4. /\ known' \subseteq Queues /\ mu' \in Jobs \cup {NoJob} /\ pending' \subseteq known'
          /\ pc' \in {"idle", "queues", "loop", "create", "exited"}
          /\ pc' \notin {"loop", "create"} /\ pc' # "create"
          /\ idx' \in Nat \ {0} /\ failed' \subseteq Jobs /\ stopping' \in BOOLEAN
      <3>1. known' \subseteq Queues
        BY <2>3
      <3>2. mu' \in Jobs \cup {NoJob}
        BY <2>3
      <3>3. pending' \subseteq known'
        BY <2>3
      <3>4. pc' \in {"idle", "queues", "loop", "create", "exited"}
        BY <2>3
      <3>5. pc' \notin {"loop", "create"}
        BY <2>3
      <3>6. pc' # "create"
        BY <2>3
      <3>7. idx' \in Nat \ {0}
        BY <2>3
      <3>8. failed' \subseteq Jobs
        BY <2>3
      <3>9. stopping' \in BOOLEAN
        BY <2>3
      <3> QED BY <3>1, <3>2, <3>3, <3>4, <3>5, <3>6, <3>7, <3>8, <3>9
    <2> QED BY <1>0, <1>15, <2>1, <2>2, <2>3, <2>4 DEF TypeOK
  <1>16. CASE Panic \/ Kill
    <2>1. Restart
      BY <1>16 DEF Panic, Kill
    <2>2. kills \in Nat
      BY <1>0 DEF TypeOK
    <2>3. kills' \in Nat
      BY <1>16, <2>2 DEF Panic, Kill
    <2> QED BY <1>15, <2>1, <2>3
  <1>17. ASSUME NEW c \in Cleaners, Clean(c) PROVE TypeOK'
    <2>1. UNCHANGED <<queues, pc, inPass, stopping, dropped, kills, ready, runs, lost>>
      BY <1>17
      DEF Clean, CleanStart, CleanStartFails, CleanListPods, CleanListFails, CleanDelete,
          CleanDeleteFails, CleanNextNamespace, CleanEnd
    <2>2. /\ cpc' \in [Cleaners -> {"idle", "namespaces", "pods", "exited"}]
          /\ nsTodo' \in [Cleaners -> SUBSET Namespaces]
          /\ todo' \in [Cleaners -> SUBSET Jobs]
          /\ pods' \in [Jobs -> PodState]
          /\ errors' \in Nat
      <3> DEFINE Typed ==
            /\ cpc' \in [Cleaners -> {"idle", "namespaces", "pods", "exited"}]
            /\ nsTodo' \in [Cleaners -> SUBSET Namespaces]
            /\ todo' \in [Cleaners -> SUBSET Jobs]
            /\ pods' \in [Jobs -> PodState]
            /\ errors' \in Nat
      <3>1. CASE CleanStart(c)
        BY <1>0, <3>1 DEF CleanStart, TypeOK
      <3>7. CASE CleanStartFails(c)
        BY <1>0, <3>7 DEF CleanStartFails, ApiError, TypeOK
      <3>2. ASSUME NEW ns \in Namespaces, CleanListPods(c, ns) PROVE Typed
        BY <1>0, <3>2 DEF CleanListPods, TypeOK
      <3>3. ASSUME NEW ns \in Namespaces, CleanListFails(c, ns) PROVE Typed
        BY <1>0, <3>3 DEF CleanListFails, ApiError, TypeOK
      <3>4. ASSUME NEW j \in Jobs, CleanDelete(c, j) PROVE Typed
        BY <1>0, <3>4 DEF CleanDelete, TypeOK, PodState
      <3>5. ASSUME NEW j \in Jobs, CleanDeleteFails(c, j) PROVE Typed
        BY <1>0, <3>5 DEF CleanDeleteFails, ApiError, TypeOK
      <3>6. CASE CleanNextNamespace(c) \/ CleanEnd(c)
        BY <1>0, <3>6 DEF CleanNextNamespace, CleanEnd, TypeOK
      <3> QED BY <1>17, <3>1, <3>2, <3>3, <3>4, <3>5, <3>6, <3>7 DEF Clean
    <2> QED BY <1>0, <2>1, <2>2 DEF TypeOK
  <1>18. CASE Stop \/ LoopExit \/ CleanExit
    BY <1>0, <1>18 DEF Stop, LoopExit, CleanExit, TypeOK
  <1>19. CASE Cluster
    <2>1. pods' \in [Jobs -> PodState]
      <3>0. pods \in [Jobs -> PodState]
        BY <1>0 DEF TypeOK
      <3>1. ASSUME NEW j \in Jobs, NEW state \in {"succeeded", "failed"}, PodEnds(j, state)
            PROVE  pods' \in [Jobs -> PodState]
        BY <3>0, <3>1 DEF PodEnds, PodState
      <3>2. ASSUME NEW j \in Jobs, PodRemoved(j)
            PROVE  pods' \in [Jobs -> PodState]
        BY <3>0, <3>2 DEF PodRemoved, PodState
      <3>3. ASSUME NEW n \in FlakyNodes, NodeFlips(n)
            PROVE  pods' \in [Jobs -> PodState]
        BY <3>0, <3>3 DEF NodeFlips
      <3> QED BY <1>19, <3>1, <3>2, <3>3 DEF Cluster
    <2>3. ready' \subseteq Nodes
      BY <1>0, <1>19, SchedAssumption DEF Cluster, PodEnds, PodRemoved, NodeFlips, TypeOK
    <2>2. UNCHANGED <<queues, pc, inPass, cleanup, process, runs, lost>>
      BY <1>19 DEF Cluster, PodEnds, PodRemoved, NodeFlips
    <2> QED BY <1>0, <2>1, <2>2, <2>3 DEF TypeOK
  <1>20. CASE UNCHANGED vars
    BY <1>0, <1>20 DEF vars, TypeOK
  <1>21. CASE Pass
    BY <1>3, <1>4, <1>5, <1>6, <1>8, <1>9, <1>10, <1>11, <1>12, <1>13, <1>14, <1>16, <1>21
    DEF Pass
  <1>22. CASE \E j \in Jobs : Enqueue(j)
    BY <1>1, <1>2, <1>22 DEF Enqueue
  <1> QED BY <1>16, <1>17, <1>18, <1>19, <1>20, <1>21, <1>22 DEF Next

\* The steps that leave the queue being served and its cursor alone.
LEMMA CursorFrame ==
  ASSUME CursorIsExact, UNCHANGED <<pc, queue, idx, job, failed>>,
         pc \in {"loop", "create"} => jobs'[queue] = jobs[queue]
  PROVE  CursorIsExact'
  BY DEF CursorIsExact

\* A failed attempt moves the cursor past the job that failed.
LEMMA CursorFail ==
  ASSUME SInv, pc \in {"loop", "create"}, idx <= Len(jobs[queue]), Fail(jobs[queue][idx])
  PROVE  CursorIsExact'
  <1>1. /\ queue \in Queues /\ jobs[queue] \in Seq(Jobs) /\ Len(jobs[queue]) \in Nat
        /\ idx \in Nat \ {0}
    BY InLoop DEF SInv
  <1>2. /\ jobs' = jobs /\ queue' = queue /\ idx' = idx + 1 /\ pc' = "loop"
        /\ failed' = failed \cup {jobs[queue][idx]}
    BY DEF Fail, queues
  <1>3. {jobs[queue][k] : k \in 1..(idx - 1)} = failed
    BY DEF SInv, CursorIsExact
  <1>4. 1..((idx + 1) - 1) = 1..(idx - 1) \cup {idx}
    BY <1>1
  <1>5. {jobs[queue][k] : k \in 1..((idx + 1) - 1)} = failed'
    BY <1>2, <1>3, <1>4
  <1>6. (idx + 1) - 1 <= Len(jobs[queue])
    BY <1>1
  <1> QED BY <1>2, <1>5, <1>6 DEF CursorIsExact

LEMMA SCursor == SInv /\ [Next]_vars => CursorIsExact'
  <1> SUFFICES ASSUME SInv, [Next]_vars PROVE CursorIsExact'
    OBVIOUS
  <1>0. TypeOK /\ CursorIsExact
    BY DEF SInv
  <1>1. ASSUME NEW j \in Jobs, EnqueueLock(j) PROVE CursorIsExact'
    BY <1>0, <1>1, CursorFrame DEF EnqueueLock, inPass
  <1>2. ASSUME NEW j \in Jobs, EnqueueAppend(j) PROVE CursorIsExact'
    <2>1. /\ UNCHANGED <<pc, queue, idx, job, failed>>
          /\ jobs' = [jobs EXCEPT ![QueueOf[j]] = Append(@, j)]
          /\ queue # QueueOf[j]
      BY <1>2 DEF EnqueueAppend, inPass
    <2>2. pc \in {"loop", "create"} => jobs'[queue] = jobs[queue]
      BY <1>0, <2>1, InLoop DEF TypeOK
    <2> QED BY <1>0, <2>1, <2>2, CursorFrame
  <1>3. CASE PassStart \/ PassEnd \/ PassUnlock \/ LoopExit
    <2>1. pc' \in {"idle", "queues", "exited"}
      BY <1>3 DEF PassStart, PassEnd, PassUnlock, LoopExit
    <2> QED BY <2>1 DEF CursorIsExact
  <1>4. ASSUME NEW q \in Queues, PassLock(q) PROVE CursorIsExact'
    <2>1. /\ pc' = "loop" /\ queue' = q /\ idx' = 1 /\ failed' = {} /\ jobs' = jobs
      BY <1>4 DEF PassLock, queues
    <2>2. jobs[q] \in Seq(Jobs)
      BY <1>0 DEF TypeOK
    <2>3. 1 - 1 <= Len(jobs[q]) /\ {jobs[q][k] : k \in 1..(1 - 1)} = {}
      BY <2>2
    <2> QED BY <2>1, <2>3 DEF CursorIsExact
  <1>5. CASE ListNodesFails \/ NoSuitableNode
    BY <1>0, <1>5, CursorFail DEF ListNodesFails, NoSuitableNode, LoopGoesOn
  <1>6. ASSUME NEW j \in Jobs, SelectNode(j) PROVE CursorIsExact'
    BY <1>0, <1>6 DEF SelectNode, LoopGoesOn, CursorIsExact, queues
  <1>7. ASSUME NEW j \in Jobs, CreatePod(j) PROVE CursorIsExact'
    <2>1. /\ queue \in Queues /\ jobs[queue] \in Seq(Jobs) /\ idx \in 1..Len(jobs[queue])
          /\ pc = "create" /\ jobs \in [Queues -> Seq(Jobs)]
      BY <1>0, <1>7, InLoop DEF CreatePod, CursorIsExact, TypeOK
    <2>2. /\ jobs' = [jobs EXCEPT ![queue] = Without(@, idx)]
          /\ queue' = queue /\ idx' = idx /\ failed' = failed /\ pc' = "loop"
      BY <1>7 DEF CreatePod
    <2>3. jobs'[queue] = Without(jobs[queue], idx)
      BY <2>1, <2>2
    <2>4. /\ Len(Without(jobs[queue], idx)) = Len(jobs[queue]) - 1
          /\ \A k \in 1..(idx - 1) : Without(jobs[queue], idx)[k] = jobs[queue][k]
      BY <2>1, WithoutFacts
    <2>5. {Without(jobs[queue], idx)[k] : k \in 1..(idx - 1)} = failed
      BY <1>0, <2>1, <2>4 DEF CursorIsExact
    <2>6. idx - 1 <= Len(Without(jobs[queue], idx))
      BY <2>1, <2>4
    <2> QED BY <2>2, <2>3, <2>5, <2>6 DEF CursorIsExact
  <1>8. ASSUME NEW j \in Jobs, CreateFails(j) \/ CreateRefused(j) \/ CreateReplyLost(j)
        PROVE  CursorIsExact'
    <2>1. pc = "create" /\ job = j /\ Fail(j)
      BY <1>8 DEF CreateFails, CreateRefused, CreateReplyLost
    <2>2. idx <= Len(jobs[queue]) /\ jobs[queue][idx] = j
      BY <1>0, <2>1 DEF CursorIsExact
    <2> QED BY <2>1, <2>2, CursorFail
  <1>9. CASE Panic \/ Kill
    BY <1>9 DEF Panic, Kill, Restart, CursorIsExact
  <1>10. CASE \/ \E c \in Cleaners : Clean(c)
              \/ Stop \/ CleanExit \/ Cluster \/ UNCHANGED vars
    <2>1. UNCHANGED <<queues, pc, inPass>>
      BY <1>10
      DEF Clean, CleanStart, CleanStartFails, CleanListPods, CleanListFails, CleanDelete,
          CleanDeleteFails, CleanNextNamespace, CleanEnd, Stop, CleanExit, Cluster, PodEnds,
          PodRemoved, NodeFlips, vars
    <2> QED BY <1>0, <2>1, CursorFrame DEF queues, inPass
  <1> QED BY <1>1, <1>2, <1>3, <1>4, <1>5, <1>6, <1>7, <1>8, <1>9, <1>10
          DEF Next, Enqueue, Pass

\* The two halves of JobAccounting.
QueuesAreSets ==
    \A q \in Queues : \A i, k \in DOMAIN jobs[q] :
       QueueOf[jobs[q][i]] = q /\ (jobs[q][i] = jobs[q][k] => i = k)

Account(j) ==
    IF enq[j] # "done" THEN ~Queued(j) /\ runs[j] = 0 /\ lost[j] = 0 /\ j \notin dropped
    ELSE IF j \in dropped THEN ~Queued(j) /\ runs[j] = lost[j]
    ELSE IF Queued(j) THEN runs[j] = lost[j] ELSE runs[j] = lost[j] + 1

LEMMA Halves == JobAccounting <=> QueuesAreSets /\ \A j \in Jobs : Account(j)
  BY DEF JobAccounting, QueuesAreSets, Account

LEMMA HalvesNext == JobAccounting' <=> QueuesAreSets' /\ (\A j \in Jobs : Account(j))'
  BY DEF JobAccounting, QueuesAreSets, Account

\* The job in hand waits in the queue being served and nowhere else.
LEMMA InHand ==
  ASSUME SInv, pc = "create", NEW j \in Jobs, job = j
  PROVE  /\ queue \in Queues /\ QueueOf[j] = queue /\ Queued(j)
         /\ jobs \in [Queues -> Seq(Jobs)] /\ jobs[queue] \in Seq(Jobs)
         /\ idx \in 1..Len(jobs[queue]) /\ jobs[queue][idx] = j
         /\ enq[j] = "done" /\ j \notin dropped /\ runs[j] = lost[j]
  <1>1. /\ queue \in Queues /\ jobs[queue] \in Seq(Jobs) /\ jobs \in [Queues -> Seq(Jobs)]
        /\ idx \in 1..Len(jobs[queue]) /\ jobs[queue][idx] = j
    BY InLoop DEF SInv, CursorIsExact, TypeOK
  <1>2. QueueOf[j] = queue
    BY <1>1 DEF SInv, JobAccounting
  <1>3. Queued(j)
    BY <1>1, <1>2 DEF Queued
  <1>4. Account(j)
    BY Halves DEF SInv
  <1> QED BY <1>1, <1>2, <1>3, <1>4 DEF Account

LEMMA SAccounting == SInv /\ [Next]_vars => JobAccounting'
  <1> SUFFICES ASSUME SInv, [Next]_vars PROVE JobAccounting'
    OBVIOUS
  <1>0. TypeOK /\ QueuesAreSets /\ \A j \in Jobs : Account(j)
    BY Halves DEF SInv
  <1>1. ASSUME UNCHANGED <<jobs, enq, runs, lost, dropped>> PROVE JobAccounting'
    BY <1>1 DEF SInv, JobAccounting, Queued
  <1>2. ASSUME NEW j \in Jobs, EnqueueLock(j) PROVE JobAccounting'
    <2>1. /\ UNCHANGED <<jobs, runs, lost, dropped>>
          /\ enq[j] = "new" /\ enq' = [enq EXCEPT ![j] = "locked"]
          /\ enq \in [Jobs -> {"new", "locked", "done"}]
      BY <1>0, <1>2 DEF EnqueueLock, TypeOK, cluster, process
    <2>2. \A k \in Jobs : (enq'[k] = "done") <=> (enq[k] = "done")
      BY <2>1
    <2> QED BY <2>1, <2>2 DEF SInv, JobAccounting, Queued
  <1>3. ASSUME NEW j \in Jobs, EnqueueAppend(j) PROVE JobAccounting'
    <2> DEFINE q == QueueOf[j]
               s == jobs[q]
    <2>1. /\ q \in Queues /\ s \in Seq(Jobs) /\ Len(s) \in Nat
          /\ jobs \in [Queues -> Seq(Jobs)]
          /\ enq \in [Jobs -> {"new", "locked", "done"}]
      BY <1>0, SchedAssumption DEF TypeOK
    <2>2. /\ jobs' = [jobs EXCEPT ![q] = Append(s, j)]
          /\ enq' = [enq EXCEPT ![j] = "done"] /\ enq[j] = "locked"
          /\ UNCHANGED <<runs, lost, dropped>>
      BY <1>3 DEF EnqueueAppend, cluster, process
    <2>3. /\ ~Queued(j) /\ runs[j] = 0 /\ lost[j] = 0 /\ j \notin dropped
      BY <1>0, <2>2 DEF Account
    <2>4. /\ Len(Append(s, j)) = Len(s) + 1 /\ DOMAIN Append(s, j) = 1..(Len(s) + 1)
          /\ \A i \in 1..Len(s) : Append(s, j)[i] = s[i]
          /\ Append(s, j)[Len(s) + 1] = j
          /\ DOMAIN s = 1..Len(s)
      BY <2>1
    <2>5. \A i \in 1..Len(s) : s[i] # j
      BY <2>3, <2>4 DEF Queued
    <2>6. /\ jobs'[q] = Append(s, j)
          /\ \A r \in Queues : r # q => jobs'[r] = jobs[r]
      BY <2>1, <2>2
    <2>7. QueuesAreSets'
      <3> SUFFICES ASSUME NEW r \in Queues, NEW i \in DOMAIN jobs'[r], NEW k \in DOMAIN jobs'[r]
                   PROVE  QueueOf[jobs'[r][i]] = r /\ (jobs'[r][i] = jobs'[r][k] => i = k)
        BY DEF QueuesAreSets
      <3>1. CASE r # q
        BY <3>1, <1>0, <2>6 DEF QueuesAreSets
      <3>2. CASE r = q
        <4>1. i \in 1..(Len(s) + 1) /\ k \in 1..(Len(s) + 1)
          BY <3>2, <2>4, <2>6
        <4>2. \A m, n \in 1..Len(s) : QueueOf[s[m]] = q /\ (s[m] = s[n] => m = n)
          BY <1>0, <2>1, <2>4 DEF QueuesAreSets
        <4>3. QueueOf[Append(s, j)[i]] = q
          BY <4>1, <4>2, <2>1, <2>4
        <4>4. Append(s, j)[i] = Append(s, j)[k] => i = k
          BY <4>1, <4>2, <2>1, <2>4, <2>5
        <4> QED BY <3>2, <4>3, <4>4, <2>6
      <3> QED BY <3>1, <3>2
    <2>8. ASSUME NEW x \in Jobs PROVE Account(x)'
      <3>1. CASE x = j
        <4>1. Len(s) + 1 \in DOMAIN jobs'[q] /\ jobs'[q][Len(s) + 1] = j
          BY <2>1, <2>4, <2>6
        <4>2. Queued(j)'
          BY <4>1 DEF Queued
        <4>3. enq'[j] = "done"
          BY <2>1, <2>2
        <4> QED BY <3>1, <4>2, <4>3, <2>2, <2>3 DEF Account
      <3>2. CASE x # j
        <4>1. Queued(x)' <=> Queued(x)
          <5>1. CASE QueueOf[x] = q
            BY <5>1, <3>2, <2>1, <2>4, <2>6 DEF Queued
          <5>2. CASE QueueOf[x] # q
            BY <5>2, <2>6, SchedAssumption DEF Queued
          <5> QED BY <5>1, <5>2
        <4>2. enq'[x] = enq[x] /\ UNCHANGED <<runs, lost, dropped>>
          BY <3>2, <2>1, <2>2
        <4> QED BY <4>1, <4>2, <1>0 DEF Account
      <3> QED BY <3>1, <3>2
    <2> QED BY <2>7, <2>8, HalvesNext
  <1>4. ASSUME NEW j \in Jobs, CreatePod(j) PROVE JobAccounting'
    <2> DEFINE s == jobs[queue]
               t == Without(s, idx)
    <2>1. /\ queue \in Queues /\ QueueOf[j] = queue /\ Queued(j)
          /\ jobs \in [Queues -> Seq(Jobs)] /\ s \in Seq(Jobs)
          /\ idx \in 1..Len(s) /\ s[idx] = j
          /\ enq[j] = "done" /\ j \notin dropped /\ runs[j] = lost[j]
      BY <1>4, InHand DEF CreatePod
    <2>2. /\ jobs' = [jobs EXCEPT ![queue] = t]
          /\ runs' = [runs EXCEPT ![j] = @ + 1]
          /\ UNCHANGED <<enq, lost, dropped>>
      BY <1>4 DEF CreatePod, process
    <2>3. /\ jobs'[queue] = t /\ \A r \in Queues : r # queue => jobs'[r] = jobs[r]
      BY <2>1, <2>2
    <2>4. \A k, m \in 1..Len(s) : QueueOf[s[k]] = queue /\ (s[k] = s[m] => k = m)
      BY <1>0, <2>1 DEF QueuesAreSets
    <2>5. /\ \A k, m \in 1..Len(t) : t[k] = t[m] => k = m
          /\ \A v : (\E k \in 1..Len(t) : t[k] = v) <=> (v # j /\ \E k \in 1..Len(s) : s[k] = v)
      <3>1. \A k, m \in 1..Len(s) : s[k] = s[m] => k = m
        BY <2>4
      <3>2. s \in Seq(Jobs) /\ idx \in 1..Len(s) /\ s[idx] = j
        BY <2>1
      <3> HIDE DEF s
      <3>3. /\ \A k, m \in 1..Len(t) : t[k] = t[m] => k = m
            /\ \A v : (\E k \in 1..Len(t) : t[k] = v)
                        <=> (v # s[idx] /\ \E k \in 1..Len(s) : s[k] = v)
        BY <3>1, <3>2, WithoutValues
      <3> QED BY <3>2, <3>3
    <2>6. t \in Seq(Jobs) /\ DOMAIN t = 1..Len(t) /\ DOMAIN s = 1..Len(s)
      BY <2>1, WithoutFacts
    <2> HIDE DEF t
    <2>7. QueuesAreSets'
      <3> SUFFICES ASSUME NEW r \in Queues, NEW i \in DOMAIN jobs'[r], NEW k \in DOMAIN jobs'[r]
                   PROVE  QueueOf[jobs'[r][i]] = r /\ (jobs'[r][i] = jobs'[r][k] => i = k)
        BY DEF QueuesAreSets
      <3>1. CASE r # queue
        BY <3>1, <1>0, <2>3 DEF QueuesAreSets
      <3>2. CASE r = queue
        <4>1. i \in 1..Len(t) /\ k \in 1..Len(t) /\ jobs'[r] = t
          BY <3>2, <2>3, <2>6
        <4>2. PICK m \in 1..Len(s) : s[m] = t[i]
          BY <4>1, <2>5
        <4>3. QueueOf[t[i]] = queue
          BY <4>2, <2>4
        <4> QED BY <3>2, <4>1, <4>3, <2>5
      <3> QED BY <3>1, <3>2
    <2>8. ASSUME NEW x \in Jobs PROVE Account(x)'
      <3>1. CASE x = j
        <4>1. ~Queued(j)'
          BY <2>1, <2>3, <2>5, <2>6 DEF Queued
        <4>2. runs'[j] = lost[j] + 1
          BY <1>0, <2>1, <2>2 DEF TypeOK
        <4> QED BY <3>1, <4>1, <4>2, <2>1, <2>2 DEF Account
      <3>2. CASE x # j
        <4>1. Queued(x)' <=> Queued(x)
          <5>1. CASE QueueOf[x] = queue
            <6>1. Queued(x)' <=> \E k \in 1..Len(t) : t[k] = x
              BY <5>1, <2>3, <2>6 DEF Queued
            <6>2. Queued(x) <=> \E k \in 1..Len(s) : s[k] = x
              BY <5>1, <2>6 DEF Queued
            <6> QED BY <6>1, <6>2, <3>2, <2>5
          <5>2. CASE QueueOf[x] # queue
            BY <5>2, <2>3, SchedAssumption DEF Queued
          <5> QED BY <5>1, <5>2
        <4>2. runs'[x] = runs[x] /\ UNCHANGED <<enq, lost, dropped>>
          BY <1>0, <3>2, <2>2 DEF TypeOK
        <4> QED BY <4>1, <4>2, <1>0 DEF Account
      <3> QED BY <3>1, <3>2
    <2> QED BY <2>7, <2>8, HalvesNext
  <1>5. ASSUME NEW j \in Jobs, CreateReplyLost(j) PROVE JobAccounting'
    <2>1. Queued(j) /\ enq[j] = "done" /\ j \notin dropped /\ runs[j] = lost[j]
      BY <1>5, InHand DEF CreateReplyLost
    <2>2. /\ runs' = [runs EXCEPT ![j] = @ + 1] /\ lost' = [lost EXCEPT ![j] = @ + 1]
          /\ UNCHANGED <<jobs, enq, dropped>>
      BY <1>5 DEF CreateReplyLost, Fail, queues
    <2>3. ASSUME NEW x \in Jobs PROVE Account(x)'
      <3>1. Queued(x)' <=> Queued(x)
        BY <2>2 DEF Queued
      <3>2. CASE x = j
        <4>1. runs'[j] = lost'[j]
          BY <1>0, <2>1, <2>2 DEF TypeOK
        <4> QED BY <3>1, <3>2, <4>1, <2>1, <2>2 DEF Account
      <3>3. CASE x # j
        <4>1. runs'[x] = runs[x] /\ lost'[x] = lost[x]
          BY <1>0, <3>3, <2>2 DEF TypeOK
        <4> QED BY <3>1, <4>1, <2>2, <1>0 DEF Account
      <3> QED BY <3>2, <3>3
    <2>4. QueuesAreSets'
      BY <1>0, <2>2 DEF QueuesAreSets
    <2> QED BY <2>3, <2>4, HalvesNext
  <1>6. CASE Restart
    <2>1. /\ dropped' = dropped \cup {j \in Jobs : Queued(j) \/ enq[j] = "locked"}
          /\ enq' = [j \in Jobs |-> IF enq[j] = "locked" THEN "done" ELSE enq[j]]
          /\ jobs' = [q \in Queues |-> <<>>]
          /\ UNCHANGED <<runs, lost>>
      BY <1>6 DEF Restart, cluster
    <2>2. QueuesAreSets'
      BY <2>1 DEF QueuesAreSets
    <2>3. ASSUME NEW x \in Jobs PROVE Account(x)'
      <3>1. ~Queued(x)'
        BY <2>1, SchedAssumption DEF Queued
      <3>2. enq'[x] = IF enq[x] = "locked" THEN "done" ELSE enq[x]
        BY <2>1
      <3>3. x \in dropped' <=> (x \in dropped \/ Queued(x) \/ enq[x] = "locked")
        BY <2>1
      <3>4. Account(x) /\ runs[x] \in Nat /\ lost[x] \in Nat
        BY <1>0 DEF TypeOK
      <3> QED BY <3>1, <3>2, <3>3, <3>4, <2>1 DEF Account
    <2> QED BY <2>2, <2>3, HalvesNext
  <1>7. CASE \/ PassStart \/ PassEnd \/ PassUnlock \/ ListNodesFails \/ NoSuitableNode
             \/ \E q \in Queues : PassLock(q)
             \/ \E j \in Jobs : SelectNode(j) \/ CreateFails(j) \/ CreateRefused(j)
    BY <1>1, <1>7
    DEF PassStart, PassEnd, PassUnlock, PassLock, ListNodesFails, NoSuitableNode, SelectNode,
        CreateFails, CreateRefused, Fail, queues, process, cluster
  <1>8. CASE \/ \E c \in Cleaners : Clean(c)
             \/ Stop \/ LoopExit \/ CleanExit \/ Cluster \/ UNCHANGED vars
    BY <1>1, <1>8
    DEF Clean, CleanStart, CleanStartFails, CleanListPods, CleanListFails, CleanDelete,
        CleanDeleteFails, CleanNextNamespace, CleanEnd, Stop, LoopExit, CleanExit, Cluster,
        PodEnds, PodRemoved, NodeFlips, queues, process, cluster, vars
  <1> QED BY <1>2, <1>3, <1>4, <1>5, <1>6, <1>7, <1>8
          DEF Next, Enqueue, Pass, Panic, Kill

LEMMA SStep == SInv /\ [Next]_vars => SInv'
  BY STypeOK, SCursor, SAccounting DEF SInv

-----------------------------------------------------------------------------
(* Theorems *)

\* Type correctness, and that a pass holds the lock of exactly the queue it
\* serves.
THEOREM SchedTypeOK == Spec => []TypeOK
  <1>1. SInv => TypeOK
    BY DEF SInv
  <1> QED BY SInit, SStep, <1>1, PTL DEF Spec

\* No pass passes over an untried job or removes another job than it scheduled,
\* for any number of queues, callers and workers.
THEOREM SchedCursorIsExact == Spec => []CursorIsExact
  <1>1. SInv => CursorIsExact
    BY DEF SInv
  <1> QED BY SInit, SStep, <1>1, PTL DEF Spec

\* Every accepted job waits or was run exactly once, lost replies and restarts
\* apart.
THEOREM SchedJobAccounting == Spec => []JobAccounting
  <1>1. SInv => JobAccounting
    BY DEF SInv
  <1> QED BY SInit, SStep, <1>1, PTL DEF Spec

-----------------------------------------------------------------------------
(* With one cleanup loop a pod that was listed as finished stays finished until
   that loop deletes it: only the loop deletes pods, and a name is free for a
   new pod only after a deletion. *)
ListingFresh == \A c \in Cleaners : \A j \in todo[c] : Finished(j)

LEMMA FreshStep ==
  ASSUME Cleaners = {Self}, TypeOK, ListingFresh, [Next]_vars
  PROVE  /\ ListingFresh'
         /\ [\A j \in Jobs : pods[j] = "running" => pods'[j] # "terminating"]_vars
  <1> DEFINE Spares == \A j \in Jobs : pods[j] = "running" => pods'[j] # "terminating"
  <1>0. /\ pods \in [Jobs -> PodState] /\ todo \in [Cleaners -> SUBSET Jobs]
        /\ \A j \in todo[Self] : Finished(j)
    BY SchedAssumption DEF TypeOK, ListingFresh
  <1>1. ASSUME UNCHANGED <<pods, todo>> PROVE ListingFresh' /\ Spares
    <2>1. Spares
      BY <1>0, <1>1
    <2> QED BY <2>1, <1>1 DEF ListingFresh, Finished
  <1>2. ASSUME NEW j \in Jobs, CreatePod(j) \/ CreateReplyLost(j)
        PROVE  ListingFresh' /\ Spares
    <2>1. /\ pods[j] = "none" /\ pods' = [pods EXCEPT ![j] = "running"] /\ todo' = todo
      BY <1>2 DEF CreatePod, CreateReplyLost, Creatable, Fail, cleanup
    <2>2. \A k \in Jobs : k # j => pods'[k] = pods[k]
      BY <1>0, <2>1
    <2>3. j \notin todo[Self]
      BY <1>0, <2>1 DEF Finished
    <2>4. pods'[j] = "running"
      BY <1>0, <2>1
    <2>5. Spares
      BY <2>2, <2>4
    <2>6. \A k \in todo[Self] : k # j /\ k \in Jobs
      BY <1>0, <2>3
    <2>7. \A k \in todo'[Self] : Finished(k)'
      BY <1>0, <2>1, <2>2, <2>6 DEF Finished
    <2> QED BY <2>5, <2>7 DEF ListingFresh
  <1>3. ASSUME NEW ns \in Namespaces, CleanListPods(Self, ns)
        PROVE  ListingFresh' /\ Spares
    <2>1. /\ pods' = pods
          /\ todo' = [todo EXCEPT ![Self] = {j \in Jobs : NamespaceOf[j] = ns /\ Finished(j)}]
      BY <1>3 DEF CleanListPods, cluster
    <2>2. todo'[Self] = {j \in Jobs : NamespaceOf[j] = ns /\ Finished(j)}
      BY <1>0, <2>1
    <2>3. \A j \in todo'[Self] : Finished(j)'
      BY <2>1, <2>2 DEF Finished
    <2>4. Spares
      BY <2>1, <1>0
    <2> QED BY <2>3, <2>4 DEF ListingFresh
  <1>4. ASSUME NEW j \in Jobs, CleanDelete(Self, j) PROVE ListingFresh' /\ Spares
    <2>1. /\ j \in todo[Self]
          /\ todo' = [todo EXCEPT ![Self] = @ \ {j}]
          /\ pods' = [pods EXCEPT ![j] = IF @ = "none" THEN @ ELSE "terminating"]
      BY <1>4 DEF CleanDelete
    <2>2. \A k \in Jobs : k # j => pods'[k] = pods[k]
      BY <1>0, <2>1
    <2>3. Finished(j)
      BY <1>0, <2>1
    <2>4. Spares
      BY <2>2, <2>3 DEF Finished
    <2>5. todo'[Self] = todo[Self] \ {j}
      BY <1>0, <2>1
    <2>6. \A k \in todo'[Self] : k \in Jobs /\ k # j /\ Finished(k)
      BY <1>0, <2>5
    <2>7. \A k \in todo'[Self] : Finished(k)'
      BY <2>2, <2>6 DEF Finished
    <2> QED BY <2>4, <2>7 DEF ListingFresh
  <1>5. ASSUME NEW j \in Jobs, CleanDeleteFails(Self, j) PROVE ListingFresh' /\ Spares
    <2>1. pods' = pods /\ todo' = [todo EXCEPT ![Self] = @ \ {j}]
      BY <1>5 DEF CleanDeleteFails, cluster
    <2>2. todo'[Self] \subseteq todo[Self]
      BY <1>0, <2>1
    <2>3. \A k \in todo'[Self] : Finished(k)'
      BY <1>0, <2>1, <2>2 DEF Finished
    <2>4. Spares
      BY <2>1, <1>0
    <2> QED BY <2>3, <2>4 DEF ListingFresh
  <1>6. CASE Restart
    <2>1. pods' = pods /\ todo' = [todo EXCEPT ![Self] = {}]
      BY <1>6 DEF Restart, cluster
    <2>2. todo'[Self] = {}
      BY <1>0, <2>1
    <2>3. Spares
      BY <2>1, <1>0
    <2> QED BY <2>2, <2>3 DEF ListingFresh
  <1>7. ASSUME NEW j \in Jobs, NEW state \in {"succeeded", "failed"}, PodEnds(j, state)
        PROVE  ListingFresh' /\ Spares
    <2>1. pods' = [pods EXCEPT ![j] = state] /\ todo' = todo /\ pods[j] = "running"
      BY <1>7 DEF PodEnds, cleanup
    <2>2. pods'[j] = state /\ \A k \in Jobs : k # j => pods'[k] = pods[k]
      BY <1>0, <2>1
    <2>3. \A k \in todo'[Self] : Finished(k)'
      BY <1>0, <2>1, <2>2 DEF Finished
    <2>4. Spares
      BY <2>2
    <2> QED BY <2>3, <2>4 DEF ListingFresh
  <1>8. ASSUME NEW j \in Jobs, PodRemoved(j) PROVE ListingFresh' /\ Spares
    <2>1. pods' = [pods EXCEPT ![j] = "none"] /\ todo' = todo /\ pods[j] = "terminating"
      BY <1>8 DEF PodRemoved, cleanup
    <2>2. pods'[j] = "none" /\ \A k \in Jobs : k # j => pods'[k] = pods[k]
      BY <1>0, <2>1
    <2>3. j \notin todo[Self]
      BY <1>0, <2>1 DEF Finished
    <2>4. \A k \in todo'[Self] : Finished(k)'
      BY <1>0, <2>1, <2>2, <2>3 DEF Finished
    <2>5. Spares
      BY <2>2
    <2> QED BY <2>4, <2>5 DEF ListingFresh
  <1>9. CASE \/ \E j \in Jobs : Enqueue(j) \/ SelectNode(j) \/ CreateFails(j) \/ CreateRefused(j)
             \/ PassStart \/ PassEnd \/ PassUnlock \/ ListNodesFails \/ NoSuitableNode
             \/ \E q \in Queues : PassLock(q)
             \/ CleanStart(Self) \/ CleanStartFails(Self)
             \/ \E ns \in Namespaces : CleanListFails(Self, ns)
             \/ CleanNextNamespace(Self) \/ CleanEnd(Self)
             \/ Stop \/ LoopExit \/ CleanExit
             \/ \E n \in FlakyNodes : NodeFlips(n)
             \/ UNCHANGED vars
    BY <1>1, <1>9
    DEF Enqueue, EnqueueLock, EnqueueAppend, SelectNode, CreateFails, CreateRefused, Fail,
        PassStart, PassEnd, PassUnlock, PassLock, ListNodesFails, NoSuitableNode,
        CleanStart, CleanStartFails, CleanListFails, CleanNextNamespace, CleanEnd,
        Stop, LoopExit, CleanExit, NodeFlips, cleanup, cluster, vars
  <1> QED BY <1>2, <1>3, <1>4, <1>5, <1>6, <1>7, <1>8, <1>9
          DEF Next, Pass, Panic, Kill, Clean, Cluster

\* With a single replica the cleanup loop never deletes a running pod, although
\* it deletes by name from an old listing.  (With two it may: MCSchedReplicas.)
THEOREM SchedCleanerSparesRunning ==
  ASSUME Cleaners = {Self} PROVE Spec => CleanerSparesRunning
  <1> DEFINE Spares == \A j \in Jobs : pods[j] = "running" => pods'[j] # "terminating"
  <1>1. Init => SInv /\ ListingFresh
    BY SInit DEF Init, ListingFresh
  <1>2. SInv /\ ListingFresh /\ [Next]_vars => SInv' /\ ListingFresh' /\ [Spares]_vars
    BY SStep, FreshStep DEF SInv
  <1>3. Spec => [][Spares]_vars
    BY <1>1, <1>2, PTL DEF Spec
  <1> QED BY <1>3 DEF CleanerSparesRunning
=============================================================================
