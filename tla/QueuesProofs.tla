---------------------------- MODULE QueuesProofs ----------------------------
(***************************************************************************)
(* Proofs about Queues, for any jobs, queues, priorities and limits, any   *)
(* number of gangs of any size and any number of goroutines that schedule  *)
(* them.                                                                   *)
(*                                                                         *)
(* The queue manager implements PriorityDispatch: a queue is a sequence    *)
(* there, and PriorityDispatch has a set of jobs and who came earlier.     *)
(* The two agree because entries are appended, and because a job waits     *)
(* once and in the queue it asks for (Once), so that the entry the code    *)
(* removes is the job dispatched and no other.                             *)
(*                                                                         *)
(* ScheduleGang works on the gang after it has given up the lock.  What    *)
(* keeps it right is the status: while a goroutine works on a gang of      *)
(* fixed size, the gang is full, so that nobody joins it and makes it      *)
(* ready again, and "scheduling", so that nobody else starts on it.  GInv  *)
(* says so, and at which step the pods exist.                              *)
(***************************************************************************)
EXTENDS Queues, FiniteSetTheorems, TLAPS

-----------------------------------------------------------------------------
(* The queue manager *)

NewOnes(s) == {i \in DOMAIN s : ~s[i].requeued}

Typed ==
    /\ DOMAIN queues \subseteq QueueNames
    /\ \A q \in DOMAIN queues : queues[q] \in Seq(QueuedJob)
    /\ held \subseteq Jobs

Once ==
    \A q, r \in DOMAIN queues : \A i \in DOMAIN queues[q], k \in DOMAIN queues[r] :
       /\ queues[q][i].job \notin held
       /\ JobQueue[queues[q][i].job] = q
       /\ queues[q][i].job = queues[r][k].job => q = r /\ i = k

Bounded ==
    \A q \in DOMAIN queues : MaxLen[q] > 0 => Cardinality(NewOnes(queues[q])) <= MaxLen[q]

QInv == Typed /\ Once /\ Bounded /\ IsFiniteSet(DOMAIN queues)

LEMMA TypeParts == QInv => TypeOK
  BY DEF QInv, Typed, Once, Bounded, NewOnes, TypeOK

-----------------------------------------------------------------------------
(* A sequence that loses an element *)

LEMMA WithoutFacts ==
  ASSUME NEW S, NEW s \in Seq(S), NEW i \in 1..Len(s)
  PROVE  /\ Without(s, i) \in Seq(S)
         /\ Len(Without(s, i)) = Len(s) - 1
         /\ \A k \in 1..(Len(s) - 1) : Without(s, i)[k] = s[IF k < i THEN k ELSE k + 1]
  <1> DEFINE a == SubSeq(s, 1, i - 1)
             b == SubSeq(s, i + 1, Len(s))
  <1>1. /\ a \in Seq(S) /\ Len(a) = i - 1
        /\ \A k \in 1..(i - 1) : a[k] = s[k]
    OBVIOUS
  <1>2. /\ b \in Seq(S) /\ Len(b) = Len(s) - i
        /\ \A k \in 1..(Len(s) - i) : b[k] = s[i + k]
    OBVIOUS
  <1>3. Without(s, i) = a \o b
    BY DEF Without
  <1> HIDE DEF a, b
  <1>4. a \o b \in Seq(S) /\ Len(a \o b) = Len(s) - 1
    <2>1. a \in Seq(S) /\ b \in Seq(S) /\ Len(s) \in Nat
      BY <1>1, <1>2
    <2>2. a \o b \in Seq(S) /\ Len(a \o b) = Len(a) + Len(b)
      BY <2>1
    <2> QED BY <1>1, <1>2, <2>1, <2>2
  <1>5. ASSUME NEW k \in 1..(Len(s) - 1)
        PROVE  (a \o b)[k] = IF k < i THEN a[k] ELSE b[k - (i - 1)]
    <2>1. Len(s) \in Nat /\ Len(a) + Len(b) = Len(s) - 1 /\ k \in 1..(Len(a) + Len(b))
      BY <1>1, <1>2
    <2>2. (a \o b)[k] = IF k <= Len(a) THEN a[k] ELSE b[k - Len(a)]
      BY <1>1, <1>2, <2>1
    <2> QED BY <1>1, <2>2
  <1>6. ASSUME NEW k \in 1..(Len(s) - 1)
        PROVE  (a \o b)[k] = s[IF k < i THEN k ELSE k + 1]
    <2>1. CASE k < i
      BY <1>1, <1>5, <2>1
    <2>2. CASE ~(k < i)
      <3>1. k - (i - 1) \in 1..(Len(s) - i) /\ i + (k - (i - 1)) = k + 1
        BY <2>2
      <3>2. b[k - (i - 1)] = s[k + 1]
        BY <1>2, <3>1
      <3> QED BY <1>5, <2>2, <3>2
    <2> QED BY <2>1, <2>2
  <1> QED BY <1>3, <1>4, <1>6

\* It has no more new jobs than before.
LEMMA WithoutNewOnes ==
  ASSUME NEW s \in Seq(QueuedJob), NEW i \in 1..Len(s)
  PROVE  Cardinality(NewOnes(Without(s, i))) <= Cardinality(NewOnes(s))
  <1> DEFINE t == Without(s, i)
             f == [k \in NewOnes(t) |-> IF k < i THEN k ELSE k + 1]
  <1>1. /\ t \in Seq(QueuedJob) /\ Len(t) = Len(s) - 1
        /\ \A k \in 1..(Len(s) - 1) : t[k] = s[IF k < i THEN k ELSE k + 1]
    BY WithoutFacts
  <1> HIDE DEF t
  <1>2. \A k \in NewOnes(t) : k \in 1..(Len(s) - 1) /\ f[k] \in NewOnes(s)
    BY <1>1 DEF NewOnes
  <1>3. \A k, m \in NewOnes(t) : f[k] = f[m] => k = m
    BY <1>2
  <1>4. f \in Injection(NewOnes(t), NewOnes(s))
    BY <1>2, <1>3 DEF Injection, IsInjective
  <1>5. IsFiniteSet(NewOnes(s))
    <2>1. NewOnes(s) \subseteq 1..Len(s) /\ IsFiniteSet(1..Len(s))
      BY FS_Interval DEF NewOnes
    <2> QED BY <2>1, FS_Subset
  <1> HIDE DEF f
  <1>6. Cardinality(NewOnes(t)) <= Cardinality(NewOnes(s))
    BY <1>4, <1>5, FS_Injection
  <1> QED BY <1>6 DEF t

-----------------------------------------------------------------------------
(* The invariant is inductive *)

LEMMA EntryTypes ==
  ASSUME QInv, NEW q \in DOMAIN queues
  PROVE  /\ queues[q] \in Seq(QueuedJob) /\ Len(queues[q]) \in Nat
         /\ DOMAIN queues[q] = 1..Len(queues[q])
         /\ \A k \in DOMAIN queues[q] : /\ queues[q][k] \in QueuedJob
                                       /\ queues[q][k].job \in Jobs
  <1>1. queues[q] \in Seq(QueuedJob)
    BY DEF QInv, Typed
  <1>2. \A k \in DOMAIN queues[q] : queues[q][k] \in QueuedJob
    BY <1>1
  <1>3. \A e \in QueuedJob : e.job \in Jobs
    BY DEF QueuedJob
  <1> QED BY <1>1, <1>2, <1>3

\* What Put does: the queue of j gets one more entry, at its end.
LEMMA PutFacts ==
  ASSUME QInv, NEW j \in Jobs, NEW r \in BOOLEAN, Put(j, r)
  PROVE  \E q \in DOMAIN queues, e \in QueuedJob :
            /\ q = JobQueue[j] /\ e = [job |-> j, requeued |-> r]
            /\ DOMAIN queues' = DOMAIN queues
            /\ \A p \in DOMAIN queues : p # q => queues'[p] = queues[p]
            /\ queues'[q] \in Seq(QueuedJob)
            /\ Len(queues'[q]) = Len(queues[q]) + 1
            /\ \A k \in DOMAIN queues[q] : queues'[q][k] = queues[q][k]
            /\ queues'[q][Len(queues[q]) + 1] = e
  <1>1. PICK q \in DOMAIN queues : q = JobQueue[j]
    BY DEF Put
  <1>2. PICK e \in QueuedJob : e = [job |-> j, requeued |-> r]
    BY DEF QueuedJob
  <1>3. queues' = [queues EXCEPT ![q] = Append(@, e)]
    BY <1>1, <1>2 DEF Put
  <1>4. queues[q] \in Seq(QueuedJob) /\ queues'[q] = Append(queues[q], e)
    BY <1>3, EntryTypes
  <1>5. /\ queues'[q] \in Seq(QueuedJob)
        /\ Len(queues'[q]) = Len(queues[q]) + 1
        /\ \A k \in DOMAIN queues[q] : queues'[q][k] = queues[q][k]
        /\ queues'[q][Len(queues[q]) + 1] = e
    BY <1>4
  <1>6. DOMAIN queues' = DOMAIN queues /\ \A p \in DOMAIN queues : p # q => queues'[p] = queues[p]
    BY <1>3
  <1> QED BY <1>1, <1>2, <1>5, <1>6

\* An entry after Put is an old one or the new one.
LEMMA PutStep ==
  ASSUME QInv, NEW j \in Jobs, NEW r \in BOOLEAN, Put(j, r),
         ~Waits(j), held' = held \ {j},
         ~r => HasRoom(JobQueue[j])
  PROVE  QInv'
  <1>1. PICK q \in DOMAIN queues, e \in QueuedJob :
             /\ q = JobQueue[j] /\ e = [job |-> j, requeued |-> r]
             /\ DOMAIN queues' = DOMAIN queues
             /\ \A p \in DOMAIN queues : p # q => queues'[p] = queues[p]
             /\ queues'[q] \in Seq(QueuedJob)
             /\ Len(queues'[q]) = Len(queues[q]) + 1
             /\ \A k \in DOMAIN queues[q] : queues'[q][k] = queues[q][k]
             /\ queues'[q][Len(queues[q]) + 1] = e
    BY PutFacts
  <1>2. /\ queues[q] \in Seq(QueuedJob) /\ Len(queues[q]) \in Nat
        /\ DOMAIN queues[q] = 1..Len(queues[q])
        /\ DOMAIN queues'[q] = 1..(Len(queues[q]) + 1)
    BY <1>1, EntryTypes DEF QInv, Typed
  <1>3. \A p \in DOMAIN queues : \A k \in DOMAIN queues'[p] :
           \/ k \in DOMAIN queues[p] /\ queues'[p][k] = queues[p][k]
           \/ p = q /\ k = Len(queues[q]) + 1 /\ queues'[p][k] = e
    <2>1. ASSUME NEW k \in DOMAIN queues'[q], k \notin DOMAIN queues[q]
          PROVE  k = Len(queues[q]) + 1
      BY <1>2, <2>1
    <2> QED BY <1>1, <2>1
  <1>4. e.job = j /\ e.requeued = r
    <2>1. e = [job |-> j, requeued |-> r]
      BY <1>1
    <2>2. e.requeued = r
      BY <2>1, Zenon
    <2> QED BY <2>1, <2>2
  <1>5. Typed'
    BY <1>1 DEF QInv, Typed
  <1>6. Once'
    <2>1. \A p \in DOMAIN queues : \A k \in DOMAIN queues[p] : queues[p][k].job # j
      BY DEF Waits
    <2> QED BY <1>1, <1>3, <1>4, <2>1 DEF QInv, Once
  <1>7. Bounded'
    <2>1. ASSUME MaxLen[q] > 0 PROVE Cardinality(NewOnes(queues'[q])) <= MaxLen[q]
      <3>1. MaxLen[q] \in Int
        BY QueueAssumption DEF QInv, Typed
      <3>2. CASE r = TRUE
        <4>1. NewOnes(queues'[q]) = NewOnes(queues[q])
          BY <1>1, <1>2, <1>4, <3>2 DEF NewOnes
        <4> QED BY <1>1, <2>1, <4>1 DEF QInv, Bounded
      <3>3. CASE r = FALSE
        <4>1. Len(queues[q]) + 1 <= MaxLen[q]
          BY <1>1, <1>2, <2>1, <3>1, <3>3 DEF HasRoom
        <4>2. /\ IsFiniteSet(1..(Len(queues[q]) + 1))
              /\ Cardinality(1..(Len(queues[q]) + 1)) = Len(queues[q]) + 1
          BY <1>2, FS_Interval
        <4>3. NewOnes(queues'[q]) \subseteq 1..(Len(queues[q]) + 1)
          BY <1>2 DEF NewOnes
        <4>4. /\ IsFiniteSet(NewOnes(queues'[q]))
              /\ Cardinality(NewOnes(queues'[q])) <= Cardinality(1..(Len(queues[q]) + 1))
          BY <4>2, <4>3, FS_Subset
        <4>5. Cardinality(NewOnes(queues'[q])) \in Nat
          BY <4>4, FS_CardinalityType
        <4> QED BY <1>2, <3>1, <4>1, <4>2, <4>4, <4>5
      <3> QED BY <3>2, <3>3
    <2> QED BY <1>1, <2>1 DEF QInv, Bounded
  <1> QED BY <1>1, <1>5, <1>6, <1>7 DEF QInv

\* What Take leaves of its queue: an entry at k was at k or at k + 1.
LEMMA TakeFacts ==
  ASSUME QInv, NEW q \in DOMAIN queues, NEW i \in DOMAIN queues[q], Take(q, i)
  PROVE  /\ DOMAIN queues' = DOMAIN queues
         /\ \A p \in DOMAIN queues : p # q => queues'[p] = queues[p]
         /\ queues'[q] = Without(queues[q], i)
         /\ i \in 1..Len(queues[q]) /\ Len(queues[q]) \in Nat
         /\ queues[q] \in Seq(QueuedJob) /\ queues'[q] \in Seq(QueuedJob)
         /\ DOMAIN queues[q] = 1..Len(queues[q])
         /\ DOMAIN queues'[q] = 1..(Len(queues[q]) - 1)
         /\ \A k \in DOMAIN queues'[q] :
               queues'[q][k] = queues[q][IF k < i THEN k ELSE k + 1]
         /\ queues[q][i].job \in Jobs
  <1>1. queues[q] \in Seq(QueuedJob) /\ queues[q][i].job \in Jobs
    BY EntryTypes
  <1>2. /\ DOMAIN queues[q] = 1..Len(queues[q]) /\ i \in 1..Len(queues[q])
        /\ Len(queues[q]) \in Nat
    BY <1>1
  <1>3. /\ DOMAIN queues' = DOMAIN queues
        /\ \A p \in DOMAIN queues : p # q => queues'[p] = queues[p]
        /\ queues'[q] = Without(queues[q], i)
    BY DEF Take
  <1>4. /\ Without(queues[q], i) \in Seq(QueuedJob)
        /\ Len(Without(queues[q], i)) = Len(queues[q]) - 1
        /\ \A k \in 1..(Len(queues[q]) - 1) :
              Without(queues[q], i)[k] = queues[q][IF k < i THEN k ELSE k + 1]
    BY <1>1, <1>2, WithoutFacts
  <1>5. /\ queues'[q] \in Seq(QueuedJob) /\ DOMAIN queues'[q] = 1..(Len(queues[q]) - 1)
    BY <1>3, <1>4
  <1> QED BY <1>1, <1>2, <1>3, <1>4, <1>5

LEMMA TakeStep ==
  ASSUME QInv, NEW q \in DOMAIN queues, NEW i \in DOMAIN queues[q], Take(q, i)
  PROVE  QInv'
  <1> DEFINE old(k) == IF k < i THEN k ELSE k + 1
  <1>1. /\ DOMAIN queues' = DOMAIN queues
        /\ \A p \in DOMAIN queues : p # q => queues'[p] = queues[p]
        /\ queues'[q] = Without(queues[q], i)
        /\ i \in 1..Len(queues[q]) /\ Len(queues[q]) \in Nat
        /\ queues[q] \in Seq(QueuedJob) /\ queues'[q] \in Seq(QueuedJob)
        /\ DOMAIN queues[q] = 1..Len(queues[q])
        /\ DOMAIN queues'[q] = 1..(Len(queues[q]) - 1)
        /\ \A k \in DOMAIN queues'[q] : queues'[q][k] = queues[q][old(k)]
        /\ queues[q][i].job \in Jobs
    BY TakeFacts
  <1>2. held' = held \cup {queues[q][i].job}
    BY DEF Take
  <1>3. \A k \in DOMAIN queues'[q] : old(k) \in DOMAIN queues[q] /\ old(k) # i
    BY <1>1
  <1>4. \A k, m \in DOMAIN queues'[q] : /\ old(k) = old(m) => k = m
                                        /\ k < m => old(k) < old(m)
    BY <1>1
  <1> HIDE DEF old
  <1>5. Typed'
    BY <1>1, <1>2 DEF QInv, Typed
  <1>6. Once'
    <2> SUFFICES ASSUME NEW p \in DOMAIN queues, NEW r \in DOMAIN queues,
                        NEW k \in DOMAIN queues'[p], NEW m \in DOMAIN queues'[r]
                 PROVE  /\ queues'[p][k].job \notin held'
                        /\ JobQueue[queues'[p][k].job] = p
                        /\ queues'[p][k].job = queues'[r][m].job => p = r /\ k = m
      BY <1>1 DEF Once
    <2>1. PICK k0 \in DOMAIN queues[p] :
             /\ queues'[p][k] = queues[p][k0] /\ <<p, k0>> # <<q, i>>
             /\ k0 = IF p = q THEN old(k) ELSE k
      BY <1>1, <1>3
    <2>2. PICK m0 \in DOMAIN queues[r] :
             /\ queues'[r][m] = queues[r][m0]
             /\ m0 = IF r = q THEN old(m) ELSE m
      BY <1>1, <1>3
    <2>3. queues'[p][k].job \notin held' /\ JobQueue[queues'[p][k].job] = p
      BY <1>2, <2>1 DEF QInv, Once
    <2>4. ASSUME queues'[p][k].job = queues'[r][m].job PROVE p = r /\ k = m
      <3>1. p = r /\ k0 = m0
        BY <2>1, <2>2, <2>4 DEF QInv, Once
      <3> QED BY <1>4, <2>1, <2>2, <3>1
    <2> QED BY <2>3, <2>4
  <1>7. Bounded'
    <2>1. Cardinality(NewOnes(queues'[q])) <= Cardinality(NewOnes(queues[q]))
      BY <1>1, WithoutNewOnes
    <2>2. /\ Cardinality(NewOnes(queues'[q])) \in Nat /\ Cardinality(NewOnes(queues[q])) \in Nat
      <3>1. /\ NewOnes(queues[q]) \subseteq 1..Len(queues[q])
            /\ NewOnes(queues'[q]) \subseteq 1..Len(queues[q])
            /\ IsFiniteSet(1..Len(queues[q]))
        <4>1. DOMAIN queues'[q] \subseteq 1..Len(queues[q])
          BY <1>1
        <4>2. IsFiniteSet(1..Len(queues[q]))
          BY <1>1, FS_Interval
        <4> QED BY <1>1, <4>1, <4>2 DEF NewOnes
      <3>2. IsFiniteSet(NewOnes(queues[q])) /\ IsFiniteSet(NewOnes(queues'[q]))
        BY <3>1, FS_Subset
      <3> QED BY <3>2, FS_CardinalityType
    <2>3. MaxLen[q] \in Int
      BY QueueAssumption DEF QInv, Typed
    <2>4. MaxLen[q] > 0 => Cardinality(NewOnes(queues'[q])) <= MaxLen[q]
      BY <2>1, <2>2, <2>3 DEF QInv, Bounded
    <2> QED BY <1>1, <2>4 DEF QInv, Bounded
  <1> QED BY <1>1, <1>5, <1>6, <1>7 DEF QInv

LEMMA QueuesStep ==
  ASSUME QInv, NEW q \in QueueNames, CreateQueue(q) \/ DeleteQueue(q)
  PROVE  QInv'
  <1>1. UNCHANGED held
    BY DEF CreateQueue, DeleteQueue
  <1>2. CASE CreateQueue(q)
    <2>1. /\ q \notin DOMAIN queues /\ DOMAIN queues' = DOMAIN queues \cup {q}
          /\ queues'[q] = <<>> /\ \A p \in DOMAIN queues : queues'[p] = queues[p]
      BY <1>2 DEF CreateQueue
    <2>2. /\ DOMAIN queues'[q] = {} /\ queues'[q] \in Seq(QueuedJob)
          /\ NewOnes(queues'[q]) = {}
      BY <2>1 DEF NewOnes
    <2>3. Typed'
      BY <1>1, <2>1, <2>2 DEF QInv, Typed
    <2>4. Once'
      BY <1>1, <2>1, <2>2 DEF QInv, Once
    <2>5. Bounded'
      <3>1. MaxLen[q] > 0 => Cardinality(NewOnes(queues'[q])) <= MaxLen[q]
        BY <2>2, FS_EmptySet, QueueAssumption
      <3> QED BY <2>1, <3>1 DEF QInv, Bounded
    <2>6. IsFiniteSet(DOMAIN queues')
      BY <2>1, FS_AddElement DEF QInv
    <2> QED BY <2>3, <2>4, <2>5, <2>6 DEF QInv
  <1>3. CASE DeleteQueue(q)
    <2>1. /\ DOMAIN queues' = DOMAIN queues \ {q}
          /\ \A p \in DOMAIN queues' : p \in DOMAIN queues /\ queues'[p] = queues[p]
      BY <1>3 DEF DeleteQueue
    <2>2. Typed' /\ Once' /\ Bounded'
      BY <1>1, <2>1 DEF QInv, Typed, Once, Bounded
    <2>3. IsFiniteSet(DOMAIN queues')
      BY <2>1, FS_Subset DEF QInv
    <2> QED BY <1>1, <2>2, <2>3 DEF QInv
  <1> QED BY <1>2, <1>3

\* The queue Dequeue takes from, and its place among the sorted queues.
LEMMA DequeueTakes ==
  ASSUME Dequeue
  PROVE  \E q \in DOMAIN queues : \E i \in selectNextJob(q) :
            i \in DOMAIN queues[q] /\ Take(q, i)
  BY DEF Dequeue, getSortedQueues, selectNextJob

LEMMA QNext == ASSUME QInv, [Next]_vars PROVE QInv'
  <1>1. ASSUME NEW j \in Jobs, Enqueue(j) PROVE QInv'
    <2>1. Put(j, FALSE) /\ HasRoom(JobQueue[j]) /\ ~Waits(j) /\ held' = held \ {j}
      BY <1>1 DEF Enqueue
    <2> QED BY <2>1, PutStep
  <1>2. ASSUME NEW j \in Jobs, Requeue(j) PROVE QInv'
    <2>1. Put(j, TRUE) /\ j \in held /\ held' = held \ {j}
      BY <1>2 DEF Requeue
    <2>2. ~Waits(j)
      BY <2>1 DEF QInv, Once, Waits
    <2> QED BY <2>1, <2>2, PutStep
  <1>3. ASSUME NEW j \in Jobs, Done(j) PROVE QInv'
    BY <1>3 DEF Done, QInv, Typed, Once, Bounded
  <1>4. CASE Dequeue
    BY <1>4, DequeueTakes, TakeStep
  <1>5. CASE UNCHANGED vars
    BY <1>5 DEF vars, QInv, Typed, Once, Bounded
  <1> QED BY <1>1, <1>2, <1>3, <1>4, <1>5, QueuesStep DEF Next

LEMMA QInit == Init => QInv
  BY QueueAssumption, FS_EmptySet DEF Init, QInv, Typed, Once, Bounded

\* Every reachable state satisfies the invariant.
THEOREM QueueInvariant == Spec => []QInv
  BY QInit, QNext, PTL DEF Spec

\* The dispatcher never holds a job that also waits, no job waits twice, and
\* MaxLen bounds the new jobs of a queue.
THEOREM QueueTypeOK == Spec => []TypeOK
  BY QueueInvariant, TypeParts, PTL

-----------------------------------------------------------------------------
(* QueueManager implements PriorityDispatch *)

LEMMA WaitingMember ==
  \A j : j \in Waiting <=>
           j \in Jobs /\ \E q \in DOMAIN queues : \E i \in DOMAIN queues[q] : queues[q][i].job = j
  BY DEF Waiting, Waits

LEMMA WaitingMemberPrime ==
  \A j : j \in Waiting' <=>
           j \in Jobs /\ \E q \in DOMAIN queues' : \E i \in DOMAIN queues'[q] : queues'[q][i].job = j
  BY DEF Waiting, Waits

\* The job of an entry waits, in the queue it asks for.
LEMMA EntryWaits ==
  ASSUME QInv, NEW q \in DOMAIN queues, NEW i \in DOMAIN queues[q]
  PROVE  /\ queues[q][i].job \in Jobs /\ queues[q][i].job \in Waiting
         /\ JobQueue[queues[q][i].job] = q
  <1>1. queues[q][i].job \in Jobs
    BY EntryTypes
  <1>2. JobQueue[queues[q][i].job] = q
    BY DEF QInv, Once
  <1> QED BY <1>1, <1>2, WaitingMember

\* Who came earlier tells their places in a queue.
LEMMA BeforeMeansPlace ==
  ASSUME QInv, NEW q \in DOMAIN queues, NEW i \in DOMAIN queues[q], NEW k \in DOMAIN queues[q],
         <<queues[q][i].job, queues[q][k].job>> \in Earlier
  PROVE  i < k
  <1>1. Before(queues[q][i].job, queues[q][k].job)
    BY DEF Earlier
  <1>2. PICK p \in DOMAIN queues : \E a, b \in DOMAIN queues[p] :
           a < b /\ queues[p][a].job = queues[q][i].job /\ queues[p][b].job = queues[q][k].job
    BY <1>1 DEF Before
  <1>3. PICK a, b \in DOMAIN queues[p] :
           a < b /\ queues[p][a].job = queues[q][i].job /\ queues[p][b].job = queues[q][k].job
    BY <1>2
  <1>4. a = i /\ b = k
    BY <1>3 DEF QInv, Once
  <1> QED BY <1>3, <1>4

\* Earlier is determined by Before.
LEMMA EarlierPrime ==
  ASSUME NEW T, \A p \in T : p \in Jobs \X Jobs,
         \A e, f \in Jobs : Before(e, f)' <=> <<e, f>> \in T
  PROVE  Earlier' = T
  <1>1. ASSUME NEW p \in Jobs \X Jobs PROVE p \in Earlier' <=> p \in T
    <2>1. PICK e \in Jobs, f \in Jobs : p = <<e, f>>
      OBVIOUS
    <2>2. p \in Earlier' <=> Before(e, f)'
      BY <2>1 DEF Earlier
    <2> QED BY <2>1, <2>2
  <1>2. \A p \in Earlier' : p \in Jobs \X Jobs
    BY DEF Earlier
  <1> QED BY <1>1, <1>2

\* A step that keeps the jobs of S, and no other, in their order.
LEMMA KeepS ==
  ASSUME NEW S, Waiting' = S,
         \A e, f \in Jobs : Before(e, f)' <=> Before(e, f) /\ e \in S /\ f \in S
  PROVE  Dispatcher!Keep(S)
  <1> DEFINE T == {p \in Earlier : p[1] \in S /\ p[2] \in S}
  <1>1. \A p \in T : p \in Jobs \X Jobs
    BY DEF Earlier
  <1>2. \A e, f \in Jobs : <<e, f>> \in T <=> Before(e, f) /\ e \in S /\ f \in S
    BY DEF Earlier
  <1> HIDE DEF T
  <1>3. Earlier' = T
    BY <1>1, <1>2, EarlierPrime
  <1> QED BY <1>3 DEF T, Dispatcher!Keep

LEMMA KindValues ==
  /\ DOMAIN Kind = DOMAIN queues
  /\ \A q \in DOMAIN queues : Kind[q] = [priority |-> QueuePriority[q], fair |-> IsFair[q]]
  BY DEF Kind

\* A Put is an arrival.
LEMMA PutArrives ==
  ASSUME QInv, NEW j \in Jobs, NEW r \in BOOLEAN, Put(j, r), ~Waits(j)
  PROVE  Dispatcher!Arrive(j)
  <1>1. PICK q \in DOMAIN queues, e0 \in QueuedJob :
             /\ q = JobQueue[j] /\ e0 = [job |-> j, requeued |-> r]
             /\ DOMAIN queues' = DOMAIN queues
             /\ \A p \in DOMAIN queues : p # q => queues'[p] = queues[p]
             /\ queues'[q] \in Seq(QueuedJob)
             /\ Len(queues'[q]) = Len(queues[q]) + 1
             /\ \A k \in DOMAIN queues[q] : queues'[q][k] = queues[q][k]
             /\ queues'[q][Len(queues[q]) + 1] = e0
    BY PutFacts
  <1>2. PICK n : n = Len(queues[q]) + 1
    OBVIOUS
  <1>3. /\ \A p \in DOMAIN queues : p # q => DOMAIN queues'[p] = DOMAIN queues[p]
        /\ DOMAIN queues'[q] = DOMAIN queues[q] \cup {n}
        /\ \A k \in DOMAIN queues[q] : k < n /\ ~(n < k)
        /\ ~(n < n)
    <2>1. DOMAIN queues[q] = 1..Len(queues[q]) /\ Len(queues[q]) \in Nat
      BY EntryTypes
    <2> QED BY <1>1, <1>2, <2>1
  <1>4. /\ \A p \in DOMAIN queues : \A k \in DOMAIN queues[p] : queues'[p][k] = queues[p][k]
        /\ queues'[q][n].job = j
    <2>1. e0.job = j
      BY <1>1
    <2> QED BY <1>1, <1>2, <2>1
  <1>5. Waiting' = Waiting \cup {j}
    <2>1. \A f : f \in Waiting' <=> f \in Waiting \/ f = j
      BY <1>1, <1>3, <1>4, WaitingMember, WaitingMemberPrime
    <2> QED BY <2>1
  <1> DEFINE S == {f \in Waiting : JobQueue[f] = JobQueue[j]}
             T == Earlier \cup {<<e, j>> : e \in S}
  <1>6. \A e, f \in Jobs : <<e, f>> \in T <=> Before(e, f) \/ (f = j /\ e \in S)
    BY DEF Earlier
  <1>7. \A p \in T : p \in Jobs \X Jobs
    BY WaitingMember DEF Earlier
  <1>8. ASSUME NEW e \in Jobs, NEW f \in Jobs
        PROVE  Before(e, f)' <=> Before(e, f) \/ (f = j /\ e \in S)
    <2>1. ASSUME Before(e, f)' PROVE Before(e, f) \/ (f = j /\ e \in S)
      <3>1. PICK p \in DOMAIN queues : \E i, k \in DOMAIN queues'[p] :
               i < k /\ queues'[p][i].job = e /\ queues'[p][k].job = f
        BY <1>1, <2>1 DEF Before
      <3>2. PICK i, k \in DOMAIN queues'[p] :
               i < k /\ queues'[p][i].job = e /\ queues'[p][k].job = f
        BY <3>1
      <3>3. i \in DOMAIN queues[p]
        BY <1>3, <3>2
      <3>4. CASE k \in DOMAIN queues[p]
        BY <1>4, <3>2, <3>3, <3>4 DEF Before
      <3>5. CASE k \notin DOMAIN queues[p]
        <4>1. p = q /\ k = n
          BY <1>3, <3>2, <3>5
        <4>2. f = j /\ e = queues[q][i].job
          BY <1>4, <3>2, <3>3, <4>1
        <4>3. e \in Waiting /\ JobQueue[e] = q
          BY <3>3, <4>1, <4>2, EntryWaits
        <4> QED BY <1>1, <4>2, <4>3
      <3> QED BY <3>4, <3>5
    <2>2. ASSUME Before(e, f) PROVE Before(e, f)'
      <3>1. PICK p \in DOMAIN queues : \E i, k \in DOMAIN queues[p] :
               i < k /\ queues[p][i].job = e /\ queues[p][k].job = f
        BY <2>2 DEF Before
      <3>2. DOMAIN queues[p] \subseteq DOMAIN queues'[p]
        BY <1>3
      <3> QED BY <1>1, <1>4, <3>1, <3>2 DEF Before
    <2>3. ASSUME f = j, e \in S PROVE Before(e, f)'
      <3>1. PICK p \in DOMAIN queues : \E i \in DOMAIN queues[p] : queues[p][i].job = e
        BY <2>3, WaitingMember
      <3>2. PICK i \in DOMAIN queues[p] : queues[p][i].job = e
        BY <3>1
      <3>3. p = q
        BY <1>1, <2>3, <3>2, EntryWaits
      <3>4. i < n /\ i \in DOMAIN queues'[q] /\ n \in DOMAIN queues'[q]
        BY <1>3, <3>2, <3>3
      <3>5. queues'[q][i].job = e /\ queues'[q][n].job = f
        BY <1>4, <2>3, <3>2, <3>3
      <3> QED BY <1>1, <3>4, <3>5 DEF Before
    <2> QED BY <2>1, <2>2, <2>3
  <1>9. Earlier' = T
    <2> HIDE DEF T, S
    <2> QED BY <1>6, <1>7, <1>8, EarlierPrime
  <1>10. Kind' = Kind /\ JobQueue[j] \in DOMAIN Kind
    BY <1>1 DEF Kind
  <1>11. j \notin Waiting
    BY DEF Waiting
  <1> QED BY <1>5, <1>9, <1>10, <1>11 DEF Dispatcher!Arrive

\* Queues that come and go.
LEMMA QueueOpens ==
  ASSUME NEW q \in QueueNames, CreateQueue(q)
  PROVE  Dispatcher!OpenQueue
  <1>1. /\ q \notin DOMAIN queues /\ DOMAIN queues' = DOMAIN queues \cup {q}
        /\ DOMAIN queues'[q] = {} /\ \A p \in DOMAIN queues : queues'[p] = queues[p]
    BY DEF CreateQueue
  <1>2. Waiting' = Waiting
    <2>1. \A e : e \in Waiting' <=> e \in Waiting
      BY <1>1, WaitingMember, WaitingMemberPrime
    <2> QED BY <2>1
  <1>3. Earlier' = Earlier
    <2>1. \A e, f : Before(e, f)' <=> Before(e, f)
      BY <1>1 DEF Before
    <2> QED BY <2>1 DEF Earlier
  <1>4. DOMAIN Kind' = DOMAIN Kind \cup {q} /\ \A p \in DOMAIN Kind : Kind'[p] = Kind[p]
    BY <1>1 DEF Kind
  <1>5. q \in DOMAIN Kind' \ DOMAIN Kind
    BY <1>1, <1>4 DEF Kind
  <1> QED BY <1>2, <1>3, <1>4, <1>5 DEF Dispatcher!OpenQueue

LEMMA QueueCloses ==
  ASSUME QInv, NEW q \in QueueNames, DeleteQueue(q)
  PROVE  Dispatcher!CloseQueue
  <1> DEFINE S == {e \in Waiting : JobQueue[e] # q}
  <1>1. /\ q \in DOMAIN queues /\ DOMAIN queues' = DOMAIN queues \ {q}
        /\ \A p \in DOMAIN queues' : p \in DOMAIN queues /\ queues'[p] = queues[p]
    BY DEF DeleteQueue
  <1>2. \A p \in DOMAIN queues : \A i \in DOMAIN queues[p] :
           (queues[p][i].job \in S) <=> p # q
    BY EntryWaits
  <1>3. Waiting' = S
    <2>1. \A e : e \in Waiting' <=> e \in S
      BY <1>1, EntryWaits, WaitingMember, WaitingMemberPrime
    <2> QED BY <2>1
  <1>4. \A e, f \in Jobs : Before(e, f)' <=> Before(e, f) /\ e \in S /\ f \in S
    <2> HIDE DEF S
    <2> QED BY <1>1, <1>2 DEF Before
  <1>5. Dispatcher!Keep(S)
    <2> HIDE DEF S
    <2> QED BY <1>3, <1>4, KeepS
  <1>6. Kind' = [r \in DOMAIN Kind \ {q} |-> Kind[r]]
    BY <1>1 DEF Kind
  <1>7. q \in DOMAIN Kind
    BY <1>1 DEF Kind
  <1> QED BY <1>5, <1>6, <1>7 DEF Dispatcher!CloseQueue

\* Every queue has a place in a sorted list.
LEMMA SortedHasAll ==
  ASSUME IsFiniteSet(DOMAIN queues), NEW s \in getSortedQueues
  PROVE  \A q \in DOMAIN queues : \E m \in DOMAIN s : s[m] = q
  <1> DEFINE n == Cardinality(DOMAIN queues)
  <1>1. n \in Nat
    BY FS_CardinalityType
  <1>2. s \in [1..n -> DOMAIN queues] /\ \A i, k \in 1..n : i < k => s[i] # s[k]
    BY DEF getSortedQueues
  <1>3. s \in Injection(1..n, DOMAIN queues)
    <2>1. \A i, k \in 1..n : s[i] = s[k] => i = k
      BY <1>1, <1>2
    <2> QED BY <1>2, <2>1 DEF Injection, IsInjective
  <1>4. Cardinality(1..n) = n
    BY <1>1, FS_Interval
  <1>5. s \in Surjection(1..n, DOMAIN queues)
    BY <1>3, <1>4, FS_Injection
  <1> QED BY <1>2, <1>5 DEF Surjection

\* What is left when an entry is taken waits in the order it had.
LEMMA TakeKeeps ==
  ASSUME QInv, NEW q \in DOMAIN queues, NEW i \in DOMAIN queues[q], Take(q, i)
  PROVE  Dispatcher!Keep(Waiting \ {queues[q][i].job})
  <1> DEFINE old(k) == IF k < i THEN k ELSE k + 1
             new(k) == IF k < i THEN k ELSE k - 1
             gone == queues[q][i].job
             S == Waiting \ {gone}
  <1>1. /\ DOMAIN queues' = DOMAIN queues
        /\ \A p \in DOMAIN queues : p # q => queues'[p] = queues[p]
        /\ i \in 1..Len(queues[q]) /\ Len(queues[q]) \in Nat
        /\ DOMAIN queues[q] = 1..Len(queues[q])
        /\ DOMAIN queues'[q] = 1..(Len(queues[q]) - 1)
        /\ \A k \in DOMAIN queues'[q] : queues'[q][k] = queues[q][old(k)]
    BY TakeFacts
  <1>2. /\ \A k \in DOMAIN queues'[q] : old(k) \in DOMAIN queues[q] /\ old(k) # i
        /\ \A k, m \in DOMAIN queues'[q] : k < m => old(k) < old(m)
    BY <1>1
  <1>3. /\ \A k \in DOMAIN queues[q] : k # i => new(k) \in DOMAIN queues'[q] /\ old(new(k)) = k
        /\ \A k, m \in DOMAIN queues[q] : k # i /\ m # i /\ k < m => new(k) < new(m)
    BY <1>1
  <1>4. \A p \in DOMAIN queues : \A k \in DOMAIN queues[p] :
           queues[p][k].job = gone <=> (p = q /\ k = i)
    BY DEF QInv, Once
  <1> HIDE DEF old, new, gone
  \* Where the entries of queue p, in the new state and in the old one, were and are.
  <1> DEFINE was(p, k) == IF p = q THEN old(k) ELSE k
             is(p, k)  == IF p = q THEN new(k) ELSE k
  <1>5. ASSUME NEW p \in DOMAIN queues
        PROVE  /\ \A k \in DOMAIN queues'[p] :
                     /\ was(p, k) \in DOMAIN queues[p]
                     /\ queues'[p][k] = queues[p][was(p, k)]
                     /\ queues'[p][k].job # gone
               /\ \A k, m \in DOMAIN queues'[p] : k < m => was(p, k) < was(p, m)
    <2>1. CASE p = q
      BY <1>1, <1>2, <1>4, <2>1
    <2>2. CASE p # q
      BY <1>1, <1>4, <2>2
    <2> QED BY <2>1, <2>2
  <1>6. ASSUME NEW p \in DOMAIN queues
        PROVE  /\ \A k \in DOMAIN queues[p] : queues[p][k].job # gone =>
                     /\ is(p, k) \in DOMAIN queues'[p]
                     /\ queues'[p][is(p, k)] = queues[p][k]
               /\ \A k, m \in DOMAIN queues[p] :
                     k < m /\ queues[p][k].job # gone /\ queues[p][m].job # gone
                        => is(p, k) < is(p, m)
    <2>1. CASE p = q
      BY <1>1, <1>3, <1>4, <2>1
    <2>2. CASE p # q
      BY <1>1, <1>4, <2>2
    <2> QED BY <2>1, <2>2
  <1> HIDE DEF was, is
  <1>7. Waiting' = S
    <2>1. ASSUME NEW e, e \in Waiting' PROVE e \in S
      <3>1. PICK p \in DOMAIN queues : \E k \in DOMAIN queues'[p] : queues'[p][k].job = e
        BY <1>1, <2>1, WaitingMemberPrime
      <3>2. e # gone /\ \E k \in DOMAIN queues[p] : queues[p][k].job = e
        BY <1>5, <3>1
      <3> QED BY <2>1, <3>2, WaitingMember, WaitingMemberPrime
    <2>2. ASSUME NEW e, e \in S PROVE e \in Waiting'
      <3>1. PICK p \in DOMAIN queues : \E k \in DOMAIN queues[p] : queues[p][k].job = e
        BY <2>2, WaitingMember
      <3>2. \E k \in DOMAIN queues'[p] : queues'[p][k].job = e
        BY <1>6, <2>2, <3>1
      <3> QED BY <1>1, <2>2, <3>2, WaitingMember, WaitingMemberPrime
    <2> QED BY <2>1, <2>2
  <1>8. ASSUME NEW e \in Jobs, NEW f \in Jobs
        PROVE  Before(e, f)' <=> Before(e, f) /\ e \in S /\ f \in S
    <2>1. ASSUME Before(e, f)' PROVE Before(e, f) /\ e \in S /\ f \in S
      <3>1. PICK p \in DOMAIN queues : \E k, m \in DOMAIN queues'[p] :
               k < m /\ queues'[p][k].job = e /\ queues'[p][m].job = f
        BY <1>1, <2>1 DEF Before
      <3>2. PICK k, m \in DOMAIN queues'[p] :
               k < m /\ queues'[p][k].job = e /\ queues'[p][m].job = f
        BY <3>1
      <3>3. /\ was(p, k) \in DOMAIN queues[p] /\ was(p, m) \in DOMAIN queues[p]
            /\ was(p, k) < was(p, m)
            /\ queues[p][was(p, k)].job = e /\ queues[p][was(p, m)].job = f
            /\ e # gone /\ f # gone
        BY <1>5, <3>2
      <3>4. Before(e, f)
        BY <3>3 DEF Before
      <3> QED BY <3>3, <3>4, WaitingMember
    <2>2. ASSUME Before(e, f), e \in S, f \in S PROVE Before(e, f)'
      <3>1. PICK p \in DOMAIN queues : \E k, m \in DOMAIN queues[p] :
               k < m /\ queues[p][k].job = e /\ queues[p][m].job = f
        BY <2>2 DEF Before
      <3>2. PICK k, m \in DOMAIN queues[p] :
               k < m /\ queues[p][k].job = e /\ queues[p][m].job = f
        BY <3>1
      <3>3. e # gone /\ f # gone
        BY <2>2
      <3>4. /\ is(p, k) \in DOMAIN queues'[p] /\ is(p, m) \in DOMAIN queues'[p]
            /\ is(p, k) < is(p, m)
            /\ queues'[p][is(p, k)].job = e /\ queues'[p][is(p, m)].job = f
        BY <1>6, <3>2, <3>3
      <3> QED BY <1>1, <3>4 DEF Before
    <2> QED BY <2>1, <2>2
  <1>9. Dispatcher!Keep(S)
    <2> HIDE DEF S
    <2> QED BY <1>7, <1>8, KeepS
  <1> QED BY <1>9 DEF gone

\* The job Dequeue takes is one that no other precedes.
LEMMA DequeueDispatches ==
  ASSUME QInv, Dequeue
  PROVE  Dispatcher!Dispatch
  <1>1. PICK s \in getSortedQueues, n \in 1..Cardinality(DOMAIN queues) :
             /\ \A m \in 1..(n - 1) : queues[s[m]] = <<>>
             /\ \E i \in selectNextJob(s[n]) : Take(s[n], i)
    BY DEF Dequeue
  <1>2. /\ Cardinality(DOMAIN queues) \in Nat /\ s \in [1..Cardinality(DOMAIN queues) -> DOMAIN queues]
        /\ \A i, k \in 1..Cardinality(DOMAIN queues) :
              i < k => QueuePriority[s[i]] >= QueuePriority[s[k]]
    BY FS_CardinalityType DEF QInv, getSortedQueues
  <1>3. PICK q \in DOMAIN queues : q = s[n]
    BY <1>2
  <1>4. PICK i \in selectNextJob(q) : Take(q, i)
    BY <1>1, <1>3
  <1>5. i \in DOMAIN queues[q]
    BY <1>4 DEF selectNextJob
  <1>6. PICK j \in Waiting : j = queues[q][i].job /\ JobQueue[j] = q
    BY <1>5, EntryWaits
  <1>7. \A p \in DOMAIN queues : QueuePriority[p] \in Int
    BY QueueAssumption DEF QInv, Typed
  <1>8. ASSUME NEW p \in DOMAIN queues, NEW k \in DOMAIN queues[p]
        PROVE  QueuePriority[p] <= QueuePriority[q]
    <2>1. PICK m \in 1..Cardinality(DOMAIN queues) : s[m] = p
      BY <1>2, SortedHasAll DEF QInv
    <2>2. ~(m \in 1..(n - 1))
      BY <1>1, <2>1
    <2>3. m = n \/ n < m
      BY <1>2, <2>2
    <2> QED BY <1>2, <1>3, <1>7, <2>1, <2>3
  <1>9. ASSUME NEW k \in DOMAIN queues[q]
        PROVE Dispatcher!Precedes(j, queues[q][k].job)
    <2> DEFINE prio(m) == JobPriority[queues[q][m].job]
    <2>1. i \in Nat /\ k \in Nat /\ k >= 1 /\ prio(i) \in Int /\ prio(k) \in Int
      <3>1. DOMAIN queues[q] = 1..Len(queues[q]) /\ Len(queues[q]) \in Nat
        BY EntryTypes
      <3>2. i \in Nat /\ k \in Nat /\ k >= 1
        BY <1>5, <3>1
      <3> QED BY <1>5, <3>2, EntryTypes, QueueAssumption
    <2>2. ~(k < i) => <<queues[q][k].job, j>> \notin Earlier
      BY <1>5, <1>6, BeforeMeansPlace
    <2>3. CASE IsFair[q] = TRUE
      <3>1. prio(k) <= prio(i) /\ (k < i => prio(k) < prio(i))
        BY <1>4, <2>3 DEF selectNextJob
      <3>2. prio(i) > prio(k) \/ (prio(i) = prio(k) /\ ~(k < i))
        BY <2>1, <3>1
      <3>3. \/ JobPriority[j] > JobPriority[queues[q][k].job]
            \/ /\ JobPriority[j] = JobPriority[queues[q][k].job]
               /\ <<queues[q][k].job, j>> \notin Earlier
        BY <1>6, <2>2, <3>2
      <3> QED BY <1>6, <2>3, <3>3, KindValues DEF Dispatcher!Precedes
    <2>4. CASE IsFair[q] = FALSE
      <3>1. i = 1
        BY <1>4, <2>4 DEF selectNextJob
      <3>2. ~(k < i)
        BY <2>1, <3>1
      <3> QED BY <1>6, <2>2, <2>4, <3>2, KindValues DEF Dispatcher!Precedes
    <2>5. IsFair[q] \in BOOLEAN
      BY QueueAssumption DEF QInv, Typed
    <2> QED BY <2>3, <2>4, <2>5
  <1>10. Dispatcher!First(j)
    <2>1. ASSUME NEW f \in Waiting
          PROVE  /\ Kind[JobQueue[f]].priority <= Kind[JobQueue[j]].priority
                 /\ JobQueue[f] = JobQueue[j] => Dispatcher!Precedes(j, f)
      <3>1. PICK p \in DOMAIN queues : \E k \in DOMAIN queues[p] : queues[p][k].job = f
        BY WaitingMember
      <3>2. PICK k \in DOMAIN queues[p] : queues[p][k].job = f
        BY <3>1
      <3>3. JobQueue[f] = p
        BY <3>2, EntryWaits
      <3>4. Kind[p].priority <= Kind[q].priority
        BY <1>8, <3>2, KindValues
      <3> QED BY <1>6, <1>9, <3>2, <3>3, <3>4
    <2> QED BY <2>1 DEF Dispatcher!First
  <1>11. Dispatcher!Keep(Waiting \ {j})
    BY <1>4, <1>5, <1>6, TakeKeeps
  <1>12. Kind' = Kind
    BY <1>4 DEF Take, Kind
  <1> QED BY <1>10, <1>11, <1>12 DEF Dispatcher!Dispatch

\* Priority dispatch: the job that is dequeued comes from a non-empty queue of the
\* highest priority, and in it is the oldest, or for a fair queue the oldest of
\* its most important ones; nothing else ever leaves, but with its queue.
THEOREM QueueImplementsDispatch == Spec => ImplementsDispatch
  <1>1. Init => Dispatcher!Init
    <2> SUFFICES ASSUME Init PROVE Dispatcher!Init
      OBVIOUS
    <2>1. DOMAIN queues = {}
      BY DEF Init
    <2>2. Waiting = {} /\ Earlier = {} /\ Kind = [q \in {} |-> {}]
      BY <2>1 DEF Waiting, Waits, Earlier, Before, Kind
    <2> QED BY <2>2 DEF Dispatcher!Init
  <1>2. ASSUME QInv, [Next]_vars
        PROVE  [Dispatcher!Next]_<<Waiting, Earlier, Kind>>
    <2>1. ASSUME NEW j \in Jobs, Enqueue(j) \/ Requeue(j) PROVE Dispatcher!Next
      <3>1. j \in held => ~Waits(j)
        BY <1>2 DEF QInv, Once, Waits
      <3>2. ~Waits(j) /\ (Put(j, FALSE) \/ Put(j, TRUE))
        BY <2>1, <3>1 DEF Enqueue, Requeue
      <3>3. Dispatcher!Arrive(j)
        BY <1>2, <3>2, PutArrives
      <3> QED BY <3>3 DEF Dispatcher!Next
    <2>2. ASSUME NEW q \in QueueNames, CreateQueue(q) \/ DeleteQueue(q)
          PROVE Dispatcher!Next
      BY <1>2, <2>2, QueueOpens, QueueCloses DEF Dispatcher!Next
    <2>3. CASE Dequeue
      BY <1>2, <2>3, DequeueDispatches DEF Dispatcher!Next
    <2>4. ASSUME (\E j \in Jobs : Done(j)) \/ UNCHANGED vars
          PROVE  UNCHANGED <<Waiting, Earlier, Kind>>
      <3>1. queues' = queues
        BY <2>4 DEF Done, vars
      <3> QED BY <3>1 DEF Waiting, Waits, Earlier, Before, Kind
    <2> QED BY <1>2, <2>1, <2>2, <2>3, <2>4 DEF Next
  <1> QED BY <1>1, <1>2, QueueInvariant, PTL DEF Spec, ImplementsDispatch, Dispatcher!Spec

-----------------------------------------------------------------------------
(* The gang scheduler *)

Busy(t, g) == pc[t] # "idle" /\ mine[t] = g

\* The objects are numbered in the order of their allocation.
Numbered == \E k \in 0..MaxGangs : DOMAIN heap = 1..k

\* A gang's jobs are no longer free, and finitely many; a gang that has left
\* "pending" has MinMember jobs and keeps them.
JobsStay ==
    \A g \in DOMAIN heap :
       /\ heap[g].jobs \cap free = {}
       /\ IsFiniteSet(heap[g].jobs)
       /\ heap[g].status # "pending" => Cardinality(heap[g].jobs) >= heap[g].min

\* A goroutine works on an object that exists and has left "pending".
WorkIsReal ==
    \A t \in Schedulers : pc[t] # "idle" =>
       /\ mine[t] \in DOMAIN heap
       /\ heap[mine[t]].status # "pending"
       /\ pc[t] = "bind" => Cardinality(batch[t]) >= heap[mine[t]].min

Unbuilt(g) == \A j \in GangJobs : built[g][j] = 0
Complete(g) == \A j \in GangJobs : built[g][j] = IF j \in heap[g].jobs THEN 1 ELSE 0

\* The phases of a gang of fixed size.
Phases(g) ==
    /\ heap[g].status \in {"pending", "ready"} => Unbuilt(g)
    /\ heap[g].status = "bound" => Complete(g)
    /\ Unbuilt(g) \/ Complete(g)
    /\ \A t \in Schedulers : Busy(t, g) =>
          /\ heap[g].status = "scheduling"
          /\ pc[t] = "range" => Unbuilt(g)
          /\ pc[t] = "bind" => Complete(g)
    /\ \A t, u \in Schedulers : Busy(t, g) /\ Busy(u, g) => t = u

FixedPhases ==
    /\ \A g \in Gangs!GangIds : g \notin DOMAIN heap => Unbuilt(g)
    /\ \A g \in DOMAIN heap : heap[g].min = heap[g].max => Phases(g)

GInv == Gangs!TypeOK /\ Numbered /\ JobsStay /\ WorkIsReal /\ FixedPhases

-----------------------------------------------------------------------------
(* The invariant is inductive *)

\* GangScheduler's Cardinality is the one of this module.
LEMMA GangCardinality == \A S : Gangs!Cardinality(S) = Cardinality(S)
  BY DEF Gangs!Cardinality, Cardinality

LEMMA GInit == ASSUME Gangs!Init PROVE GInv
  <1>1. DOMAIN heap = {} /\ DOMAIN heap = 1..0
    BY DEF Gangs!Init
  <1>2. Gangs!TypeOK
    BY <1>1 DEF Gangs!Init, Gangs!TypeOK
  <1>3. Numbered
    BY <1>1, QueuesAssumption DEF Gangs!GangAssumption, Numbered
  <1>4. JobsStay /\ WorkIsReal
    BY <1>1 DEF Gangs!Init, JobsStay, WorkIsReal
  <1>5. FixedPhases
    BY <1>1 DEF Gangs!Init, FixedPhases, Unbuilt
  <1> QED BY <1>2, <1>3, <1>4, <1>5 DEF GInv

LEMMA RegisterStep ==
  ASSUME GInv, NEW name \in GangNames, NEW size \in Sizes, Gangs!RegisterGang(name, size)
  PROVE  GInv'
  <1> DEFINE new == [min |-> size[1], max |-> size[2], jobs |-> {}, status |-> "pending"]
  <1>1. PICK k \in 0..MaxGangs : DOMAIN heap = 1..k
    BY DEF GInv, Numbered
  <1>2. Cardinality(1..k) = k
    BY <1>1, FS_Interval, k \in Int, QueuesAssumption DEF Gangs!GangAssumption
  <1>3. PICK g \in Gangs!GangIds : g = k + 1 /\ g = Cardinality(DOMAIN heap) + 1 /\ g <= MaxGangs
    BY <1>1, <1>2, QueuesAssumption, GangCardinality
    DEF Gangs!RegisterGang, Gangs!GangAssumption, Gangs!GangIds
  <1> HIDE DEF new
  <1>4. /\ heap' = [x \in 1..g |-> IF x = g THEN new ELSE heap[x]]
        /\ gangs' = [gangs EXCEPT ![name] = g]
        /\ UNCHANGED <<free, pc, mine, batch, built>>
    BY <1>3, GangCardinality DEF Gangs!RegisterGang, new
  <1>5. /\ DOMAIN heap' = 1..g /\ DOMAIN heap \subseteq DOMAIN heap'
        /\ g \in Gangs!GangIds /\ g # Gangs!NoGang
        /\ g \in DOMAIN heap' /\ g \notin DOMAIN heap /\ heap'[g] = new
        /\ \A x \in DOMAIN heap : heap'[x] = heap[x]
        /\ \A x \in DOMAIN heap' : x = g \/ x \in DOMAIN heap
    BY <1>1, <1>3, <1>4 DEF Gangs!GangIds, Gangs!NoGang
  <1>6. /\ new \in Gangs!Gang /\ new.jobs = {} /\ new.status = "pending"
        /\ IsFiniteSet(new.jobs)
    BY FS_EmptySet, QueuesAssumption
    DEF new, Gangs!Gang, Gangs!GangStatus, Gangs!GangAssumption
  <1>7. Numbered'
    BY <1>3, <1>5, QueuesAssumption DEF Numbered, Gangs!GangAssumption
  <1>8. Gangs!TypeOK'
    <2>1. DOMAIN heap' \subseteq Gangs!GangIds
      BY <1>3, <1>5, QueuesAssumption DEF Gangs!GangIds, Gangs!GangAssumption
    <2>2. \A x \in DOMAIN heap' :
             heap'[x] \in Gangs!Gang /\ (heap'[x].jobs = {} \/ Gangs!Cardinality(heap'[x].jobs) <= heap'[x].max)
      BY <1>5, <1>6, GangCardinality DEF GInv, Gangs!TypeOK
    <2>3. \A x, h \in DOMAIN heap' : x # h => heap'[x].jobs \cap heap'[h].jobs = {}
      <3>1. \A x \in DOMAIN heap' : heap'[x].jobs = IF x = g THEN {} ELSE heap[x].jobs
        BY <1>5, <1>6
      <3>2. \A x \in DOMAIN heap' : x # g => x \in DOMAIN heap
        BY <1>5
      <3> QED BY <3>1, <3>2 DEF GInv, Gangs!TypeOK
    <2>4. gangs' \in [GangNames -> DOMAIN heap' \cup {Gangs!NoGang}]
      <3>1. g \in DOMAIN heap' /\ DOMAIN heap \subseteq DOMAIN heap'
        BY <1>5
      <3>2. gangs \in [GangNames -> DOMAIN heap' \cup {Gangs!NoGang}]
        BY <3>1 DEF GInv, Gangs!TypeOK
      <3> QED BY <1>4, <3>1, <3>2
    <2>5. \A m, o \in GangNames : gangs'[m] = gangs'[o] /\ m # o => gangs'[m] = Gangs!NoGang
      <3>1. \A m \in GangNames : gangs[m] # g
        BY <1>5 DEF GInv, Gangs!TypeOK
      <3>2. \A m \in GangNames : gangs'[m] = IF m = name THEN g ELSE gangs[m]
        BY <1>4 DEF GInv, Gangs!TypeOK
      <3> QED BY <3>1, <3>2 DEF GInv, Gangs!TypeOK
    <2> QED BY <1>4, <1>5, <2>1, <2>2, <2>3, <2>4, <2>5 DEF GInv, Gangs!TypeOK
  <1>9. JobsStay'
    BY <1>4, <1>5, <1>6 DEF GInv, JobsStay
  <1>10. WorkIsReal'
    BY <1>4, <1>5 DEF GInv, WorkIsReal
  <1>11. FixedPhases'
    <2>1. Unbuilt(g) /\ (\A x \in Gangs!GangIds : Unbuilt(x)' <=> Unbuilt(x))
      BY <1>4, <1>5 DEF GInv, FixedPhases, Unbuilt
    <2>2. \A t \in Schedulers : ~Busy(t, g)' /\ \A x \in DOMAIN heap : Busy(t, x)' = Busy(t, x)
      BY <1>4, <1>5 DEF GInv, WorkIsReal, Busy
    <2>3. Phases(g)'
      BY <1>4, <1>5, <1>6, <2>1, <2>2 DEF Phases
    <2>4. ASSUME NEW x \in DOMAIN heap, Phases(x) PROVE Phases(x)'
      BY <1>4, <1>5, <2>4 DEF Phases, Busy, Unbuilt, Complete
    <2> QED BY <1>5, <2>1, <2>3, <2>4 DEF GInv, FixedPhases
  <1> QED BY <1>7, <1>8, <1>9, <1>10, <1>11 DEF GInv

LEMMA AddStep ==
  ASSUME GInv, NEW n \in GangNames, NEW j \in GangJobs, Gangs!AddJobToGang(n, j)
  PROVE  GInv'
  <1>1. PICK g \in DOMAIN heap :
           /\ g = gangs[n] /\ heap[g] \in Gangs!Gang /\ j \in free
           /\ Cardinality(heap[g].jobs) < heap[g].max
    BY GangCardinality DEF GInv, Gangs!TypeOK, Gangs!AddJobToGang, Gangs!HasRoom
  <1>2. /\ heap' = [heap EXCEPT ![g].jobs = @ \cup {j},
                                ![g].status = IF Gangs!IsFull(g) THEN "ready" ELSE @]
        /\ free' = free \ {j}
        /\ UNCHANGED <<gangs, pc, mine, batch, built>>
    BY <1>1 DEF Gangs!AddJobToGang
  <1>3. /\ DOMAIN heap' = DOMAIN heap
        /\ heap'[g].jobs = heap[g].jobs \cup {j}
        /\ heap'[g].min = heap[g].min /\ heap'[g].max = heap[g].max
        /\ heap'[g].status = IF Gangs!IsFull(g) THEN "ready" ELSE heap[g].status
        /\ heap'[g] \in Gangs!Gang
        /\ \A x \in DOMAIN heap : x # g => heap'[x] = heap[x]
    BY <1>1, <1>2 DEF Gangs!Gang, Gangs!GangStatus
  <1>4. /\ IsFiniteSet(heap'[g].jobs)
        /\ Cardinality(heap[g].jobs) \in Nat
        /\ Cardinality(heap'[g].jobs) = Cardinality(heap[g].jobs) + 1
    <2>1. IsFiniteSet(heap[g].jobs) /\ j \notin heap[g].jobs
      BY <1>1 DEF GInv, JobsStay
    <2>2. Cardinality(heap[g].jobs) \in Nat
      BY <2>1, FS_CardinalityType
    <2>3. /\ IsFiniteSet(heap[g].jobs \cup {j})
          /\ Cardinality(heap[g].jobs \cup {j}) = Cardinality(heap[g].jobs) + 1
      BY <2>1, FS_AddElement
    <2> QED BY <1>3, <2>2, <2>3
  <1>5. heap'[g].status # "pending" => Cardinality(heap'[g].jobs) >= heap'[g].min
    BY <1>1, <1>3, <1>4, GangCardinality DEF GInv, JobsStay, Gangs!IsFull, Gangs!Gang
  <1>6. heap[g].status # "pending" => Gangs!IsFull(g) /\ heap'[g].status = "ready"
    BY <1>1, <1>3, <1>4, GangCardinality DEF GInv, JobsStay, Gangs!IsFull, Gangs!Gang
  <1>7. Gangs!TypeOK'
    <2>1. \A x \in DOMAIN heap' :
             heap'[x] \in Gangs!Gang /\ (heap'[x].jobs = {} \/ Gangs!Cardinality(heap'[x].jobs) <= heap'[x].max)
      <3>1. Cardinality(heap'[g].jobs) <= heap'[g].max
        BY <1>1, <1>3, <1>4 DEF Gangs!Gang
      <3> QED BY <1>3, <3>1, GangCardinality DEF GInv, Gangs!TypeOK
    <2>2. \A x, h \in DOMAIN heap' : x # h => heap'[x].jobs \cap heap'[h].jobs = {}
      <3>1. \A x \in DOMAIN heap : j \notin heap[x].jobs
        BY <1>1 DEF GInv, JobsStay
      <3> QED BY <1>1, <1>3, <3>1 DEF GInv, Gangs!TypeOK
    <2> QED BY <1>2, <1>3, <2>1, <2>2, GangCardinality DEF GInv, Gangs!TypeOK
  <1>8. Numbered'
    BY <1>3 DEF GInv, Numbered
  <1>9. JobsStay'
    BY <1>1, <1>2, <1>3, <1>4, <1>5 DEF GInv, JobsStay
  <1>10. WorkIsReal'
    BY <1>1, <1>2, <1>3, <1>6 DEF GInv, WorkIsReal
  <1>11. FixedPhases'
    <2>1. \A x \in Gangs!GangIds : Unbuilt(x)' <=> Unbuilt(x)
      BY <1>2 DEF Unbuilt
    <2>2. ASSUME heap[g].min = heap[g].max PROVE Phases(g)'
      <3>1. heap[g].status = "pending" /\ heap'[g].status \in {"pending", "ready"}
        <4>1. ~(Cardinality(heap[g].jobs) >= heap[g].min)
          BY <1>1, <1>4, <2>2 DEF Gangs!Gang
        <4>2. heap[g].status = "pending"
          BY <4>1 DEF GInv, JobsStay
        <4> QED BY <1>3, <4>2
      <3>2. Unbuilt(g)'
        BY <1>1, <2>1, <2>2, <3>1 DEF GInv, Gangs!TypeOK, FixedPhases, Phases
      <3>3. \A t \in Schedulers : ~Busy(t, g)'
        BY <1>1, <1>2, <2>2, <3>1 DEF GInv, WorkIsReal, Busy
      <3> QED BY <3>1, <3>2, <3>3 DEF Phases
    <2>3. ASSUME NEW x \in DOMAIN heap, x # g, Phases(x) PROVE Phases(x)'
      BY <1>2, <1>3, <2>3 DEF Phases, Busy, Unbuilt, Complete
    <2> QED BY <1>3, <2>1, <2>2, <2>3 DEF GInv, FixedPhases
  <1> QED BY <1>7, <1>8, <1>9, <1>10, <1>11 DEF GInv

\* ScheduleStart and ScheduleBind write the status of one gang.
LEMMA StatusWritten ==
  ASSUME GInv, NEW g \in DOMAIN heap, NEW s \in Gangs!GangStatus,
         heap' = [heap EXCEPT ![g].status = s]
  PROVE  /\ DOMAIN heap' = DOMAIN heap
         /\ heap'[g].status = s
         /\ \A x \in DOMAIN heap : /\ heap'[x] \in Gangs!Gang /\ heap'[x].jobs = heap[x].jobs
                                   /\ heap'[x].min = heap[x].min /\ heap'[x].max = heap[x].max
                                   /\ x # g => heap'[x].status = heap[x].status
  <1>1. \A x \in DOMAIN heap : heap[x] \in Gangs!Gang
    BY DEF GInv, Gangs!TypeOK
  <1> QED BY <1>1 DEF Gangs!Gang

LEMMA StartStep ==
  ASSUME GInv, NEW n \in GangNames, NEW t \in Schedulers, Gangs!ScheduleStart(t, n)
  PROVE  GInv'
  <1>1. PICK g \in DOMAIN heap : g = gangs[n] /\ heap[g].status = "ready" /\ pc[t] = "idle"
    BY DEF GInv, Gangs!TypeOK, Gangs!ScheduleStart
  <1>2. /\ heap' = [heap EXCEPT ![g].status = "scheduling"]
        /\ mine' = [mine EXCEPT ![t] = g]
        /\ pc' = [pc EXCEPT ![t] = "range"]
        /\ UNCHANGED <<gangs, free, batch, built>>
    BY <1>1 DEF Gangs!ScheduleStart
  <1>3. "scheduling" \in Gangs!GangStatus
    BY DEF Gangs!GangStatus
  <1>4. /\ DOMAIN heap' = DOMAIN heap
        /\ heap'[g].status = "scheduling"
        /\ \A x \in DOMAIN heap : /\ heap'[x] \in Gangs!Gang /\ heap'[x].jobs = heap[x].jobs
                                  /\ heap'[x].min = heap[x].min /\ heap'[x].max = heap[x].max
                                  /\ x # g => heap'[x].status = heap[x].status
    BY <1>1, <1>2, <1>3, StatusWritten
  <1>5. Gangs!TypeOK'
    <2>1. \A x \in DOMAIN heap' :
             heap'[x] \in Gangs!Gang /\ (heap'[x].jobs = {} \/ Gangs!Cardinality(heap'[x].jobs) <= heap'[x].max)
      BY <1>4, GangCardinality DEF GInv, Gangs!TypeOK
    <2>2. \A x, h \in DOMAIN heap' : x # h => heap'[x].jobs \cap heap'[h].jobs = {}
      BY <1>4 DEF GInv, Gangs!TypeOK
    <2> QED BY <1>1, <1>2, <1>4, <2>1, <2>2 DEF GInv, Gangs!TypeOK
  <1>6. Numbered'
    BY <1>4 DEF GInv, Numbered
  <1>7. JobsStay'
    BY <1>1, <1>2, <1>4 DEF GInv, JobsStay
  <1>8. WorkIsReal'
    BY <1>1, <1>2, <1>4 DEF GInv, Gangs!TypeOK, WorkIsReal
  <1>9. FixedPhases'
    <2>1. \A x \in Gangs!GangIds : Unbuilt(x)' <=> Unbuilt(x)
      BY <1>2 DEF Unbuilt
    <2>2. \A u \in Schedulers, x \in DOMAIN heap :
             Busy(u, x)' <=> IF u = t THEN x = g ELSE Busy(u, x)
      BY <1>2 DEF GInv, Gangs!TypeOK, Busy
    <2>3. ASSUME heap[g].min = heap[g].max PROVE Phases(g)'
      <3>1. Unbuilt(g) /\ \A u \in Schedulers : ~Busy(u, g)
        BY <1>1, <2>3 DEF GInv, FixedPhases, Phases
      <3> QED BY <1>1, <1>2, <1>4, <2>1, <2>2, <3>1 DEF GInv, Gangs!TypeOK, Phases
    <2>4. ASSUME NEW x \in DOMAIN heap, x # g, Phases(x) PROVE Phases(x)'
      <3>1. Complete(x)' <=> Complete(x)
        BY <1>2, <1>4 DEF Complete
      <3>2. \A u \in Schedulers : Busy(u, x)' => Busy(u, x) /\ pc'[u] = pc[u]
        BY <1>2, <2>2, <2>4 DEF GInv, Gangs!TypeOK
      <3>3. Unbuilt(x)' <=> Unbuilt(x)
        BY <1>2 DEF Unbuilt
      <3> QED BY <1>4, <2>4, <3>1, <3>2, <3>3 DEF Phases
    <2> QED BY <1>1, <1>4, <2>1, <2>3, <2>4 DEF GInv, FixedPhases
  <1> QED BY <1>5, <1>6, <1>7, <1>8, <1>9 DEF GInv

LEMMA BuildStep ==
  ASSUME GInv, NEW t \in Schedulers, Gangs!ScheduleBuild(t)
  PROVE  GInv'
  <1>1. PICK g \in DOMAIN heap : g = mine[t] /\ g \in Gangs!GangIds /\ pc[t] = "range"
    BY DEF GInv, Gangs!TypeOK, WorkIsReal, Gangs!ScheduleBuild
  <1>2. /\ batch' = [batch EXCEPT ![t] = heap[g].jobs]
        /\ built' = [built EXCEPT ![g] = Gangs!buildGangPods(@, heap[g].jobs)]
        /\ pc' = [pc EXCEPT ![t] = "bind"]
        /\ UNCHANGED <<heap, gangs, free, mine>>
    BY <1>1 DEF Gangs!ScheduleBuild
  <1>3. /\ built' \in [Gangs!GangIds -> [GangJobs -> Nat]]
        /\ \A x \in Gangs!GangIds : x # g => built'[x] = built[x]
        /\ \A j \in GangJobs : built'[g][j] = built[g][j] + IF j \in heap[g].jobs THEN 1 ELSE 0
    BY <1>1, <1>2 DEF GInv, Gangs!TypeOK, Gangs!buildGangPods
  <1>4. Gangs!TypeOK'
    <2>1. heap[g].jobs \subseteq GangJobs
      BY <1>1 DEF GInv, Gangs!TypeOK, Gangs!Gang
    <2>2. \A u \in Schedulers : mine'[u] \in DOMAIN heap \cup {Gangs!NoGang} /\ batch'[u] \subseteq GangJobs
      BY <1>2, <2>1 DEF GInv, Gangs!TypeOK
    <2> QED BY <1>2, <1>3, <2>2 DEF GInv, Gangs!TypeOK
  <1>5. Numbered' /\ JobsStay'
    BY <1>2 DEF GInv, Numbered, JobsStay
  <1>6. WorkIsReal'
    BY <1>1, <1>2 DEF GInv, Gangs!TypeOK, WorkIsReal, JobsStay
  <1>7. FixedPhases'
    <2>1. \A u \in Schedulers, x \in DOMAIN heap : Busy(u, x)' <=> Busy(u, x)
      BY <1>1, <1>2 DEF GInv, Gangs!TypeOK, Busy
    <2>2. \A x \in Gangs!GangIds : x # g => (Unbuilt(x)' <=> Unbuilt(x)) /\ (Complete(x)' <=> Complete(x))
      BY <1>2, <1>3 DEF Unbuilt, Complete
    <2>3. ASSUME heap[g].min = heap[g].max PROVE Phases(g)'
      <3>1. Busy(t, g)
        BY <1>1 DEF Busy
      <3>2. heap[g].status = "scheduling" /\ Unbuilt(g) /\ \A u \in Schedulers : Busy(u, g) => u = t
        BY <1>1, <2>3, <3>1 DEF GInv, FixedPhases, Phases
      <3>3. Complete(g)'
        BY <1>2, <1>3, <3>2 DEF Unbuilt, Complete
      <3>4. pc'[t] = "bind"
        BY <1>2 DEF GInv, Gangs!TypeOK
      <3> QED BY <1>1, <1>2, <2>1, <3>2, <3>3, <3>4 DEF Phases
    <2>4. ASSUME NEW x \in DOMAIN heap, x # g, Phases(x) PROVE Phases(x)'
      <3>1. x \in Gangs!GangIds
        BY DEF GInv, Gangs!TypeOK
      <3>2. \A u \in Schedulers : Busy(u, x) => pc'[u] = pc[u]
        BY <1>1, <1>2, <2>4 DEF GInv, Gangs!TypeOK, Busy
      <3> QED BY <1>2, <2>1, <2>2, <2>4, <3>1, <3>2 DEF Phases
    <2> QED BY <1>1, <1>2, <2>2, <2>3, <2>4 DEF GInv, Gangs!TypeOK, FixedPhases
  <1> QED BY <1>4, <1>5, <1>6, <1>7 DEF GInv

\* After a panic the gang is "scheduling" with no pods, and nobody works on it.
LEMMA PanicStep ==
  ASSUME GInv, NEW t \in Schedulers, Gangs!BuildPanics(t)
  PROVE  GInv'
  <1>1. pc' = [pc EXCEPT ![t] = "idle"] /\ UNCHANGED <<heap, gangs, free, mine, batch, built>>
    BY DEF Gangs!BuildPanics
  <1>2. \A u \in Schedulers : pc'[u] = IF u = t THEN "idle" ELSE pc[u]
    BY <1>1 DEF GInv, Gangs!TypeOK
  <1>3. Gangs!TypeOK'
    BY <1>1 DEF GInv, Gangs!TypeOK
  <1>4. Numbered' /\ JobsStay' /\ WorkIsReal'
    BY <1>1, <1>2 DEF GInv, Numbered, JobsStay, WorkIsReal
  <1>5. FixedPhases'
    <2>1. \A u \in Schedulers, x \in DOMAIN heap : Busy(u, x)' => Busy(u, x) /\ pc'[u] = pc[u]
      BY <1>1, <1>2 DEF Busy
    <2>2. \A x \in Gangs!GangIds : Unbuilt(x)' <=> Unbuilt(x)
      BY <1>1 DEF Unbuilt
    <2>3. ASSUME NEW x \in DOMAIN heap, Phases(x) PROVE Phases(x)'
      <3>1. (Complete(x)' <=> Complete(x)) /\ (Unbuilt(x)' <=> Unbuilt(x))
        BY <1>1 DEF Complete, Unbuilt
      <3> QED BY <1>1, <2>1, <2>3, <3>1 DEF Phases
    <2> QED BY <1>1, <2>2, <2>3 DEF GInv, FixedPhases
  <1> QED BY <1>3, <1>4, <1>5 DEF GInv

LEMMA BindStep ==
  ASSUME GInv, NEW t \in Schedulers, Gangs!ScheduleBind(t)
  PROVE  GInv'
  <1>1. PICK g \in DOMAIN heap : g = mine[t] /\ heap[g].status # "pending" /\ pc[t] = "bind"
    BY DEF GInv, WorkIsReal, Gangs!ScheduleBind
  <1>2. /\ heap' = [heap EXCEPT ![g].status = "bound"]
        /\ pc' = [pc EXCEPT ![t] = "idle"]
        /\ UNCHANGED <<gangs, free, mine, batch, built>>
    BY <1>1 DEF Gangs!ScheduleBind
  <1>3. "bound" \in Gangs!GangStatus
    BY DEF Gangs!GangStatus
  <1>4. /\ DOMAIN heap' = DOMAIN heap
        /\ heap'[g].status = "bound"
        /\ \A x \in DOMAIN heap : /\ heap'[x] \in Gangs!Gang /\ heap'[x].jobs = heap[x].jobs
                                  /\ heap'[x].min = heap[x].min /\ heap'[x].max = heap[x].max
                                  /\ x # g => heap'[x].status = heap[x].status
    BY <1>1, <1>2, <1>3, StatusWritten
  <1>5. Gangs!TypeOK'
    <2>1. \A x \in DOMAIN heap' :
             heap'[x] \in Gangs!Gang /\ (heap'[x].jobs = {} \/ Gangs!Cardinality(heap'[x].jobs) <= heap'[x].max)
      BY <1>4, GangCardinality DEF GInv, Gangs!TypeOK
    <2>2. \A x, h \in DOMAIN heap' : x # h => heap'[x].jobs \cap heap'[h].jobs = {}
      BY <1>4 DEF GInv, Gangs!TypeOK
    <2> QED BY <1>1, <1>2, <1>4, <2>1, <2>2 DEF GInv, Gangs!TypeOK
  <1>6. Numbered'
    BY <1>4 DEF GInv, Numbered
  <1>7. JobsStay'
    BY <1>1, <1>2, <1>4 DEF GInv, JobsStay
  <1>8. WorkIsReal'
    BY <1>1, <1>2, <1>4 DEF GInv, Gangs!TypeOK, WorkIsReal
  <1>9. FixedPhases'
    <2>1. \A x \in Gangs!GangIds : Unbuilt(x)' <=> Unbuilt(x)
      BY <1>2 DEF Unbuilt
    <2>2. \A u \in Schedulers, x \in DOMAIN heap :
             Busy(u, x)' <=> u # t /\ Busy(u, x) /\ pc'[u] = pc[u]
      BY <1>2 DEF GInv, Gangs!TypeOK, Busy
    <2>3. ASSUME heap[g].min = heap[g].max PROVE Phases(g)'
      <3>1. Busy(t, g)
        BY <1>1 DEF Busy
      <3>2. Complete(g) /\ \A u \in Schedulers : Busy(u, g) => u = t
        BY <1>1, <2>3, <3>1 DEF GInv, FixedPhases, Phases
      <3>3. Complete(g)'
        BY <1>1, <1>2, <1>4, <3>2 DEF Complete
      <3> QED BY <1>1, <1>4, <2>2, <3>2, <3>3 DEF Phases
    <2>4. ASSUME NEW x \in DOMAIN heap, x # g, Phases(x) PROVE Phases(x)'
      <3>1. (Complete(x)' <=> Complete(x)) /\ (Unbuilt(x)' <=> Unbuilt(x))
        BY <1>2, <1>4 DEF Complete, Unbuilt
      <3> QED BY <1>4, <2>2, <2>4, <3>1 DEF Phases
    <2> QED BY <1>1, <1>4, <2>1, <2>3, <2>4 DEF GInv, FixedPhases
  <1> QED BY <1>5, <1>6, <1>7, <1>8, <1>9 DEF GInv

LEMMA DeleteStep ==
  ASSUME GInv, NEW n \in GangNames, Gangs!DeleteGang(n)
  PROVE  GInv'
  <1>1. gangs' = [gangs EXCEPT ![n] = Gangs!NoGang] /\ UNCHANGED <<heap, free, pc, mine, batch, built>>
    BY DEF Gangs!DeleteGang
  <1>2. Gangs!TypeOK'
    BY <1>1 DEF GInv, Gangs!TypeOK
  <1> QED BY <1>1, <1>2 DEF GInv, Numbered, JobsStay, WorkIsReal, FixedPhases, Phases,
                            Busy, Unbuilt, Complete

LEMMA GNext == ASSUME GInv, [Gangs!Next]_gangVars PROVE GInv'
  <1>1. CASE Gangs!Next
    BY <1>1, RegisterStep, AddStep, DeleteStep, StartStep, BuildStep, PanicStep, BindStep
    DEF Gangs!Next
  <1>2. CASE UNCHANGED gangVars
    BY <1>2 DEF gangVars, GInv, Gangs!TypeOK, Numbered, JobsStay, WorkIsReal, FixedPhases,
                Phases, Busy, Unbuilt, Complete
  <1> QED BY <1>1, <1>2

\* The invariant says of each gang what GangsAreExact does.
LEMMA ExactGangs == ASSUME GInv PROVE GangsAreExact
  <1>1. \A t \in Schedulers : pc[t] = "bind" => Cardinality(batch[t]) >= heap[mine[t]].min
    BY DEF GInv, WorkIsReal
  <1>2. ASSUME NEW g \in DOMAIN heap, heap[g].min = heap[g].max
        PROVE  /\ heap[g].status = "bound" => \A j \in heap[g].jobs : built[g][j] = 1
               /\ \A j \in GangJobs : built[g][j] <= 1
               /\ Cardinality({t \in Schedulers : pc[t] # "idle" /\ mine[t] = g}) <= 1
    <2>1. Phases(g) /\ heap[g] \in Gangs!Gang
      BY <1>2 DEF GInv, Gangs!TypeOK, FixedPhases
    <2>2. heap[g].status = "bound" => \A j \in heap[g].jobs : built[g][j] = 1
      BY <2>1 DEF Phases, Complete, Gangs!Gang
    <2>3. Cardinality({t \in Schedulers : pc[t] # "idle" /\ mine[t] = g}) <= 1
      <3> DEFINE S == {t \in Schedulers : pc[t] # "idle" /\ mine[t] = g}
      <3>1. \A t, u \in S : t = u
        BY <2>1 DEF Phases, Busy
      <3>2. S = {} \/ \E t \in S : S = {t}
        BY <3>1
      <3> HIDE DEF S
      <3>3. Cardinality(S) <= 1
        <4>1. CASE S = {}
          BY <4>1, FS_EmptySet
        <4>2. ASSUME NEW t \in S, S = {t} PROVE Cardinality(S) <= 1
          BY <4>2, FS_Singleton
        <4> QED BY <3>2, <4>1, <4>2
      <3> QED BY <3>3 DEF S
    <2>4. \A j \in GangJobs : built[g][j] <= 1
      BY <2>1 DEF Phases, Unbuilt, Complete
    <2> QED BY <2>2, <2>3, <2>4
  <1> QED BY <1>1, <1>2, GangCardinality DEF GangsAreExact, Gangs!GangsAreExact

-----------------------------------------------------------------------------
(* Both *)

\* A step of one part leaves the other's invariant alone.
LEMMA BothNext ==
  ASSUME QInv, GInv, [QueuesNext]_queuesVars PROVE QInv' /\ GInv'
  <1>1. CASE ManagerStep
    BY <1>1, QNext, GNext DEF ManagerStep
  <1>2. CASE GangStep
    BY <1>2, QNext, GNext DEF GangStep
  <1>3. CASE UNCHANGED queuesVars
    BY <1>3, QNext, GNext DEF queuesVars
  <1> QED BY <1>1, <1>2, <1>3 DEF QueuesNext

\* Every reachable state of the two satisfies both invariants.
THEOREM QueuesInvariant == QueuesSpec => [](QInv /\ GInv)
  <1>1. QueuesInit => QInv /\ GInv
    BY QInit, GInit DEF QueuesInit
  <1>2. (QInv /\ GInv) /\ [QueuesNext]_queuesVars => (QInv /\ GInv)'
    BY BothNext
  <1> QED BY <1>1, <1>2, PTL DEF QueuesSpec

\* QueuesTypeOK: no job waits twice or is held while it waits, and only requeued
\* jobs exceed MaxLen; no gang outgrows its MaxMember, no job is in two gangs, and
\* names refer to different objects.
THEOREM QueuesTypesOK == QueuesSpec => []QueuesTypeOK
  <1>1. QInv /\ GInv => QueuesTypeOK
    BY TypeParts DEF GInv, QueuesTypeOK
  <1> QED BY <1>1, QueuesInvariant, PTL

\* GangsAreExact: at least MinMember pods for every gang, and for a gang of fixed
\* size one pod per job, from one goroutine.
THEOREM QueuesGangsAreExact == QueuesSpec => []GangsAreExact
  <1>1. QInv /\ GInv => GangsAreExact
    BY ExactGangs
  <1> QED BY <1>1, QueuesInvariant, PTL
=============================================================================
