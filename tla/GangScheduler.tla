---------------------------- MODULE GangScheduler ----------------------------
(***************************************************************************)
(* Gang scheduling (GangScheduler in internal/scheduler/kueue_volcano.go). *)
(* All methods hold GangScheduler.mu throughout but ScheduleGang, which    *)
(* marks the gang as scheduling, unlocks, and then builds one pod per job  *)
(* and marks the gang as bound through the pointer it still has: by then   *)
(* jobs may have joined, and the gang may have been deleted and another    *)
(* registered under its name.  Gangs are therefore objects, and the map    *)
(* from names to objects is separate.                                      *)
(*                                                                         *)
(* resource.MustParse panics on a job whose CPU or Memory is not a         *)
(* quantity, and an empty one is none.  Nothing in the repository calls    *)
(* ScheduleGang; its caller is taken to recover from the panic, as an HTTP *)
(* server does, so that the gang keeps the status "scheduling".            *)
(*                                                                         *)
(* "range gang.Jobs" reads the slice once.  That read and AddJobToGang's   *)
(* write race; the model takes the slice before or after the write.        *)
(* A definition X_Y is the mutation Y of X, used by no specification.      *)
(***************************************************************************)
EXTENDS Integers, FiniteSets

CONSTANTS Names, Jobs,
          Sizes,       \* pairs <<minMember, maxMember>> gangs are registered with
          Unparsable,  \* jobs whose CPU or Memory is not a quantity
          Schedulers,  \* goroutines that call ScheduleGang
          MaxGangs     \* bound: gangs registered

GangAssumption ==
    /\ Sizes \subseteq Int \X Int
    /\ MaxGangs \in Nat

GangIds == 1..MaxGangs
NoGang  == 0

VARIABLES
  heap,     \* the Gang objects allocated so far, by number
  gangs,    \* gs.gangs: name -> object, or NoGang
  free,     \* jobs not yet in a gang
  pc,       \* ScheduleGang: "idle", "range", "bind"
  mine,     \* the object the goroutine's pointer refers to
  batch,    \* the jobs it ranges over
  built     \* history: per object and job, the pods of completed builds

vars == <<heap, gangs, free, pc, mine, batch, built>>

GangStatus == {"pending", "scheduling", "ready", "bound", "failed"}

Gang == [min : Int, max : Int, jobs : SUBSET Jobs, status : GangStatus]

Init ==
    /\ heap = <<>>
    /\ gangs = [n \in Names |-> NoGang]
    /\ free = Jobs
    /\ pc = [t \in Schedulers |-> "idle"]
    /\ mine = [t \in Schedulers |-> NoGang]
    /\ batch = [t \in Schedulers |-> {}]
    /\ built = [g \in GangIds |-> [j \in Jobs |-> 0]]

RegisterGang(n, size) ==
    /\ gangs[n] = NoGang
    /\ Cardinality(DOMAIN heap) < MaxGangs
    /\ LET g == Cardinality(DOMAIN heap) + 1 IN
       /\ heap' = [x \in 1..g |->
                     IF x = g THEN [min |-> size[1], max |-> size[2], jobs |-> {},
                                    status |-> "pending"]
                     ELSE heap[x]]
       /\ gangs' = [gangs EXCEPT ![n] = g]
    /\ UNCHANGED <<free, pc, mine, batch, built>>

HasRoom(g) == Cardinality(heap[g].jobs) < heap[g].max

IsFull(g) == Cardinality(heap[g].jobs) + 1 >= heap[g].min

\* A gang becomes ready with its min-th job, and again with every later one,
\* also when it is being scheduled or bound.
AddJobToGang(n, j) ==
    /\ j \in free
    /\ LET g == gangs[n] IN
       /\ g # NoGang
       /\ HasRoom(g)
       /\ heap' = [heap EXCEPT ![g].jobs = @ \cup {j},
                               ![g].status = IF IsFull(g) THEN "ready" ELSE @]
    /\ free' = free \ {j}
    /\ UNCHANGED <<gangs, pc, mine, batch, built>>

DeleteGang(n) ==
    /\ gangs[n] # NoGang
    /\ gangs' = [gangs EXCEPT ![n] = NoGang]
    /\ UNCHANGED <<heap, free, pc, mine, batch, built>>

ScheduleStart_Unchecked(t, n) ==
    /\ pc[t] = "idle"
    /\ gangs[n] # NoGang
    /\ heap' = [heap EXCEPT ![gangs[n]].status = "scheduling"]
    /\ mine' = [mine EXCEPT ![t] = gangs[n]]
    /\ pc' = [pc EXCEPT ![t] = "range"]
    /\ UNCHANGED <<gangs, free, batch, built>>

\* ScheduleGang up to gs.mu.Unlock().
ScheduleStart(t, n) ==
    /\ pc[t] = "idle"
    /\ gangs[n] # NoGang
    /\ heap[gangs[n]].status = "ready"
    /\ heap' = [heap EXCEPT ![gangs[n]].status = "scheduling"]
    /\ mine' = [mine EXCEPT ![t] = gangs[n]]
    /\ pc' = [pc EXCEPT ![t] = "range"]
    /\ UNCHANGED <<gangs, free, batch, built>>

\* The pods of the jobs js are built: of a pod only its job is kept.
buildGangPods(counts, js) == [j \in Jobs |-> counts[j] + IF j \in js THEN 1 ELSE 0]

\* The loop over gang.Jobs, one pod per job.
ScheduleBuild(t) ==
    /\ pc[t] = "range"
    /\ heap[mine[t]].jobs \cap Unparsable = {}
    /\ batch' = [batch EXCEPT ![t] = heap[mine[t]].jobs]
    /\ built' = [built EXCEPT ![mine[t]] = buildGangPods(@, heap[mine[t]].jobs)]
    /\ pc' = [pc EXCEPT ![t] = "bind"]
    /\ UNCHANGED <<heap, gangs, free, mine>>

\* The panic of buildGangPod leaves the loop: the pods built so far are lost.
BuildPanics(t) ==
    /\ pc[t] = "range"
    /\ heap[mine[t]].jobs \cap Unparsable # {}
    /\ pc' = [pc EXCEPT ![t] = "idle"]
    /\ UNCHANGED <<heap, gangs, free, mine, batch, built>>

ScheduleBind_Unmarked(t) ==
    /\ pc[t] = "bind"
    /\ pc' = [pc EXCEPT ![t] = "idle"]
    /\ UNCHANGED <<heap, gangs, free, mine, batch, built>>

\* gang.Status = GangStatusBound, and the return of the pods.
ScheduleBind(t) ==
    /\ pc[t] = "bind"
    /\ heap' = [heap EXCEPT ![mine[t]].status = "bound"]
    /\ pc' = [pc EXCEPT ![t] = "idle"]
    /\ UNCHANGED <<gangs, free, mine, batch, built>>

Next ==
    \/ \E n \in Names :
          \/ \E s \in Sizes : RegisterGang(n, s)
          \/ \E j \in Jobs : AddJobToGang(n, j)
          \/ DeleteGang(n)
          \/ \E t \in Schedulers : ScheduleStart(t, n)
    \/ \E t \in Schedulers : ScheduleBuild(t) \/ BuildPanics(t) \/ ScheduleBind(t)

Spec == Init /\ [][Next]_vars

\* A goroutine that schedules a gang goes on.
Fairness ==
    \A t \in Schedulers : WF_vars(ScheduleBuild(t) \/ BuildPanics(t) \/ ScheduleBind(t))

-----------------------------------------------------------------------------
(* Properties *)

\* Every variable has its type; no gang outgrows its MaxMember, no job is in two
\* gangs, and names refer to different objects.
TypeOK ==
    /\ DOMAIN heap \subseteq GangIds
    /\ \A g \in DOMAIN heap :
          heap[g] \in Gang /\ (heap[g].jobs = {} \/ Cardinality(heap[g].jobs) <= heap[g].max)
    /\ \A g, h \in DOMAIN heap : g # h => heap[g].jobs \cap heap[h].jobs = {}
    /\ gangs \in [Names -> DOMAIN heap \cup {NoGang}]
    /\ \A m, n \in Names : gangs[m] = gangs[n] /\ m # n => gangs[m] = NoGang
    /\ free \subseteq Jobs
    /\ pc \in [Schedulers -> {"idle", "range", "bind"}]
    /\ mine \in [Schedulers -> DOMAIN heap \cup {NoGang}]
    /\ batch \in [Schedulers -> SUBSET Jobs]
    /\ built \in [GangIds -> [Jobs -> Nat]]

\* ScheduleGang reads the jobs after it has given up the lock, and yet what it
\* returns for a gang is at least MinMember pods; and a gang whose MinMember is its
\* MaxMember is all or nothing: it is bound only when each of its jobs has a pod,
\* no job ever gets two, and one goroutine at most works on it.
GangsAreExact ==
    /\ \A t \in Schedulers :
          pc[t] = "bind" => Cardinality(batch[t]) >= heap[mine[t]].min
    /\ \A g \in DOMAIN heap : heap[g].min = heap[g].max =>
          /\ heap[g].status = "bound" => \A j \in heap[g].jobs : built[g][j] = 1
          /\ \A j \in Jobs : built[g][j] <= 1
          /\ Cardinality({t \in Schedulers : pc[t] # "idle" /\ mine[t] = g}) <= 1

\* A gang that is being scheduled does not stay so but for one case: it is bound, or
\* has become ready again because a job joined, or one of its jobs made the build
\* panic.  Such a gang is left "scheduling" with nobody at work on it: nothing but a
\* job that joins takes it out of that status.
SchedulingEnds ==
    \A g \in GangIds :
       (g \in DOMAIN heap /\ heap[g].status = "scheduling")
          ~> /\ g \in DOMAIN heap
             /\ \/ heap[g].status \in {"bound", "ready"}
                \/ /\ heap[g].jobs \cap Unparsable # {}
                   /\ \A t \in Schedulers : mine[t] = g => pc[t] = "idle"

\* All or nothing (CHANGELOG.md:137, "Gang 调度（All-or-Nothing）"): when a gang
\* is bound, every job in it has a pod.
AllOrNothing ==
    \A g \in DOMAIN heap :
       heap[g].status = "bound" => \A j \in heap[g].jobs : built[g][j] >= 1
=============================================================================
