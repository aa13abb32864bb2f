----------------------------- MODULE Federation -----------------------------
(***************************************************************************)
(* The registry of clusters, federated services and the health checker     *)
(* (internal/federation).                                                  *)
(*                                                                         *)
(* The registry hands out pointers.  The checker lists the clusters once,  *)
(* writes into each without the registry's lock, and then updates by name; *)
(* GetHealthyClusters reads from the pointer it got.  In between, clusters *)
(* are unregistered and others registered under their names.  Clusters are *)
(* therefore objects, and the map from names to objects is separate.       *)
(* A definition X_Y is the mutation Y of X, used by no specification.      *)
(***************************************************************************)
EXTENDS Integers, FiniteSets

CONSTANTS Names,       \* of clusters
          Statuses,    \* those that callers give to clusters
          Services,    \* the keys of federated services
          Targets,     \* the clusters a service may be made for
          MaxAge,      \* 2*time.Minute, the age of a heartbeat that still counts
          MaxClusters, \* bound: clusters registered
          MaxTime      \* bound: time that passes

Objects   == 1..MaxClusters
NoCluster == 0

ClusterStatus == {"Ready", "Offline", "Degraded", "Disabled"}

ASSUME FederationAssumption ==
    /\ MaxAge \in Nat /\ MaxClusters \in Nat /\ MaxTime \in Nat
    /\ Statuses \subseteq ClusterStatus
    /\ Targets \subseteq SUBSET Names

Never   == -(MaxAge + 1)   \* the zero time
Cluster == [name : Names, status : ClusterStatus, beat : Never..MaxTime]

VARIABLES
  heap,      \* the Cluster objects, by number
  clusters,  \* r.clusters: name -> object, or NoCluster
  services,  \* mcs.services: key -> names of clusters
  now,
  checker,   \* Start: "idle", "probe", "update", "exited"
  listed,    \* the objects checkAllClusters has still to look at
  current,   \* the object it looks at
  stopped,   \* stopCh is closed
  query,     \* GetHealthyClusters: [pc, todo, obj, healthy]
  seen       \* history: the objects that, since the query began, have been
             \* registered, been Ready, had a heartbeat that counts

registry == <<heap, clusters>>
check    == <<checker, listed, current, stopped>>
vars     == <<heap, clusters, services, now, check, query, seen>>

NoQuery == [pc |-> "idle", todo |-> {}, obj |-> NoCluster, healthy |-> {}]

Registered == {clusters[n] : n \in Names} \ {NoCluster}
Fresh(o)   == now - heap[o].beat <= MaxAge

Init ==
    /\ heap = <<>>
    /\ clusters = [n \in Names |-> NoCluster]
    /\ services = [s \in {} |-> {}]
    /\ now = 0
    /\ checker = "idle" /\ listed = {} /\ current = NoCluster /\ stopped = FALSE
    /\ query = NoQuery
    /\ seen = [registered |-> {}, ready |-> {}, fresh |-> {}]

-----------------------------------------------------------------------------
(* ClusterRegistry *)

\* The caller brings the cluster, with a status and no heartbeat.
Register(n, status) ==
    /\ clusters[n] = NoCluster
    /\ Cardinality(DOMAIN heap) < MaxClusters
    /\ LET new == Cardinality(DOMAIN heap) + 1 IN
       /\ heap' = [o \in 1..new |->
                     IF o = new THEN [name |-> n, status |-> status, beat |-> Never]
                     ELSE heap[o]]
       /\ clusters' = [clusters EXCEPT ![n] = new]
    /\ UNCHANGED <<services, now, check, query>>

Unregister(n) ==
    /\ clusters[n] # NoCluster
    /\ clusters' = [clusters EXCEPT ![n] = NoCluster]
    /\ UNCHANGED <<heap, services, now, check, query>>

UpdateStatus(n, status) ==
    /\ clusters[n] # NoCluster
    /\ heap' = [heap EXCEPT ![clusters[n]].status = status]
    /\ UNCHANGED <<clusters, services, now, check, query>>

UpdateHeartbeat(n) ==
    /\ clusters[n] # NoCluster
    /\ heap' = [heap EXCEPT ![clusters[n]].status = "Ready", ![clusters[n]].beat = now]
    /\ UNCHANGED <<clusters, services, now, check, query>>

-----------------------------------------------------------------------------
(* ClusterHealthChecker *)

CheckStart_ReadyOnly ==
    /\ checker = "idle"
    /\ checker' = "probe"
    /\ listed' = {o \in Registered : heap[o].status = "Ready"}
    /\ UNCHANGED <<registry, services, now, current, stopped, query>>

\* The ticker fires.  When stopCh is closed too, select takes either.
CheckStart ==
    /\ checker = "idle"
    /\ checker' = "probe"
    /\ listed' = Registered
    /\ UNCHANGED <<registry, services, now, current, stopped, query>>

\* CheckClusterHealth: it reports success without asking the cluster.
CheckProbe(o) ==
    /\ checker = "probe"
    /\ o \in listed
    /\ heap' = [heap EXCEPT ![o].status = "Ready", ![o].beat = now]
    /\ current' = o
    /\ listed' = listed \ {o}
    /\ checker' = "update"
    /\ UNCHANGED <<clusters, services, now, stopped, query>>

CheckUpdate_Reinserts ==
    /\ checker = "update"
    /\ clusters' = [clusters EXCEPT ![heap[current].name] = current]
    /\ checker' = "probe" /\ current' = NoCluster
    /\ UNCHANGED <<heap, services, now, listed, stopped, query>>

\* registry.UpdateStatus(cluster.Name, Ready): of what has that name by now.
CheckUpdate ==
    /\ checker = "update"
    /\ LET o == clusters[heap[current].name] IN
       heap' = IF o = NoCluster THEN heap ELSE [heap EXCEPT ![o].status = "Ready"]
    /\ checker' = "probe" /\ current' = NoCluster
    /\ UNCHANGED <<clusters, services, now, listed, stopped, query>>

CheckEnd_Early ==
    /\ checker = "probe"
    /\ checker' = "idle"
    /\ UNCHANGED <<registry, services, now, listed, current, stopped, query>>

CheckEnd ==
    /\ checker = "probe" /\ listed = {}
    /\ checker' = "idle"
    /\ UNCHANGED <<registry, services, now, listed, current, stopped, query>>

CheckStop ==
    /\ ~stopped
    /\ stopped' = TRUE
    /\ UNCHANGED <<registry, services, now, checker, listed, current, query>>

CheckExit ==
    /\ checker = "idle" /\ stopped
    /\ checker' = "exited"
    /\ UNCHANGED <<registry, services, now, listed, current, stopped, query>>

-----------------------------------------------------------------------------
(* MultiClusterService *)

\* A query holds the read lock of the services.
CreateService(s, ns) ==
    /\ query.pc = "idle"
    /\ s \notin DOMAIN services
    /\ services' = [t \in DOMAIN services \cup {s} |-> IF t = s THEN ns ELSE services[t]]
    /\ UNCHANGED <<registry, now, check, query>>

DeleteService(s) ==
    /\ query.pc = "idle"
    /\ s \in DOMAIN services
    /\ services' = [t \in DOMAIN services \ {s} |-> services[t]]
    /\ UNCHANGED <<registry, now, check, query>>

QueryStart(s) ==
    /\ query.pc = "idle"
    /\ s \in DOMAIN services
    /\ query' = [NoQuery EXCEPT !.pc = "get", !.todo = services[s]]
    /\ UNCHANGED <<registry, services, now, check>>

\* registry.Get; the order of the names makes no difference.
QueryGet(n) ==
    /\ query.pc = "get"
    /\ n \in query.todo
    /\ query' = IF clusters[n] = NoCluster
                THEN [query EXCEPT !.todo = @ \ {n}]
                ELSE [query EXCEPT !.obj = clusters[n], !.pc = "status"]
    /\ UNCHANGED <<registry, services, now, check>>

QueryNext(healthy) ==
    query' = [query EXCEPT !.pc = "get", !.obj = NoCluster,
                           !.todo = @ \ {heap[query.obj].name}, !.healthy = healthy]

QueryStatus ==
    /\ query.pc = "status"
    /\ IF heap[query.obj].status # "Ready" THEN QueryNext(query.healthy)
       ELSE query' = [query EXCEPT !.pc = "beat"]
    /\ UNCHANGED <<registry, services, now, check>>

QueryBeat_AnyAge ==
    /\ query.pc = "beat"
    /\ QueryNext(query.healthy \cup {heap[query.obj].name})
    /\ UNCHANGED <<registry, services, now, check>>

QueryBeat ==
    /\ query.pc = "beat"
    /\ QueryNext(query.healthy \cup IF Fresh(query.obj) THEN {heap[query.obj].name} ELSE {})
    /\ UNCHANGED <<registry, services, now, check>>

QueryReturn ==
    /\ query.pc = "get" /\ query.todo = {}
    /\ query' = NoQuery
    /\ UNCHANGED <<registry, services, now, check>>

-----------------------------------------------------------------------------
(* The environment, and the specification *)

Tick ==
    /\ now < MaxTime
    /\ now' = now + 1
    /\ UNCHANGED <<registry, services, check, query>>

Registry ==
    \E n \in Names : \/ \E st \in Statuses : Register(n, st) \/ UpdateStatus(n, st)
                     \/ Unregister(n)
                     \/ UpdateHeartbeat(n)

Checker == CheckStart \/ (\E o \in Objects : CheckProbe(o)) \/ CheckUpdate \/ CheckEnd \/ CheckExit

Query == (\E n \in Names : QueryGet(n)) \/ QueryStatus \/ QueryBeat \/ QueryReturn

Step ==
    \/ Registry \/ Checker \/ CheckStop \/ Query
    \/ \E s \in Services : (\E ns \in Targets : CreateService(s, ns))
                           \/ DeleteService(s) \/ QueryStart(s)
    \/ Tick

\* What the history has to add in the state a step leads to.
See == [registered |-> Registered,
        ready |-> {o \in DOMAIN heap : heap[o].status = "Ready"},
        fresh |-> {o \in DOMAIN heap : Fresh(o)}]

Record ==
    seen' = IF query'.pc = "idle" THEN [registered |-> {}, ready |-> {}, fresh |-> {}]
            ELSE [f \in {"registered", "ready", "fresh"} |-> seen[f] \cup See[f] \cup See'[f]]

Next == Step /\ Record

Spec == Init /\ [][Next]_vars

\* The checker's goroutine runs.
FairSpec == Spec /\ WF_vars(Checker /\ Record)

-----------------------------------------------------------------------------
(* Properties *)

\* Every variable has its type, a name refers to an object of that name, and the
\* checker leaves no cluster of its list out.
TypeOK ==
    /\ DOMAIN heap \subseteq Objects /\ \A o \in DOMAIN heap : heap[o] \in Cluster
    /\ clusters \in [Names -> DOMAIN heap \cup {NoCluster}]
    /\ \A n \in Names : clusters[n] # NoCluster => heap[clusters[n]].name = n
    /\ DOMAIN services \subseteq Services
    /\ \A s \in DOMAIN services : services[s] \subseteq Names
    /\ now \in 0..MaxTime /\ stopped \in BOOLEAN
    /\ checker \in {"idle", "probe", "update", "exited"}
    /\ listed \subseteq DOMAIN heap
    /\ current \in DOMAIN heap \cup {NoCluster}
    /\ (checker = "update") = (current # NoCluster)
    /\ checker \in {"idle", "exited"} => listed = {}
    /\ query.pc \in {"idle", "get", "status", "beat"}
    /\ query.todo \subseteq Names /\ query.healthy \subseteq Names
    /\ query.obj \in DOMAIN heap \cup {NoCluster}

\* GetHealthyClusters puts its answer together from reads that other goroutines
\* come between.  Each cluster in it was, while the call ran, registered, Ready
\* and recently heard of: not in one moment, but the same cluster, and not
\* another one of its name.
AnswersAreGrounded ==
    \A n \in query.healthy :
       \E o \in seen.registered \cap seen.ready \cap seen.fresh : heap[o].name = n

\* A cluster that has been unregistered does not come back: the checker, which
\* may still have it in its list, never puts it into the registry again.
UnregisteredStaysOut ==
    [][\A n \in Names : clusters'[n] # clusters[n] =>
          clusters'[n] = NoCluster \/ clusters'[n] \notin DOMAIN heap]_vars

\* While the checker runs, no registered cluster is left out: each is found
\* Ready again and again, whatever status it is given in between.
EveryClusterIsChecked ==
    \/ \A n \in Names : []<>(clusters[n] = NoCluster \/ heap[clusters[n]].status = "Ready")
    \/ <>(checker = "exited")
=============================================================================
