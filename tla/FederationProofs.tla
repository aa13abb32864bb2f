-------------------------- MODULE FederationProofs --------------------------
(***************************************************************************)
(* Proofs about Federation, for any names, keys and targets of services,   *)
(* any age that counts, and any number of clusters registered.             *)
(*                                                                         *)
(* Objects are numbered as they are registered (Shape), keep their names   *)
(* and are never reused: so a cluster that is registered is a new one, and *)
(* what the history says of an object is about one cluster.  FSeen says    *)
(* what of the object a query looks at has been recorded by the time the   *)
(* query is at each of its reads.                                          *)
(***************************************************************************)
EXTENDS Federation, FiniteSetTheorems, TLAPS

Shape == \E k \in 0..MaxClusters : DOMAIN heap = 1..k

QueryType == [pc : {"idle", "get", "status", "beat"}, todo : SUBSET Names,
              obj : Nat, healthy : SUBSET Names]

FType == TypeOK /\ Shape /\ query \in QueryType

Kinds == {"registered", "ready", "fresh"}

FSeen ==
    /\ \A f \in Kinds : seen[f] \subseteq DOMAIN heap
    /\ query.pc = "idle" => query.healthy = {}
    /\ query.pc \in {"status", "beat"} => /\ query.obj \in DOMAIN heap
                                          /\ query.obj \in seen["registered"]
    /\ query.pc = "beat" => query.obj \in seen["ready"]
    /\ AnswersAreGrounded

FInv == FType /\ FSeen

-----------------------------------------------------------------------------
(* The objects *)

LEMMA ShapeFacts ==
  ASSUME FType
  PROVE  /\ Cardinality(DOMAIN heap) \in 0..MaxClusters
         /\ DOMAIN heap = 1..Cardinality(DOMAIN heap)
         /\ NoCluster \notin DOMAIN heap
  <1>1. PICK k \in 0..MaxClusters : DOMAIN heap = 1..k
    BY DEF FType, Shape
  <1>2. k \in Nat /\ Cardinality(1..k) = k
    BY <1>1, FS_Interval, FederationAssumption
  <1> QED BY <1>1, <1>2 DEF NoCluster

\* A change of a registered or listed object keeps the type and its name.
LEMMA ChangeFacts ==
  ASSUME FType, NEW o \in DOMAIN heap, NEW c \in Cluster, c.name = heap[o].name,
         heap' = [heap EXCEPT ![o] = c]
  PROVE  /\ DOMAIN heap' = DOMAIN heap
         /\ \A x \in DOMAIN heap : heap'[x] \in Cluster /\ heap'[x].name = heap[x].name
  BY DEF FType, TypeOK

\* The clusters have their type when each object still has it and its name.
LEMMA HeapChanged ==
  ASSUME FType, DOMAIN heap' = DOMAIN heap,
         \A x \in DOMAIN heap : heap'[x] \in Cluster /\ heap'[x].name = heap[x].name,
         UNCHANGED <<clusters, services, now, stopped>>,
         listed' \subseteq listed, current' \in DOMAIN heap \cup {NoCluster},
         (checker' = "update") = (current' # NoCluster),
         checker' \in {"idle", "probe", "update", "exited"},
         checker' \in {"idle", "exited"} => listed' = {},
         query' = query
  PROVE  FType'
  <1>1. Shape'
    BY DEF FType, Shape
  <1>2. TypeOK'
    BY DEF FType, TypeOK
  <1> QED BY <1>1, <1>2 DEF FType

LEMMA StatusCluster ==
  ASSUME FType, NEW o \in DOMAIN heap, NEW st \in ClusterStatus
  PROVE  /\ [heap EXCEPT ![o].status = st] =
              [heap EXCEPT ![o] = [heap[o] EXCEPT !.status = st]]
         /\ [heap[o] EXCEPT !.status = st] \in Cluster
         /\ [heap[o] EXCEPT !.status = st].name = heap[o].name
  BY DEF FType, TypeOK, Cluster

LEMMA BeatCluster ==
  ASSUME FType, NEW o \in DOMAIN heap
  PROVE  LET c == [heap[o] EXCEPT !.status = "Ready", !.beat = now]
         IN  /\ [heap EXCEPT ![o].status = "Ready", ![o].beat = now] = [heap EXCEPT ![o] = c]
             /\ c \in Cluster /\ c.name = heap[o].name
  <1>1. heap[o] \in Cluster /\ now \in Never..MaxTime
    BY FederationAssumption DEF FType, TypeOK, Never
  <1> QED BY <1>1 DEF Cluster, ClusterStatus

-----------------------------------------------------------------------------
(* The types *)

LEMMA RegisterStep ==
  ASSUME FType, NEW n \in Names, NEW st \in Statuses, Register(n, st)
  PROVE  /\ FType'
         /\ DOMAIN heap \subseteq DOMAIN heap'
         /\ \A o \in DOMAIN heap : heap'[o].name = heap[o].name
         /\ \A m \in Names : clusters'[m] # clusters[m] => clusters'[m] \notin DOMAIN heap
  <1> DEFINE k   == Cardinality(DOMAIN heap)
             new == k + 1
             c   == [name |-> n, status |-> st, beat |-> Never]
  <1>1. /\ heap' = [o \in 1..new |-> IF o = new THEN c ELSE heap[o]]
        /\ clusters' = [clusters EXCEPT ![n] = new]
        /\ k < MaxClusters
        /\ UNCHANGED <<services, now, check, query>>
    BY DEF Register
  <1>2. k \in Nat /\ DOMAIN heap = 1..k /\ new \in 1..MaxClusters /\ MaxClusters \in Nat
    BY <1>1, ShapeFacts, FederationAssumption
  <1>3. c \in Cluster /\ c.name = n
    BY FederationAssumption DEF Cluster, Never
  <1> HIDE DEF c, k
  <1>4. /\ DOMAIN heap' = 1..new /\ DOMAIN heap \subseteq 1..new
        /\ heap'[new] = c /\ new \notin DOMAIN heap
        /\ \A o \in DOMAIN heap : heap'[o] = heap[o]
    BY <1>1, <1>2
  <1>5. DOMAIN heap' = DOMAIN heap \cup {new}
    BY <1>2, <1>4
  <1>6. Shape'
    BY <1>2, <1>4 DEF Shape
  <1> HIDE DEF new
  <1>7. TypeOK'
    <2>1. DOMAIN heap' \subseteq Objects /\ \A o \in DOMAIN heap' : heap'[o] \in Cluster
      BY <1>2, <1>3, <1>4, <1>5 DEF FType, TypeOK, Objects
    <2>2. /\ clusters' \in [Names -> DOMAIN heap' \cup {NoCluster}]
          /\ \A m \in Names : clusters'[m] # NoCluster => heap'[clusters'[m]].name = m
      BY <1>1, <1>3, <1>4, <1>5 DEF FType, TypeOK
    <2>3. /\ listed' \subseteq DOMAIN heap' /\ current' \in DOMAIN heap' \cup {NoCluster}
          /\ query'.obj \in DOMAIN heap' \cup {NoCluster}
      BY <1>1, <1>5 DEF check, FType, TypeOK
    <2> QED BY <1>1, <2>1, <2>2, <2>3 DEF check, FType, TypeOK
  <1>8. query' \in QueryType
    BY <1>1 DEF FType
  <1>9. \A m \in Names : clusters'[m] # clusters[m] => clusters'[m] = new
    BY <1>1 DEF FType, TypeOK
  <1> QED BY <1>4, <1>6, <1>7, <1>8, <1>9 DEF FType

\* The other steps make no object, and take clusters out at most.
Kept ==
    /\ DOMAIN heap' = DOMAIN heap
    /\ \A o \in DOMAIN heap : heap'[o].name = heap[o].name
    /\ \A m \in Names : clusters'[m] # clusters[m] => clusters'[m] = NoCluster

LEMMA RegistryStep ==
  ASSUME FType, NEW n \in Names,
         Unregister(n) \/ UpdateHeartbeat(n) \/ \E st \in Statuses : UpdateStatus(n, st)
  PROVE  FType' /\ Kept
  <1>1. CASE Unregister(n)
    BY <1>1 DEF Unregister, check, FType, TypeOK, Shape, Kept
  <1>2. ASSUME clusters[n] # NoCluster PROVE clusters[n] \in DOMAIN heap
    BY <1>2 DEF FType, TypeOK
  <1>3. ASSUME NEW st \in Statuses, UpdateStatus(n, st) PROVE FType' /\ Kept
    <2>1. st \in ClusterStatus
      BY FederationAssumption
    <2>2. /\ DOMAIN heap' = DOMAIN heap
          /\ \A x \in DOMAIN heap : heap'[x] \in Cluster /\ heap'[x].name = heap[x].name
      BY <1>2, <1>3, <2>1, StatusCluster, ChangeFacts DEF UpdateStatus
    <2>3. FType'
      BY <1>3, <2>2, HeapChanged DEF UpdateStatus, check, FType, TypeOK
    <2> QED BY <1>3, <2>2, <2>3 DEF UpdateStatus, Kept
  <1>4. CASE UpdateHeartbeat(n)
    <2>1. /\ DOMAIN heap' = DOMAIN heap
          /\ \A x \in DOMAIN heap : heap'[x] \in Cluster /\ heap'[x].name = heap[x].name
      BY <1>2, <1>4, BeatCluster, ChangeFacts DEF UpdateHeartbeat
    <2>2. FType'
      BY <1>4, <2>1, HeapChanged DEF UpdateHeartbeat, check, FType, TypeOK
    <2> QED BY <1>4, <2>1, <2>2 DEF UpdateHeartbeat, Kept
  <1> QED BY <1>1, <1>3, <1>4

LEMMA CheckerStep == ASSUME FType, Checker \/ CheckStop PROVE FType' /\ Kept
  <1>1. ASSUME NEW o \in Objects, CheckProbe(o) PROVE FType' /\ Kept
    <2>1. o \in DOMAIN heap /\ NoCluster \notin DOMAIN heap
      BY <1>1, ShapeFacts DEF CheckProbe, FType, TypeOK
    <2>2. /\ DOMAIN heap' = DOMAIN heap
          /\ \A x \in DOMAIN heap : heap'[x] \in Cluster /\ heap'[x].name = heap[x].name
      BY <1>1, <2>1, BeatCluster, ChangeFacts DEF CheckProbe
    <2>3. FType'
      BY <1>1, <2>1, <2>2, HeapChanged DEF CheckProbe
    <2> QED BY <1>1, <2>2, <2>3 DEF CheckProbe, Kept
  <1>2. CASE CheckUpdate
    <2> DEFINE o == clusters[heap[current].name]
    <2>1. current \in DOMAIN heap
      BY <1>2 DEF CheckUpdate, FType, TypeOK
    <2>2. o \in DOMAIN heap \cup {NoCluster}
      BY <2>1 DEF FType, TypeOK, Cluster
    <2>3. /\ DOMAIN heap' = DOMAIN heap
          /\ \A x \in DOMAIN heap : heap'[x] \in Cluster /\ heap'[x].name = heap[x].name
      <3>1. CASE o = NoCluster
        BY <1>2, <3>1 DEF CheckUpdate, FType, TypeOK
      <3>2. CASE o # NoCluster
        <4>1. o \in DOMAIN heap /\ "Ready" \in ClusterStatus
          BY <2>2, <3>2 DEF ClusterStatus
        <4>2. heap' = [heap EXCEPT ![o].status = "Ready"]
          BY <1>2, <3>2 DEF CheckUpdate
        <4> HIDE DEF o
        <4> QED BY <4>1, <4>2, StatusCluster, ChangeFacts
      <3> QED BY <3>1, <3>2
    <2>4. FType'
      BY <1>2, <2>3, HeapChanged DEF CheckUpdate
    <2> QED BY <1>2, <2>3, <2>4 DEF CheckUpdate, Kept
  <1>3. CASE CheckStart
    <2>1. Registered \subseteq DOMAIN heap
      BY DEF Registered, FType, TypeOK
    <2> QED BY <1>3, <2>1 DEF CheckStart, registry, FType, TypeOK, Shape, Kept
  <1>4. CASE CheckEnd \/ CheckExit \/ CheckStop
    BY <1>4 DEF CheckEnd, CheckExit, CheckStop, registry, FType, TypeOK, Shape, Kept
  <1> QED BY <1>1, <1>2, <1>3, <1>4 DEF Checker

LEMMA ServiceStep ==
  ASSUME FType, NEW s \in Services,
         DeleteService(s) \/ QueryStart(s) \/ \E ns \in Targets : CreateService(s, ns)
  PROVE  FType' /\ Kept
  <1>1. \A ns \in Targets : ns \subseteq Names
    BY FederationAssumption
  <1>2. ASSUME NEW ns \in Targets, CreateService(s, ns) PROVE FType' /\ Kept
    BY <1>1, <1>2 DEF CreateService, registry, check, FType, TypeOK, Shape, Kept
  <1>3. CASE DeleteService(s)
    BY <1>3 DEF DeleteService, registry, check, FType, TypeOK, Shape, Kept
  <1>4. CASE QueryStart(s)
    <2>1. services[s] \subseteq Names
      BY <1>4 DEF QueryStart, FType, TypeOK
    <2>2. query' = [pc |-> "get", todo |-> services[s], obj |-> NoCluster, healthy |-> {}]
      BY <1>4 DEF QueryStart, NoQuery
    <2>3. query' \in QueryType
      BY <2>1, <2>2 DEF QueryType, NoCluster
    <2>4. /\ query'.pc = "get" /\ query'.todo = services[s] /\ query'.obj = NoCluster
          /\ query'.healthy = {}
      BY <2>2
    <2>5. UNCHANGED <<heap, clusters, services, now, checker, listed, current, stopped>>
      BY <1>4 DEF QueryStart, registry, check
    <2>6. TypeOK'
      BY <2>1, <2>4, <2>5 DEF FType, TypeOK
    <2> QED BY <2>3, <2>5, <2>6 DEF FType, Shape, Kept
  <1> QED BY <1>2, <1>3, <1>4

\* A step of the query changes nothing but the query.
LEMMA QueryStep ==
  ASSUME FType, Query, query' \in QueryType, query'.obj \in DOMAIN heap \cup {NoCluster}
  PROVE  FType' /\ Kept
  <1>1. UNCHANGED <<registry, services, now, check>>
    BY DEF Query, QueryGet, QueryStatus, QueryBeat, QueryReturn
  <1> QED BY <1>1 DEF registry, check, FType, TypeOK, Shape, Kept, QueryType

-----------------------------------------------------------------------------
(* The history *)

Grown == /\ DOMAIN heap \subseteq DOMAIN heap'
         /\ \A o \in DOMAIN heap : heap'[o].name = heap[o].name

LEMMA SeeFacts ==
  ASSUME FType
  PROVE  /\ \A f \in Kinds : See[f] \subseteq DOMAIN heap
         /\ See["registered"] = Registered
         /\ See["ready"] = {o \in DOMAIN heap : heap[o].status = "Ready"}
         /\ See["fresh"] = {o \in DOMAIN heap : Fresh(o)}
  <1>1. Registered \subseteq DOMAIN heap
    BY DEF Registered, FType, TypeOK
  <1>2. /\ See["registered"] = Registered
        /\ See["ready"] = {o \in DOMAIN heap : heap[o].status = "Ready"}
        /\ See["fresh"] = {o \in DOMAIN heap : Fresh(o)}
    BY DEF See
  <1> QED BY <1>1, <1>2 DEF Kinds

\* While a query runs, nothing that was recorded is lost, and all that holds before
\* and after a step is recorded.
LEMMA RecordFacts ==
  ASSUME FInv, FType', Grown, Record
  PROVE  /\ \A f \in Kinds : seen'[f] \subseteq DOMAIN heap'
         /\ query'.pc # "idle" =>
              \A f \in Kinds : seen[f] \subseteq seen'[f] /\ See[f] \subseteq seen'[f]
  <1>1. CASE query'.pc = "idle"
    <2>1. \A f \in Kinds : seen'[f] = {}
      BY <1>1 DEF Record, Kinds
    <2> QED BY <1>1, <2>1
  <1>2. CASE query'.pc # "idle"
    <2>1. \A f \in Kinds : seen'[f] = seen[f] \cup See[f] \cup See'[f]
      BY <1>2 DEF Record, Kinds
    <2>2. \A f \in Kinds : See[f] \subseteq DOMAIN heap
      BY SeeFacts DEF FInv
    <2>3. \A f \in Kinds : See'[f] \subseteq DOMAIN heap'
      <3>1. (\A f \in Kinds : See[f] \subseteq DOMAIN heap)'
        BY SeeFacts, PTL
      <3> QED BY <3>1
    <2>4. \A f \in Kinds : seen[f] \subseteq DOMAIN heap
      BY DEF FInv, FSeen
    <2> QED BY <2>1, <2>2, <2>3, <2>4 DEF Grown
  <1> QED BY <1>1, <1>2

\* A name that is answered stays grounded.
LEMMA StaysGrounded ==
  ASSUME FInv, Grown,
         \A f \in Kinds : seen[f] \subseteq seen'[f] /\ seen[f] \subseteq DOMAIN heap
  PROVE  \A n \in query.healthy :
            \E o \in seen'["registered"] \cap seen'["ready"] \cap seen'["fresh"] :
               heap'[o].name = n
  <1>1. \A n \in query.healthy :
           \E o \in seen["registered"] \cap seen["ready"] \cap seen["fresh"] :
              heap[o].name = n
    BY DEF FInv, FSeen, AnswersAreGrounded
  <1> QED BY <1>1 DEF Grown, Kinds

LEMMA SeenSame ==
  ASSUME FInv, FType', Grown, Record, query' = query
  PROVE  FSeen'
  <1>1. CASE query.pc = "idle"
    <2>1. query'.healthy = {} /\ query'.pc = "idle"
      BY <1>1 DEF FInv, FSeen
    <2> QED BY <2>1, RecordFacts DEF FSeen, AnswersAreGrounded
  <1>2. CASE query.pc # "idle"
    <2>1. /\ \A f \in Kinds : /\ seen'[f] \subseteq DOMAIN heap'
                              /\ seen[f] \subseteq seen'[f] /\ seen[f] \subseteq DOMAIN heap
      BY <1>2, RecordFacts DEF FInv, FSeen
    <2>2. AnswersAreGrounded'
      BY <2>1, StaysGrounded DEF AnswersAreGrounded
    <2>3. /\ query.pc \in {"status", "beat"} => /\ query.obj \in DOMAIN heap'
                                                /\ query.obj \in seen'["registered"]
          /\ query.pc = "beat" => query.obj \in seen'["ready"]
      BY <2>1 DEF FInv, FSeen, Grown, Kinds
    <2> QED BY <1>2, <2>1, <2>2, <2>3 DEF FSeen
  <1> QED BY <1>1, <1>2

\* A query that starts has no answer yet, and one that returned has none left.
LEMMA SeenNothing ==
  ASSUME FInv, FType', Grown, Record, query'.healthy = {}, query'.pc \in {"idle", "get"}
  PROVE  FSeen'
  BY RecordFacts DEF FSeen, AnswersAreGrounded

\* The reads of a query: what each finds was so, of the same object.
LEMMA QuerySteps ==
  ASSUME FInv, Query, Record
  PROVE  FType' /\ Kept /\ FSeen'
  <1>1. query \in QueryType /\ query = [pc |-> query.pc, todo |-> query.todo,
                                        obj |-> query.obj, healthy |-> query.healthy]
    BY DEF FInv, FType, QueryType
  <1>2. Kept /\ FType' => Grown
    BY DEF Kept, Grown
  <1>3. ASSUME NEW n \in Names, QueryGet(n) PROVE FType' /\ Kept /\ FSeen'
    <2>1. CASE clusters[n] = NoCluster
      <3>1. /\ query'.pc = "get" /\ query'.obj = query.obj /\ query' \in QueryType
            /\ query'.healthy = query.healthy
        BY <1>1, <1>3, <2>1 DEF QueryGet, QueryType
      <3>2. FType' /\ Kept
        BY <1>3, <3>1, QueryStep DEF Query, FInv, FType, TypeOK
      <3>3. \A f \in Kinds : /\ seen'[f] \subseteq DOMAIN heap'
                             /\ seen[f] \subseteq seen'[f] /\ seen[f] \subseteq DOMAIN heap
        BY <1>2, <3>1, <3>2, RecordFacts DEF FInv, FSeen
      <3>4. AnswersAreGrounded'
        BY <1>2, <3>1, <3>2, <3>3, StaysGrounded DEF AnswersAreGrounded
      <3> QED BY <3>1, <3>2, <3>3, <3>4 DEF FSeen
    <2>2. CASE clusters[n] # NoCluster
      <3>1. clusters[n] \in DOMAIN heap /\ clusters[n] \in Registered
        BY <2>2 DEF FInv, FType, TypeOK, Registered
      <3>2. /\ query'.pc = "status" /\ query'.obj = clusters[n]
            /\ query'.healthy = query.healthy /\ query' \in QueryType
        <4>1. clusters[n] \in Nat
          BY <3>1, ShapeFacts, FederationAssumption DEF FInv
        <4> QED BY <1>1, <1>3, <2>2, <4>1 DEF QueryGet, QueryType
      <3>3. FType' /\ Kept
        BY <1>3, <3>1, <3>2, QueryStep DEF Query, FInv
      <3>4. \A f \in Kinds : /\ seen'[f] \subseteq DOMAIN heap'
                             /\ seen[f] \subseteq seen'[f] /\ seen[f] \subseteq DOMAIN heap
                             /\ See[f] \subseteq seen'[f]
        BY <1>2, <3>2, <3>3, RecordFacts DEF FInv, FSeen
      <3>5. AnswersAreGrounded'
        BY <1>2, <3>2, <3>3, <3>4, StaysGrounded DEF AnswersAreGrounded
      <3>6. clusters[n] \in seen'["registered"]
        BY <3>1, <3>4, SeeFacts DEF FInv, Kinds
      <3> QED BY <3>1, <3>2, <3>3, <3>4, <3>5, <3>6 DEF FSeen, Kept
    <2> QED BY <2>1, <2>2
  <1>4. ASSUME QueryStatus \/ QueryBeat
        PROVE  FType' /\ Kept /\ FSeen'
    <2> DEFINE o == query.obj
    <2>1. o \in DOMAIN heap /\ o \in seen["registered"] /\ heap[o].name \in Names
      BY <1>4 DEF QueryStatus, QueryBeat, FInv, FSeen, FType, TypeOK, Cluster
    <2>2. /\ query' \in QueryType /\ query'.pc \in {"get", "beat"}
          /\ query'.obj \in DOMAIN heap \cup {NoCluster}
          /\ query'.pc = "beat" => /\ query'.obj = o /\ heap[o].status = "Ready"
                                   /\ query'.healthy = query.healthy
          /\ \A n \in query'.healthy :
                n \in query.healthy \/ (n = heap[o].name /\ Fresh(o) /\ query.pc = "beat")
      <3>1. ASSUME NEW h \in SUBSET Names, QueryNext(h)
            PROVE  /\ query' \in QueryType /\ query'.pc = "get"
                   /\ query'.obj = NoCluster /\ query'.healthy = h
        <4>1. query' = [pc |-> "get", todo |-> query.todo \ {heap[o].name},
                        obj |-> NoCluster, healthy |-> h]
          BY <1>1, <3>1 DEF QueryNext, QueryType
        <4> QED BY <1>1, <4>1 DEF QueryType, NoCluster
      <3>2. CASE QueryStatus /\ heap[o].status # "Ready"
        <4>1. query.healthy \in SUBSET Names /\ QueryNext(query.healthy)
          BY <1>1, <3>2 DEF QueryStatus, QueryType
        <4> QED BY <3>1, <4>1
      <3>3. CASE QueryStatus /\ heap[o].status = "Ready"
        <4>1. query' = [pc |-> "beat", todo |-> query.todo, obj |-> o,
                        healthy |-> query.healthy]
          BY <1>1, <3>3 DEF QueryStatus, QueryType
        <4> QED BY <1>1, <2>1, <3>3, <4>1 DEF QueryType
      <3>4. CASE QueryBeat
        <4> DEFINE h == query.healthy \cup IF Fresh(o) THEN {heap[o].name} ELSE {}
        <4>1. h \in SUBSET Names /\ QueryNext(h) /\ query.pc = "beat"
          BY <1>1, <2>1, <3>4 DEF QueryBeat, QueryType
        <4>2. /\ query' \in QueryType /\ query'.pc = "get"
              /\ query'.obj = NoCluster /\ query'.healthy = h
          BY <3>1, <4>1
        <4> QED BY <4>1, <4>2
      <3> QED BY <1>4, <3>2, <3>3, <3>4
    <2>3. FType' /\ Kept
      BY <1>4, <2>2, QueryStep DEF Query, FInv
    <2>4. \A f \in Kinds : /\ seen'[f] \subseteq DOMAIN heap'
                           /\ seen[f] \subseteq seen'[f] /\ seen[f] \subseteq DOMAIN heap
                           /\ See[f] \subseteq seen'[f]
      BY <1>2, <2>2, <2>3, RecordFacts DEF FInv, FSeen
    <2>5. o \in seen'["registered"]
      BY <2>1, <2>4 DEF Kinds
    <2>6. heap[o].status = "Ready" => o \in seen'["ready"]
      BY <2>1, <2>4, SeeFacts DEF FInv, Kinds
    <2>7. Fresh(o) => o \in seen'["fresh"]
      BY <2>1, <2>4, SeeFacts DEF FInv, Kinds
    <2>8. query.pc = "beat" => o \in seen'["ready"]
      BY <2>4 DEF FInv, FSeen, Kinds
    <2>9. AnswersAreGrounded'
      <3>1. heap'[o].name = heap[o].name
        BY <2>1, <2>3 DEF Kept
      <3>2. \A n \in query.healthy :
               \E x \in seen'["registered"] \cap seen'["ready"] \cap seen'["fresh"] :
                  heap'[x].name = n
        BY <1>2, <2>3, <2>4, StaysGrounded
      <3> QED BY <2>2, <2>5, <2>7, <2>8, <3>1, <3>2 DEF AnswersAreGrounded
    <2> QED BY <2>1, <2>2, <2>3, <2>4, <2>5, <2>6, <2>9 DEF FSeen, Kept
  <1>5. CASE QueryReturn
    <2>1. query' = NoQuery /\ NoQuery \in QueryType /\ NoQuery.obj = NoCluster
          /\ NoQuery.healthy = {} /\ NoQuery.pc = "idle"
      BY <1>5 DEF QueryReturn, NoQuery, QueryType, NoCluster
    <2>2. FType' /\ Kept
      BY <1>5, <2>1, QueryStep DEF Query, FInv
    <2> QED BY <1>2, <2>1, <2>2, SeenNothing
  <1> QED BY <1>3, <1>4, <1>5 DEF Query

-----------------------------------------------------------------------------
(* The steps *)

LEMMA FNext ==
  ASSUME FInv, [Next]_vars
  PROVE  /\ FInv'
         /\ \A m \in Names : clusters'[m] # clusters[m] =>
               clusters'[m] = NoCluster \/ clusters'[m] \notin DOMAIN heap
  <1>1. Kept => Grown
    BY DEF Kept, Grown
  <1>2. ASSUME FType', Kept, Record, query' = query PROVE FInv' /\ Kept
    BY <1>1, <1>2, SeenSame DEF FInv
  <1>3. ASSUME NEW n \in Names, NEW st \in Statuses, Register(n, st), Record
        PROVE  /\ FInv'
               /\ \A m \in Names : clusters'[m] # clusters[m] =>
                                      clusters'[m] \notin DOMAIN heap
    <2>1. FType' /\ Grown
      BY <1>3, RegisterStep DEF FInv, Grown
    <2>2. query' = query
      BY <1>3 DEF Register
    <2> QED BY <1>3, <2>1, <2>2, RegisterStep, SeenSame DEF FInv
  <1>4. ASSUME NEW n \in Names, Record,
               Unregister(n) \/ UpdateHeartbeat(n) \/ \E st \in Statuses : UpdateStatus(n, st)
        PROVE  FInv' /\ Kept
    <2>1. query' = query
      BY <1>4 DEF Unregister, UpdateHeartbeat, UpdateStatus
    <2> QED BY <1>2, <1>4, <2>1, RegistryStep DEF FInv
  <1>5. ASSUME Checker \/ CheckStop, Record PROVE FInv' /\ Kept
    <2>1. query' = query
      BY <1>5 DEF Checker, CheckStart, CheckProbe, CheckUpdate, CheckEnd, CheckExit, CheckStop
    <2> QED BY <1>2, <1>5, <2>1, CheckerStep DEF FInv
  <1>6. ASSUME Query, Record PROVE FInv' /\ Kept
    BY <1>6, QuerySteps DEF FInv
  <1>7. ASSUME NEW s \in Services, Record,
               DeleteService(s) \/ QueryStart(s) \/ \E ns \in Targets : CreateService(s, ns)
        PROVE  FInv' /\ Kept
    <2>1. FType' /\ Kept
      BY <1>7, ServiceStep DEF FInv
    <2>2. CASE QueryStart(s)
      <3>1. query'.healthy = {} /\ query'.pc = "get"
        BY <2>2 DEF QueryStart, NoQuery
      <3> QED BY <1>1, <1>7, <2>1, <3>1, SeenNothing DEF FInv
    <2>3. CASE DeleteService(s) \/ \E ns \in Targets : CreateService(s, ns)
      BY <1>2, <1>7, <2>1, <2>3 DEF DeleteService, CreateService
    <2> QED BY <1>7, <2>2, <2>3
  <1>8. ASSUME Tick, Record PROVE FInv' /\ Kept
    <2>1. now' \in 0..MaxTime
      BY <1>8, FederationAssumption DEF Tick, FInv, FType, TypeOK
    <2>2. FType' /\ Kept /\ query' = query
      BY <1>8, <2>1 DEF Tick, registry, check, FInv, FType, TypeOK, Shape, Kept
    <2> QED BY <1>2, <1>8, <2>2
  <1>9. CASE UNCHANGED vars
    BY <1>9 DEF vars, check, FInv, FType, TypeOK, Shape, FSeen, AnswersAreGrounded
  <1>10. Kept => \A m \in Names : clusters'[m] # clusters[m] =>
                    clusters'[m] = NoCluster \/ clusters'[m] \notin DOMAIN heap
    BY DEF Kept
  <1>11. CASE Next
    BY <1>3, <1>4, <1>5, <1>6, <1>7, <1>8, <1>10, <1>11 DEF Next, Step, Registry
  <1> QED BY <1>9, <1>11

LEMMA FInit == Init => FInv
  <1> SUFFICES ASSUME Init PROVE FInv
    OBVIOUS
  <1>1. DOMAIN heap = 1..0 /\ DOMAIN heap = {} /\ Registered = {}
    BY DEF Init, Registered
  <1>2. Shape
    BY <1>1, FederationAssumption DEF Shape
  <1>3. query \in QueryType
    BY DEF Init, NoQuery, QueryType, NoCluster
  <1>4. TypeOK
    <2>1. 0 \in 0..MaxTime
      BY FederationAssumption
    <2>2. /\ query.pc = "idle" /\ query.todo = {} /\ query.healthy = {}
          /\ query.obj = NoCluster
      BY DEF Init, NoQuery
    <2>3. \A n \in Names : clusters[n] = NoCluster
      BY DEF Init
    <2>4. DOMAIN services = {}
      BY DEF Init
    <2> QED BY <1>1, <2>1, <2>2, <2>3, <2>4 DEF Init, TypeOK
  <1>5. FSeen
    BY <1>1 DEF Init, FSeen, NoQuery, Kinds, AnswersAreGrounded
  <1> QED BY <1>2, <1>3, <1>4, <1>5 DEF FInv, FType

-----------------------------------------------------------------------------
(* The theorems *)

\* Every state has the type, the numbering of the objects and the history that
\* the reads of GetHealthyClusters rest on.
THEOREM FederationInvariant == Spec => []FInv
  BY FInit, FNext, PTL DEF Spec

\* The registry's map leads from each name to an object of that name, through
\* every interleaving of its callers with the health checker.
THEOREM FederationTypeOK == Spec => []TypeOK
  <1>1. FInv => TypeOK
    BY DEF FInv, FType
  <1> QED BY <1>1, FederationInvariant, PTL

\* Each cluster that GetHealthyClusters answers was, during the call, registered,
\* Ready and recently heard of: one and the same cluster, whatever is registered
\* or unregistered between the reads.
THEOREM FederationAnswersAreGrounded == Spec => []AnswersAreGrounded
  <1>1. FInv => AnswersAreGrounded
    BY DEF FInv, FSeen
  <1> QED BY <1>1, FederationInvariant, PTL

\* The health checker, which writes into clusters and updates by name without the
\* lock, never brings back a cluster that was unregistered.
THEOREM FederationUnregisteredStaysOut == Spec => UnregisteredStaysOut
  <1>1. FInv /\ [Next]_vars =>
           [\A n \in Names : clusters'[n] # clusters[n] =>
               clusters'[n] = NoCluster \/ clusters'[n] \notin DOMAIN heap]_vars
    BY FNext
  <1> QED BY <1>1, FederationInvariant, PTL DEF Spec, UnregisteredStaysOut
=============================================================================
