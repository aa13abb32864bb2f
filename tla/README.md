# EdgeHub in TLA+

Models, model checking and proofs for the Go code of EdgeHub (`src/edgehub`): an
edge-computing control plane that sells the capacity of nodes on a market,
schedules jobs as Kubernetes pods, and bills, monitors, benchmarks and federates
what runs. Paths below are relative to `src/edgehub/`.

1. [Inventory](#1-inventory)
2. [Plan](#2-plan)
3. [Modules and code](#3-modules-and-code)
4. [Runs](#4-runs)
5. [Fairness and deadlock](#5-fairness-and-deadlock)
6. [Proofs](#6-proofs)
7. [Findings and observations](#7-findings-and-observations)
8. [Not modelled](#8-not-modelled)

Conventions. A definition named `X_Y` is the mutation `Y` of the definition `X`: a
plausible bug in the code behind `X` that some property must detect. No specification
uses one. Constants commented "bound" only make TLC's state space finite. "History"
variables and fields are read by properties alone.

## 1. Inventory

The repository is one Go module. Three processes are built from it (`cmd/api-server`,
`cmd/scheduler`, `cmd/node-agent`) and a command line client; the other packages
under `internal/` are in-memory services meant to be linked into the control plane.
Nothing but the data services keeps state in a database, so a restart loses it.

| Component | State | Operations | Hard behaviour | Correct when |
|---|---|---|---|---|
| node selection, `selectNode` in `internal/scheduler/scheduler.go` | none | a pass over the listed nodes | ties, negative scores, quantities that do not parse, lists in any order | the job fits on the node, and no eligible node scores lower |
| pod scheduler, `internal/scheduler/scheduler.go`, `cmd/scheduler` | map of queues under `Scheduler.mu`, a slice of jobs per queue under `JobQueue.mu`, `stopCh`; the pods in the cluster | `EnqueueJob`, `scheduleLoop`, `cleanupLoop`, `Stop` | a pass iterates over a slice it removes from, with the lock held during API calls; API calls fail, replies are lost; `MustParse` panics; the cleaner acts on an old listing | no accepted job is lost, skipped or run twice without cause; no running pod is deleted; callers and `Stop` get through; schedulable jobs leave their queue |
| queue manager, `internal/scheduler/kueue_volcano.go` | queues by name, with priority, MaxLen and fairness | `CreateQueue`, `DeleteQueue`, `Enqueue`, `Dequeue`, `Requeue` | ordering among queues and within one, while queues come and go and jobs are requeued | the most important job goes first; only new jobs are bounded; a job waits for ever only while others overtake it for ever |
| gang scheduler, same file | gangs by name, status and jobs of each | `RegisterGang`, `AddJobToGang`, `ScheduleGang`, `DeleteGang` | `ScheduleGang` gives the lock up between reading the gang and binding it, and panics over a quantity that does not parse | a gang is scheduled as a whole, and once; only a panic leaves it half-way |
| market, `internal/market/market.go` | offers, orders, the history of sales | `CreateOffer`, `UpdateOffer`, `DeleteOffer`, `CreateOrder`, `CancelOrder`, statistics | long sequences of orders, restocking, deletions; no sign of a price, stock or quantity is checked | nothing is sold twice or lost; an order is one sale and final |
| price engine, `internal/market/engine.go` | the last 10000 sales | `AddRecord`, `GetPriceInfo`, `GetRecommendation` | truncation, time windows, empty windows, zero and negative prices | no recent sale is missed; the figures are those of the real sales but for the known errors; recommendations stay in range |
| monitoring, `internal/monitor/monitoring.go` | rules, alerts, notifications, one RWMutex | `CreateRule`, `UpdateRule`, `DeleteRule`, `FireAlert`, `ResolveAlert`, `SilenceAlert`, `SendNotification`, `EvaluateRules` | the read lock is held while rules are evaluated and alerts fired | a violated rule raises an alert; an alert's fields agree; calls return |
| billing, `internal/billing/billing.go` | bills by id, unit prices | `CreateBill`, `UpdateBill`, `PayBill`, `CancelBill`, `UpdatePrices`, summaries | repeated submissions; updates over any status; cached totals; ends of periods | totals follow usage, prices are locked in, what counts as paid is what was paid, summaries add up |
| federation, `internal/federation/karmada.go` | clusters by name, shared through pointers; federated services by key | `Register`, `Unregister`, `UpdateStatus`, `UpdateHeartbeat`, the health checker, `GetHealthyClusters` | the checker and queries use clusters without the registry's lock, while names are reused | answers are true of the clusters they name; what is removed stays out; every cluster is checked |
| workload distribution, same file | none | `NewWorkloadDistribution` | remainders, unordered lists | replicas are split exactly and evenly |
| benchmark, `internal/benchmark/benchmark.go` | results, scores of nodes, one RWMutex | `RunBenchmark`, `executeBenchmark`, `GetNodeRanking`, `GetCompositeScore` | ranks written under the read lock, into objects that answers share; results read after the lock is given up | rankings and scores are consistent; benchmarks end |
| node agent, `internal/agent/agent.go`, `cmd/node-agent` | status, context, `stopCh`, a WaitGroup, a pod watch | `Start`, three loops, `Stop` | a loop blocked in a receive that `stopCh` does not interrupt | the status is true; the process ends |
| data services, `internal/service`, `internal/repository`, `internal/models` | nodes, jobs, offers, orders, alerts and users in a database | create, update, delete, heartbeat, stop, withdraw, each one statement of SQL | nothing looks at the old state: late and repeated requests meet records that were deleted, created by another or given another id | what a client is told exists and is its own; what is deleted stays so |
| API server, `cmd/api-server`, `internal/api` | the router, `db`, which may be nil | handlers, recovery, start, drain, exit | answers lost, hang-ups, outages of the database before, during and after a start; drains and kills | requests are answered; a healthy server can do its work |
| GPU jobs, `internal/gpu/hami.go` | a configuration | create, query and delete pods that ask for a share of a GPU | none here: HAMi itself, outside the repository, shares the GPUs | a job becomes the right pod |
| Kubernetes client, `internal/k8s` | a client-go clientset | thin wrappers | failure and timeout | (external) |
| service mesh, configuration, command line client, web console | configuration objects; files; nothing | construction, output | none that is shared | |

Interactions. The API handlers call the data services; a submitted job stays in the
database, and no code hands it to the scheduler. The scheduler process reads nodes and
creates pods through the Kubernetes client; an agent watches pods through its own. The
market hands every sale to the price engine and asks it for prices. The market, the
queue manager, the gang scheduler, monitoring, billing, benchmark and federation are
libraries that no process uses yet (the API server's market and billing services are
others, over the database): their callers are any goroutines, in any order, and they
share no state with each other.

`PROJECT.json` lists 40 hazards, each with its line, and the properties that watch it.

## 2. Plan

Most important behaviour first; all of it is done.

1. **Pod scheduler** (`JobScheduler`, `JobSchedulerProofs`): the one component where
   goroutines, locks, a remote system and crashes meet. Runs for safety, for liveness,
   and for two replicas. Proved: type, cursor, accounting, cleaner.
2. **Market and price engine** (`Market` extends `PriceEngine`; `MarketProofs`): the
   components with money and stock. Proved: type, stock, orders, aggregator, statistics,
   recommendation, finality.
3. **Queue manager** (`QueueManager`) against the abstract specification of priority
   dispatch (`PriorityDispatch`). Proved: type, refinement.
4. **Gang scheduler** (`GangScheduler`). Proved: type, exactness.
5. **Monitoring** (`Monitoring`, `MonitoringProofs`), with Go's RWMutex. Proved: type,
   coherence, one rule set per evaluation, and that a fired alert blocks for ever.
6. **Federation** (`Federation`, `FederationProofs`). Proved: type, answers are grounded,
   what is unregistered stays out. **Workload distribution** (`WorkloadDistribution`).
   Proved: the split is exact.
7. **Billing** (`Billing`). Proved: totals, payments, summaries. **Benchmarks**
   (`Benchmark`). Proved: rankings and composite scores.
8. **API server and data services** (`ApiServer`). Proved: type, what was acknowledged is
   stored, what was deleted stays deleted.
9. **Node agent** (`NodeAgent`). Proved: type, the status is true.
10. **Node selection** (`NodeSelection`). Proved: the choice is the best one.
11. **Compositions** of components that share nothing: `Services` (selection, billing,
    benchmarks, distribution), `Queues` (queue manager, gang scheduler), `Processes` (API
    server, node agent), each with its `MC` module for TLC and its `Proofs` module.
12. **`SumTheorems`**: induction over finite sets, and what sums over them satisfy.

Every safety invariant and action property of the runs that hold is also a theorem.
Worth adding: an abstract specification of the job queue that `JobScheduler` implements;
the services' queries as readers of `ApiServer`.

## 3. Modules and code

Each definition of a module carries the name of the code it models where TLA+ allows,
and `PROJECT.json` ("map") gives its lines. A method that holds its component's lock
from beginning to end is one action; one that gives the lock up, or calls out of the
process, is several. A method that returns an error without having changed anything is
a step that is not enabled, unless time or a lock depends on it.

**`JobScheduler`** (`internal/scheduler/scheduler.go`). `EnqueueJob` is two steps:
`EnqueueLock` takes `Scheduler.mu` and makes the queue; `EnqueueAppend` waits for
`JobQueue.mu`, still with the first lock in hand. A pass of `scheduleLoop` is
`PassStart` (copy the map), `PassLock` (the next queue, in any order), then, per job
at index `idx`, the listing of the nodes and the choice of one (`SelectNode`,
`ListNodesFails`, `NoSuitableNode`) and the creation of the pod (`CreatePod`, which
removes the element at `idx` and steps back; `CreateFails`; `CreateRefused`, when the
name is taken or the namespace ends; `CreateReplyLost`, when the pod exists but the
reply times out), `PassUnlock` and `PassEnd`. `cleanupLoop` is a listing of the
namespaces, a listing of the pods per namespace, and a deletion per finished pod, each
of which may fail. `Panic` is `resource.MustParse` on a quantity that is none;
`Kill` is the end of the process from outside, or by its `main`, which on a signal
cancels a context and leaves without `Stop`; after both, `Restart`, with no queues.
`Stop` closes `stopCh`, and the loops look at it only between passes. The cluster
around it runs pods, ends them, removes terminating ones, and changes the readiness of
nodes. Which nodes suit a job is the constant relation `FitsOn`: what
`NodeSelection` computes, for one node after another.

**`NodeSelection`** (`scheduler.go`). A call of `selectNode` with any list of nodes and
any job, then one step per node: `Skip` (not ready, or `matchesRequirements` refuses it),
`Select` or `Keep`. Taints, tolerations, selectors and the score are the code's: a
quantity that does not parse asks for nothing, an empty toleration tolerates every value,
and the loop over the selector takes its values for label keys. Scores are exact integers,
25600 times the code's float64.

**`PriceEngine`** and **`Market`** (`internal/market`). `PriceEngine` has the pure
algorithms as operators: `AddRecord` with its truncation, the tallies of three windows
as recursive functions along the log (`TallyOf`; the code makes the three in one loop), the trend, and the recommendation, all in integers (prices in
hundredths, factors in tenths), so that an exact bound can be stated. `Market` has the
state: `matchOrder`'s checks in the code's order, the stock, the sold-out status, the
history of sales and the log. Prices, stocks and quantities are integers of either sign, as
in the code, which checks none of them: an order of a negative quantity raises the stock.
`now` is discrete time; `supplied` (history) is what providers put on sale.

**`QueueManager`** and **`PriorityDispatch`** (`kueue_volcano.go`). The code sorts the
queues by priority (the map's order decides among equals, hence a choice among all
sorted orders), takes the first non-empty one, and in it the first job, or the first
of highest priority if it is fair. `PriorityDispatch` says what that is for: a set of
waiting jobs, with who of a queue came earlier, of which one that no other precedes is
dispatched. The mapping (`Waiting`, `Earlier`, `Kind`) turns sequences into that set and
that order. The callers are a dispatcher, which requeues what it holds or is done with it,
and submitters: a job that neither waits nor is held may be submitted (again) at any time,
so arrivals never end. The index `selectNextJob` finds is written as the set of the indices
that qualify, which has one member at most, so that nothing need be assumed of the
priorities.

**`GangScheduler`** (`kueue_volcano.go`). Gangs are objects on a heap and names refer
to them, since `ScheduleGang` keeps its pointer while the gang may be deleted and its
name registered again. `ScheduleStart` is the locked part, `ScheduleBuild` the read of
the slice of jobs and the pods, `ScheduleBind` the status set at the end without a
look at what has changed. `BuildPanics` is `MustParse` on the CPU or memory of a job in
`Unparsable`: the call is left, by a caller that recovers, with the status at "scheduling".

**`Monitoring`** (`internal/monitor`). Go's `sync.RWMutex` is modelled with what a
caller can observe of it: a writer waits for the readers inside, a waiting writer keeps
new readers out, and a writer that leaves lets the waiting readers in. `EvaluateRules`
holds the read lock from `EvaluateRules` over one `EvaluateRule` per rule (in the map's
any order) to `EvaluateEnd`; a violated rule leads to `FireAlert`, which needs the
write lock.

**`Federation`** (`karmada.go`). Clusters are objects, the registry's map is separate,
and the checker works on the objects it listed: `CheckProbe` writes status and
heartbeat into the object without the lock, `CheckUpdate` then sets the status of
whatever has the name by now. `GetHealthyClusters` is one step per read. `seen`
(history) records what was true of each object since the query began.

**`WorkloadDistribution`** (`karmada.go`). `NewWorkloadDistribution` as an operator, and
a state machine in which a caller distributes again and again, with any number of
replicas, over any set of clusters in any order.

**`Billing`** (`internal/billing`). One action per method. `CreateBill` stores what its
caller submits, under the caller's id and with the caller's tenant, due date and date of
payment; only status, price and total are its own. `UpdateBill`'s optional fields are
sequences of length 0 or 1. `ledger` (history) is what each tenant's payments come to: an
entry per `PayBill`, and one for each of the two calls that change what counts as paid
otherwise. Time is discrete, and periods share the moments at their ends as they share
time stamps in the code. Amounts are integers; the code's are floating
point, so rounding is not modelled.

**`Benchmark`** (`internal/benchmark`). The write lock with its wait set (readers that
come while a writer waits are kept out), `executeBenchmark` as lock, status, score and
node score, unlock; `GetNodeRanking` as a sort and one write of a rank per object, and an
answer that refers to the same objects (`order`), the first `limit` of them: later
rankings rewrite the ranks in it, which `rewritten` (history) remembers;
`GetCompositeScore` as one locked listing and separate reads of status and score. In
the code nothing sets the details scores are computed from, so a result's score is
always 1000 and a node's score 0: the operators keep the code's default branches.

**`NodeAgent`** (`internal/agent`, `cmd/node-agent`). `main` from start to exit, three
loops, and the watch's stream with the events in it. `watchLoop` selects once per
round and then blocks in a receive; only the end of the stream gets it out, and the
stream ends when the context is cancelled or the server closes it.

**`ApiServer`** (`cmd/api-server`, `internal/api`, `internal/service`). A request goes from
`Send` to a statement (`Create`, `CreateUnnamed` when the server makes the id, `Update`,
`Stop`, `Heartbeat`, `DeleteOffer`, `Delete`) to `Answer`. Between the two the client may
hang up, the database may go away (before the statement, or after it committed and before
the handler knows: `Commit`), and the process may drain, end or be killed. `Panic` is the
nil `*gorm.DB` of a server that was started without a database. `GORM` and the schema are
modelled from how `internal/models` and the services use them: primary keys, soft
deletion of nodes and jobs, updates that see live rows only and report no error when they
see none. The handlers of PUT bind the client's whole body into a map and give it to
`Updates`, so `Update` sets the status and, if the body has them, the columns `id`, which
moves the record to another key unless that one is taken (`UpdateNothing`), and
`deleted_at`. `records` (history) has every record that was inserted, the id it was created
with, how often it was answered 201 and whether a PUT moved it. Routes differ by kind of record, and an offer is withdrawn by a status. Clients,
the command line client among them, repeat a request by sending it again.

**`Services`**, **`Queues`** and **`Processes`** put components into one state space that
share no variable and do not call each other: `NodeSelection`, `Billing`, `Benchmark` and
`WorkloadDistribution`; `QueueManager` and `GangScheduler`; `ApiServer` and `NodeAgent`. A
step is a step of one of them and leaves the others' variables alone. Their properties
are those of the components, under one name each, and the theorems are about them.

**`MC...`** modules hold the constants of the runs. Those of the three compositions have one
variable more, chosen in the initial state (`service`, `manager`, `which`), that says which
component moves: as nothing is shared, the interleavings of two components add states and
no behaviour of either, so a property of one is violated in the composition exactly when it
is violated in that component alone. The proofs need no such argument: they are about
the composition in which all of them move.

## 4. Runs

`tlc -workers 2 -config X.cfg M` repeats each. "Violation" runs show a disagreement
between the code and its documentation; see section 7.

| Run | Question | Bounds, and why they are enough | Result |
|---|---|---|---|
| `sched_safety` (`MCJobScheduler`, `MCSchedSafety.cfg`) | Do the loops, the callers, API failures, lost replies, a panic, a kill and ending pods, in any interleaving, lose or duplicate a job, skip one in a pass, or delete a running pod? | Two jobs share a queue, with `Workers` 2, so the cursor passes a failed job and removes one behind it; the third has its own queue and the quantity that panics; one node may lose readiness. One lost reply, one API error and one kill each meet every step. | holds, 1.6 million states |
| `sched_live` (`MCSchedLive.cfg`) | Do `EnqueueJob` and `Stop` return, and does a schedulable job leave its queue? | One queue with a job that is refused for ever (its namespace is terminating) and one that fits: with `Workers` 2 the first may be at the head and the second must still get its turn. | holds, 8 thousand states |
| `sched_replicas` (`MCSchedReplicas.cfg`) | Do the cleaners of two replicas leave running pods alone? | One job, two cleaners, one lost reply. | violation |
| `market` (`MCMarket`) | Is stock conserved, is every order one recorded sale, does what is sold stay sold, and do statistics and recommendations agree with the history? | Two offers of one spec, asked about by it and by one that nobody offers (`matchSpec` is the same for every spec, and the proof covers all); price -3, 0 or 9, stock 2 or -2, orders of 3 units or of -1; three sales against a log of 2 (truncation), and a clock that leaves the short window (1) and reaches the border of the long one (2). The offers are symmetric: nothing but their id differs. | holds, 420 thousand states |
| `queues` (`MCQueues`) | Do the queues implement priority dispatch, and is a job starved only by jobs that overtake it? Are gangs big enough when scheduled, fixed gangs scheduled exactly once, and does scheduling end? | A fair queue with MaxLen 2 and three jobs of two priorities, so that the limit, overtaking and ties occur, a plain queue of the same priority, whose MaxLen of -1 is no limit, and one of higher priority with a job that may be fed for ever; queues are made and deleted at any time; no bound on arrivals or requeues. Two schedulers, two names, three jobs, one of which does not parse, a fixed gang of 2 and one of 1 to 3 members that grows when ready; two gangs, so a name is reused after deletion. | holds, 45 thousand states |
| `gang_all_or_nothing` (`MCGangAllOrNothing.cfg`) | Does every job of a bound gang have a pod, for gangs that may grow too? | One gang of 1 to 2 members. | violation |
| `monitoring` (`MCMonitoring.cfg`) | Do alerts stay coherent, does an evaluation see one set of rules, and do calls return? | Three clients: an evaluation, a writer that waits for it and a reader that waits for the writer. Two rules, one alert, metrics that violate rules or not. | holds, 136 thousand states |
| `mon_alerting` (`MCMonAlerting.cfg`) | Does a violated rule raise an alert? | Two clients, one rule. | violation |
| `services` (`MCServices`) | Billing: do totals, prices, payments and summaries stay right? Distribution: is the split exact and even? Benchmark: are rankings and composite scores consistent and are benchmarks completed? Selection: is the node the best one? | Two bills of any of two tenants, two price lists, an update of the status, one of the usage and one of discount and status together, submissions with a date of payment or without, two moments; one bill has two usages and discount 0 or 50 %, and the other one usage and no discount (`BillingBound`); up to seven replicas over every list of up to three clusters (so fewer, as many and more replicas than clusters, and every remainder); two benchmarks on two nodes with two readers, and rankings with and without a limit; three jobs and every list of up to three of six kinds of node: two that tie although they differ, one that scores below zero, a tainted one, one that is not ready, one with the label a selector's value names; after its first call, lists of one node at most (`SelectionBound`). | holds, 200 thousand states |
| `federation` (`Federation`) | Are a query's answers true of the clusters it names, does an unregistered cluster stay out, is every registered one checked? | Two cluster objects, which are two clusters at once or one that is unregistered and another registered under its name; a heartbeat counts in the moment it was made and a later moment makes it old. | holds, 499 thousand states |
| `processes` (`MCProcesses`) | API server: does what was acknowledged exist, once, and does what was deleted stay so? Agent: is its status true, and does a signal end the process? | Two clients and two ids, one of them an order's and the other of any kind; a third client would only repeat what two do, since a race is between two statements on one id. One status that clients set, which differs from every other. A PUT may move a record from one id to the other. No bound on requests, outages and restarts. Agent: two events in the stream, one being handled and one that comes while it is. | holds, 407 thousand states |
| `api_health` (`ApiServer`, `MCApiHealth.cfg`) | Does a server that answers "healthy" get to use the database? | One client and one record: one start during one outage is enough. | violation |

What the properties say, beyond the type invariant each module has:

- *Scheduler.* `CursorIsExact`: the index into a slice that shrinks under the loop
  always separates the jobs that failed in this pass from those not tried.
  `JobAccounting`: a job waits once or its pod was created once; lost replies and
  restarts account for every deviation. `CleanerSparesRunning`: deletion by name from
  an old listing never meets a running pod, when only one process cleans. It holds
  because a finished pod's name stays taken until it has been deleted, which only the
  cleaner does. `EnqueueReturns`, `StopReturns`. `QueueDrains` is conditional on fewer
  than `Workers` unschedulable jobs in the queue, since the loop's bound counts
  failures too: with `Workers` of them at the head the rest waits for ever.
- *Market.* `TypeOK` has that no order leaves less than nothing: a negative stock is one
  its provider has set. `StockConserved`, `OrdersAreSales` (with it, `CancelOrder` refuses
  every order), `SoldIsFinal` (restocking does not put an offer back on sale: so the code
  has it). `StatisticsAreExact` compares the statistics with the whole history: no sale of
  a span is missing while the market made no more sales in it than the log holds, and of
  a busier span none of the last ones (`Counted`); count, total and the extremes are then
  exactly those of these sales, but for the two errors of the code, which the property
  states as they are: a minimum that overlooks what was sold before a free sale
  (`LowestInWindow`), and a maximum of 0 for negative prices. `RecommendationInRange`: for
  prices of either sign, unless they cancel out.
- *Queues.* `ImplementsDispatch` (refinement). `NoStarvation`: strict priority does starve
  a job when others keep coming in before it, and that is the only way: a job that waits
  for ever is overtaken for ever, by arrivals or requeued jobs of a queue of no lower
  priority or, in its own fair queue, of a higher priority of their own.
- *Gangs.* `GangsAreExact`. `SchedulingEnds`: a gang leaves the status scheduling, unless a
  job of it made the build panic; then it stays, with nobody at work on it, until a
  job joins.
- *Monitoring.* `AlertsAreCoherent`; `EvaluationSeesOneRuleSet`; `CallsReturn`: every
  call returns, unless an evaluation has come to fire an alert.
- *Billing.* `TotalIsDue`. `PaymentsAreBooked`: what a tenant's summary says is paid is
  the sum of that tenant's payments at the amounts the bills have, less what the two calls that can take
  a payment back took: an update of the status or the amount, and the repeated submission
  of an existing id, which replaces the bill. Nothing else loses a payment, counts one twice, or
  moves it to another tenant. `SummariesAddUp`: two periods that share an end count every
  bill, and those made at that instant twice, as the code includes both ends.
- *Distribution.* `SplitIsExact`: nothing is lost, no share is negative, and shares
  differ by one at most.
- *Benchmark.* `RankingIsConsistent`: the objects of a ranking are every node's newest
  score until the call returns; the ranks in an answer, which shares its objects with
  all other answers, are the places in it until another ranking gives an object another
  place, during the call or at any time after it, and never 0. `CompositeIsGrounded` (unless a benchmark is
  completed meanwhile, when a score of 0 may still be averaged in),
  `BenchmarksComplete`.
- *Federation.* `AnswersAreGrounded`, `UnregisteredStaysOut`, `EveryClusterIsChecked`.
- *Selection.* `SelectionIsBest`: the first of the eligible nodes with the lowest score,
  and none only if no node is eligible.
- *API server.* `AcknowledgedIsStored`: one client at most is answered 201 for a record,
  and the record is in one row, under its own id unless a PUT moved it. So of all clients that submit
  under one id, at once or again after an answer was lost, a second one is answered 201 only
  after a PUT has moved the first one's record away. It holds because deleted rows keep
  their key, and because a PUT cannot take a key that is in use. `DeletedStaysDeleted`: heartbeats,
  updates and submissions that arrive late change nothing.
- *Agent.* `StatusIsTrue`, `ShutdownCompletes`.

Every property of a run that holds has a mutation of the code, listed in
`PROJECT.json` ("mutants"), that violates it under the same configuration.

## 5. Fairness and deadlock

- `JobScheduler`: weak fairness of the pass and of the cleanup loop (goroutines run,
  and every API call returns, for the client has a timeout); errors are transient, as
  their number is bounded; strong fairness of `EnqueueAppend` (`sync.Mutex` hands itself
  to a waiter that starves) and of the exits (`select` picks among ready cases at
  random, so a closed `stopCh` cannot lose to the ticker for ever). The cluster ends
  pods and removes terminating ones.
- `QueueManager`: a dispatcher keeps calling `Dequeue`. Nobody needs to enqueue.
- `GangScheduler`: a goroutine inside `ScheduleGang` goes on.
- `Monitoring`: weak fairness of a client inside a call that holds the read lock, strong
  fairness of a writer (Go's RWMutex keeps new readers out while one waits). Nobody has
  to call.
- `Federation`: the checker's goroutine runs.
- `Benchmark`: goroutines run, and a writer gets its turn; strong fairness since other
  writers may come first.
- `ApiServer` (only for `api_health`): the server is started again when it is down
  (Kubernetes restarts it), a drain ends (it has a timeout), the database comes back, and
  handlers run. Nobody has to call, and nothing has to fail.
- `NodeAgent`: goroutines run; strong fairness where `select` chooses at random; and a
  cancelled context ends the watch's stream (client-go closes the response).
  Nothing else ends it for certain, and no event need ever come.

Deadlock is checked except where the system, or the bounded instance, may rightly stop:
`MCMarket` and the gangs (bounds used up), `MCSchedLive` (no kill, so a stopped
scheduler stays stopped and its cluster comes to rest), the monitoring runs (the evaluation that
blocks itself is the finding), and the agent of `MCProcesses` (the process exits). A
combined module can stop only where the component that moves can.

## 6. Proofs

`tlapm M.tla` checks the proofs of each module `M` whose name ends in `Proofs`, and those
of `SumTheorems`. A theorem holds for every value of the constants that satisfies the
module's assumption, which only says what the code's types say.

**`SumTheorems`** is about finite sets and `SumFunctionOnSet` (community modules). The
library's induction theorems take the property as an operator, which the provers here
cannot instantiate; `StrictSubsetInduction` and `NatSetInduction` take it as a set, the set
of the things that have it, and follow from the well-foundedness of the orderings by
`WFMin`. With them: the table of sums a fold computes exists and is unique
(`TableExists`, `TableIsUnique`); any element may be taken out first (`SumRemove`);
`SumAdd`, `SumDisjoint`, `SumUnion`, `SumExtensional`, and the bounds of a sum by its least and
greatest value (`SumBounds`).

**`MarketProofs`** assumes `EngineAssumption` (the log's capacity is at least 1, the
windows are positive) and `MarketAssumption` (prices, stocks and quantities are
integers of either sign, specs have integer fields), nothing else: any number of offers and
orders, any clock. The inductive invariant `MInv` is `TypeOK /\ OrdersAreSales /\
AggregatorIsRecent /\ Chronological`. That orders and sales correspond is inductive once the types are
known, because `CreateOrder` appends to both sequences, and `CancelOrder` changes nothing
only since every order is fulfilled, which is part of the same invariant. The
aggregator's truncation is the lemma about `LastN`. `SInv` adds `StockConserved`, which
needs one thing more: that no order is for an offer whose id was never issued, so that a new
offer starts with nothing sold (`TakenAppend` says what an order adds to a sum).
`StatisticsAreExact` and `RecommendationInRange` follow from `MInv` in each state: the loop
of `GetPriceInfo` over the truncated log computes a `Tallied` record of the sales with the
numbers it counts (`TallyOfSales`, by induction along the log), the log is the end of the
history (`LogFacts`), which has all sales of a span with no more of them than the log holds, as
sales are logged in the order of their times (`LogHasThemAll`, from `Chronological`), and hence
the tallies are about the sales they should be about (`TalliesFit`). The average lies between minimum and maximum (`SumBounds`), the supply
factor moves it down only when the minimum is far below and up only when the maximum is
far above (`SupplyBetween`), and rounding stays between whole bounds (`RoundBetween`).
Theorems: `MarketTypeOK`, `MarketStockConserved`, `MarketOrdersAreSales`,
`MarketAggregator`, `MarketStatisticsAreExact`, `MarketRecommendationInRange`, and the
action properties `MarketOrdersAreFinal` and `MarketSoldIsFinal`.

**`JobSchedulerProofs`** assumes `SchedAssumption` (the types of the constants). The
inductive invariant `SInv` is `TypeOK /\ CursorIsExact /\ JobAccounting`. The three need
each other. That a pod's creation removes the job it was created for needs the cursor
to be exact; the cursor stays exact while callers append only because the type
invariant ties `queue`, whose lock the pass holds, to the program counter; and the jobs
before the cursor stay those that failed because no job is twice in a queue, which is
part of the accounting. The lemmas `WithoutFacts` and `WithoutValues` say what remains
of a sequence when one element is taken out. Theorems: `SchedTypeOK`,
`SchedCursorIsExact`, `SchedJobAccounting`. `SchedCleanerSparesRunning` holds under
`Cleaners = {Self}`, by a second invariant, `ListingFresh`: the pods the cleaner still
has to delete are finished, for the only one who could make room for a new pod under
the name of one of them is the cleaner.

**`QueuesProofs`** assumes `QueueAssumption` (the types of the constants: any queues,
priorities, limits and jobs) and `GangAssumption` (sizes are pairs of integers, the bound a
number). Of the queue manager, the invariant `QInv` is the type invariant in parts: `Typed`,
`Once` (a job waits at one place, in the queue it asks for, and not while it is held) and
`Bounded`, with the finiteness of the set of queues.
`MaxLen` bounds the new jobs because an append that is allowed keeps the length below it,
and because a sequence that loses an element has no more new jobs than before
(`WithoutNewOnes`, by an injection). `QueueImplementsDispatch` is the refinement, one lemma
per kind of step: a put is an arrival, the queues that come and go, and a dequeue is a
dispatch. The last needs that a list sorted without repetitions has every queue
(`SortedHasAll`), that the earlier of a queue's jobs are those before it, so that the first
of the queue, or the first of its highest priority, precedes all others, and that no job
waits twice, so that exactly one goes and the others keep their order (`TakeKeeps`). Of the gangs: `ScheduleGang` works without the lock, and its
status protects it. `GInv` says that while a goroutine works on a gang of fixed size, the
gang is full, hence nobody joins it and makes it ready again, and "scheduling", hence
nobody else starts on it, also after a panic; and in which of its phases no job has a pod, or
each has one.
`QueuesGangsAreExact` follows. `QueuesInvariant` and `QueuesTypesOK` are about the composition:
each part keeps its invariant and leaves the other's variables alone.

**`ServicesProofs`** assumes `ServicesAssumption`, the assumptions of the four parts (types, and
that the sets of bills, resources and clusters are finite, as they are in a program). Their
invariants:

- *Selection*, `SInv`: the node selected is the best of those looked at (`SoFar`).
- *Billing*, `BInv`: types, `TotalIsDue`, and that the books agree with the bills
  (`BBooked`). The total due depends on usage, price and
  discount only (`CostDependsOn`), and each method that changes one of these computes it
  again; the price a bill keeps is what makes it inductive under `UpdatePrices`.
  The books are a sum over all possible bills of what each adds to a tenant's payments
  (`PaidBy`), and each method changes one of its terms by what it books (`SumChanges`,
  `OneBill`); `PaymentsAreBooked` follows as a summary's paid amount is that sum. `SummariesAddUp`
  holds in every state: two periods that share an end cover the bills and have those made
  at it in common, tenants split them, and counts, amounts and usages over two sets add up to
  those over their union and their intersection (`PartsAddUp`, from `SumUnion`).
- *Benchmarks*, `MInv`: the lock (`MBase`), and what each reader knows (`MReaders`), which of a
  ranking is that the objects it has numbered, or returned, have their places for ranks
  unless another ranking gave other ones (`Numbered`). A reader's knowledge must
  survive the steps of everybody else; for a ranking it does because a writer waits for
  the readers, for a composite score, read after the lock was given up, because a
  benchmark that was complete stays so with the score it has (`ResultsGrow`).
- *Distribution*, `DInv`: as many clusters as the remainder are in the first places of a
  listing that names none twice (`FirstPlaces`), so the shares add up (`SplitAddsUp`).

Theorems: `ServicesInvariant` and one for each of the eight safety properties of the run.

**`FederationProofs`** assumes `FederationAssumption` (bounds are numbers, statuses are the
code's, federated services name clusters). `FType` adds to the types that objects
are numbered as they are registered (`Shape`), so that none is used twice and no step but
`Register` makes one; that is `FederationUnregisteredStaysOut`. `FSeen` says what has been
recorded of the object a query looks at by the time it is at each of its reads: it was
registered when the query got it, it was ready if the query goes on to its heartbeat. As
nothing that was recorded is lost while the query runs, and objects keep their names, each
name that enters the answer has one object for which all three were so:
`FederationAnswersAreGrounded`.

**`MonitoringProofs`** assumes `MonitoringAssumption` (the types of the constants). That
the readers of the mutex are the clients inside a read-locked method, and that a writer
needs that there are none, gives `WritersAreAlone`: whoever changes the data does so while
nobody evaluates. From it: `MonitoringTypeOK`, `MonitoringAlertsAreCoherent`,
`MonitoringEvaluationSeesOneRuleSet`, and `MonitoringFireBlocks`, which is the finding of
`mon_alerting` for every number of clients: an evaluation that has come to a violated rule
stays there, and nothing changes any more.

**`ProcessesProofs`** assumes `ApiAssumption` ("no id" is none of the ids) and
`AgentAssumption` (a number of events). `AInv` follows each record from its insertion on:
one row has it, under its own id unless it is marked as moved (`Kept`, whether or not
anybody was told; that no row is lost under an id is what every statement has to keep), and an
answer 201 on its way is the first and the only one for its record (`OnTheWay`). An
update, which may move a row, goes to an id that is not in use and leaves another that is
not (`UpdatedRows`), so no other record is touched. `NInv` says in which
order the agent's goroutines, context, stream and process end. Theorems:
`ProcessesTypesOK`, `ApiAcknowledgedIsStored`, the action property `ApiDeletedStaysDeleted`, and
`ProcessesStatusIsTrue`.

The assumptions of components that are instantiated are conjuncts of the composition's
assumption, which TLC evaluates in its run.

Only model-checked: the liveness properties (`QueueDrains`, `EnqueueReturns`, `StopReturns`,
`NoStarvation`, `SchedulingEnds`, `CallsReturn`, `BenchmarksComplete`, `EveryClusterIsChecked`,
`ShutdownCompletes`), since fairness and ENABLED are beyond the prover; and that the four
violations happen, which a run shows by an example.

## 7. Findings and observations

Findings, each shown by a run that must end in a violation:

1. `mon_alerting`. `EvaluateRules` calls `FireAlert` with the read lock held, and
   `FireAlert` takes the write lock (`monitoring.go:332`): the first violated rule
   blocks the evaluation, and every later writer and reader with it. `CHANGELOG.md:57`
   promises alerts in real time. `MonitoringFireBlocks` proves it for any number of clients.
2. `gang_all_or_nothing`. A job that joins while `ScheduleGang` builds pods without the
   lock belongs to a bound gang and has no pod (`kueue_volcano.go:440`);
   `CHANGELOG.md:137` promises all-or-nothing. Gangs with `MinMember = MaxMember` are
   safe (`GangsAreExact`), since nobody can join once they are full.
3. `sched_replicas`. With two replicas, as in `config/manifests/02-deployment.yaml`, the
   slower cleaner deletes a running pod that got its name meanwhile
   (`scheduler.go:372`). `docs/architecture.md:571` has an election between replicas
   that the code lacks.
4. `api_health`. A server that is started while the database is down logs "continuing
   without DB" and keeps `db = nil` (`cmd/api-server/main.go:31`): nothing connects again,
   and every handler that needs the database panics and answers 500. `/health` answers
   `{"status": "healthy"}` all the while (`main.go:70`), and it is what both probes of
   `config/manifests/02-deployment.yaml:63` go by.

Observed while modelling, without a run of their own:

- *Scheduler.* A quantity that does not parse is ignored when a node is chosen and
  panics when the pod is built. `NodeSelector` filters nothing, and allocatable
  resources are not reduced by running pods. `queue_size`, `max_retry` and
  `pending_timeout` are configured and never read. `cmd/scheduler` leaves without
  calling `Stop`. The selector's values are looked up as label keys, so a selector only
  raises the score of a node that has such a label with another value.
- *Queues.* Priorities are strict: a queue that is fed all the time starves every queue of
  lower priority (`kueue_volcano.go:205`), and nothing limits how often a job is requeued.
- *Gangs.* One job whose CPU or memory does not parse makes `ScheduleGang` panic after it has
  set the status, and a gang whose caller recovers stays in `scheduling`
  (`kueue_volcano.go:463`). Sizes are not checked: a gang with a MaxMember below 1 takes no job.
- *Market.* `CreateOrder` does not look at `ValidUntil` (`CHANGELOG.md:18`). It accepts a
  negative quantity, which raises the stock and is charged a negative amount, and offers
  accept negative prices and stocks. A free sale makes the windows' minimum forget the
  cheaper sales before it (`engine.go:91`), and the maximum of negative prices is 0.
- *Billing.* Nothing makes a bill overdue (`CHANGELOG.md:42`). Creating a bill under an
  existing id replaces it, paid or not, and a pending bill may be submitted with a date of
  payment. Two summaries whose periods share an end both count the bills made at it. A
  discount above 100 gives a negative total.
- *API server.* A PUT whose body has `id` rewrites the primary key (`service.go:93`, 234,
  602): the record is gone from the id its client was told, and that id may be created
  again. A PUT may also set `deleted_at`. The API's jobs stay in the database: nothing calls `EnqueueJob`. A
  heartbeat for a node that does not exist is answered like one that does.
- *Monitoring.* A notification is recorded as sent; nothing is sent.
- *Federation.* The checker reports every cluster healthy without asking it
  (`CHANGELOG.md:131`). `GetHealthyClusters` looks a service up by its bare argument
  while `CreateService` stores it under `namespace/name`. A second `Stop` of the checker
  closes a closed channel. A list that names a cluster twice would lose replicas in
  `NewWorkloadDistribution`; `List` makes none.
- *Benchmark.* Rankings return the shared score objects (`benchmark.go:273`): when nodes tie,
  a later ranking with another order changes the ranks in an earlier answer, which may then
  have one rank twice. `GetCompositeScore` may see a benchmark completed with its score still 0.
  Scores are constants as long as nothing sets the details.
- *Agent.* Registration and heartbeats are only logged (`docs/architecture.md:169`). The
  watch ends for good when its stream does, and the client's timeout of 30 s in
  `config/config.yaml` ends it then.

## 8. Not modelled

- GPU jobs: pods are built for a scheduler outside the repository (HAMi), which does the
  sharing; the package keeps nothing but its configuration.
- Kubernetes client: thin wrappers; failure and timeout of its calls are in `JobScheduler`
  and `NodeAgent`.
- Service mesh, configuration, web console, and of the command line client all but its
  requests: they build objects, read files or print; nothing concurrent, nothing kept
  that others change.
- Data services and API: methods that only read, and methods no route calls
  (`UpdateOffer`, `UpdateOrderStatus`, `RecordMetrics`); stubs (clusters, metrics, refresh,
  logout); tokens and passwords; of the columns a PUT can set all but the id, `deleted_at`
  and the status. GORM, its
  driver and the schema are external.
- Scores of nodes in `JobScheduler`: it takes any node that fits; `NodeSelection` says
  which one that is.
- Inside modelled components: queries that only read, unless a property is about them or
  they hold a lock others wait for; names, labels, wording and exports; floating-point
  rounding, of scores and of amounts. `QueueManager.GetQueue` hands out the queue
  itself: that callers change it behind the manager's back is left out.
