SPECIFICATION MCSpec
CONSTANTS
  Nodes <- MCNodes
  NodeLists <- MCNodeLists
  Jobs <- MCJobs
  BillIds = {"b1", "b2"}
  Tenants = {"t1", "t2"}
  Resources = {"cpu", "gpu"}
  Usages <- MCUsages
  Prices <- MCPrices
  DefaultPriceUnits <- MCDefault
  Discounts = {0, 50}
  DueDates <- MCDueDates
  PaidDates <- MCPaidDates
  Updates <- MCUpdates
  MaxTime = 1
  BenchNodes = {n1, n2}
  BenchTypes = {"cpu"}
  Readers = {r1, r2}
  Limits = {0, 1}
  MaxBenchmarks = 2
  ClusterNames = {m1, m2, m3}
  MaxReplicas = 7
INVARIANTS ServicesTypeOK TotalIsDue PaymentsAreBooked SummariesAddUp SplitIsExact RankingIsConsistent CompositeIsGrounded SelectionIsBest
PROPERTIES BenchmarksComplete
