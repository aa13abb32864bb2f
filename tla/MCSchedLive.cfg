SPECIFICATION FairSpec
CONSTANTS
  j1 = j1  j2 = j2  j3 = j3  q1 = q1  q2 = q2  n1 = n1  n2 = n2  ns1 = ns1  ns2 = ns2
  Jobs = {j1, j3}
  Queues = {q1}
  Namespaces = {ns1, ns2}
  Nodes = {n1, n2}
  QueueOf <- MCOneQueue
  NamespaceOf <- MCNamespaceOf
  FitsOn <- MCFitsAll
  BadSpec = {}
  Terminating = {ns2}
  FlakyNodes = {}
  Workers = 2
  Cleaners = {c1}
  Self = c1
  NoJob = NoJob
  NoQueue = NoQueue
  MaxLost = 1
  MaxErrors = 1
  MaxKills = 0
CHECK_DEADLOCK FALSE
PROPERTIES EnqueueReturns StopReturns QueueDrains
