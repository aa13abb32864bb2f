SPECIFICATION Spec
CONSTANTS
  j1 = j1  j2 = j2  j3 = j3  q1 = q1  q2 = q2  n1 = n1  n2 = n2  ns1 = ns1  ns2 = ns2
  Jobs = {j1, j2, j3}
  Queues = {q1, q2}
  Namespaces = {ns1}
  Nodes = {n1, n2}
  QueueOf <- MCQueueOf
  NamespaceOf <- MCOneSpace
  FitsOn <- MCFitsMixed
  BadSpec = {j3}
  Terminating = {}
  FlakyNodes = {n2}
  Workers = 2
  Cleaners = {c1}
  Self = c1
  NoJob = NoJob
  NoQueue = NoQueue
  MaxLost = 1
  MaxErrors = 1
  MaxKills = 1
INVARIANTS TypeOK CursorIsExact JobAccounting
PROPERTIES CleanerSparesRunning
