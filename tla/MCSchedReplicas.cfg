SPECIFICATION Spec
CONSTANTS
  j1 = j1  j2 = j2  j3 = j3  q1 = q1  q2 = q2  n1 = n1  n2 = n2  ns1 = ns1  ns2 = ns2
  Jobs = {j1}
  Queues = {q1}
  Namespaces = {ns1}
  Nodes = {n1, n2}
  QueueOf <- MCOneQueue
  NamespaceOf <- MCOneSpace
  FitsOn <- MCFitsAll
  BadSpec = {}
  Terminating = {}
  FlakyNodes = {}
  Workers = 1
  Cleaners = {c1, c2}
  Self = c1
  NoJob = NoJob
  NoQueue = NoQueue
  MaxLost = 1
  MaxErrors = 1
  MaxKills = 0
PROPERTY CleanerSparesRunning
