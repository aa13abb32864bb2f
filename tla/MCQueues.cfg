SPECIFICATION MCSpec
CONSTANTS
  j1 = j1  j2 = j2  j3 = j3  j4 = j4  j5 = j5  j6 = j6
  Jobs = {j1, j2, j3, j4, j5, j6}
  JobPriority <- MCJobPriority
  JobQueue <- MCJobQueue
  QueuePriority <- MCQueuePriority
  MaxLen <- MCMaxLen
  IsFair <- MCIsFair
  Sizes <- MCSizes
  GangNames = {n1, n2}
  GangJobs = {g1, g2, g3}
  Unparsable = {g3}
  Schedulers = {t1, t2}
  MaxGangs = 2
CHECK_DEADLOCK FALSE
INVARIANTS QueuesTypeOK GangsAreExact
PROPERTIES ImplementsDispatch NoStarvation SchedulingEnds
