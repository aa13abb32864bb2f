SPECIFICATION FairSpec
CONSTANTS
  Names = {n1, n2}
  Targets = {{n1, n2}}
  Statuses = {"Ready", "Disabled"}
  Services = {s1}
  MaxAge = 0
  MaxClusters = 2
  MaxTime = 1
INVARIANTS TypeOK AnswersAreGrounded
PROPERTIES UnregisteredStaysOut EveryClusterIsChecked
