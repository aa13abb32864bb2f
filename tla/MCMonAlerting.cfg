SPECIFICATION FairSpec
CONSTANTS
  Clients = {c1, c2}
  Exprs = {e1}
  Metrics <- MCLoud
  MaxRules = 1
  MaxAlerts = 1
CHECK_DEADLOCK FALSE
PROPERTIES ViolationRaisesAlert
