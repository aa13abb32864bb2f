SPECIFICATION FairSpec
CONSTANTS
  Clients = {c1, c2, c3}
  Exprs = {e1}
  Metrics <- MCLoud
  MaxRules = 2
  MaxAlerts = 1
CHECK_DEADLOCK FALSE
INVARIANTS TypeOK AlertsAreCoherent
PROPERTIES EvaluationSeesOneRuleSet CallsReturn
