SPECIFICATION Spec
CONSTANTS
  Names = {n1}
  Jobs = {j1, j2}
  Sizes <- MCElastic
  Unparsable = {}
  Schedulers = {t1}
  MaxGangs = 1
CHECK_DEADLOCK FALSE
INVARIANT AllOrNothing
