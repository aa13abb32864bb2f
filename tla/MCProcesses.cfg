SPECIFICATION MCSpec
CONSTANTS
  Clients = {c1, c2}
  Ids = {r1, r2}
  Statuses = {"running"}
  NoId = NoId
  MaxEvents = 2
CHECK_DEADLOCK FALSE
INVARIANTS ProcessesTypeOK AcknowledgedIsStored StatusIsTrue
PROPERTIES DeletedStaysDeleted ShutdownCompletes
