SPECIFICATION FairSpec
CONSTANTS
  Clients = {c1}
  Ids = {r1}
  Statuses = {"running"}
  NoId = NoId
PROPERTIES HealthyServerConnects
