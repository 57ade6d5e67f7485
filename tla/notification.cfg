SPECIFICATION FairSpec
CONSTANTS
  user = user
  operator = operator
  late = late
  Clients = {user, operator, late}
  Role <- MCRole
  User <- MCUser
  OwnRegions <- MCOwnRegions
  OwnMeters <- MCOwnMeters
  Prompt = {user, operator}
  Regions = {"r1", "r2"}
  Meters = {"m1"}
  Messages <- MCMessages
  MaxConnections = 2
  MaxRequests = 1
CHECK_DEADLOCK FALSE
INVARIANTS
  TypeOK
  RegistryConsistent
  NothingMissed
PROPERTIES
  HeartbeatEndsTheDead
  ShutdownEnds
