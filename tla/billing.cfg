SPECIFICATION Spec
CONSTANTS
  u = u
  v = v
  m = m
  n = n
  p = p
  q = q
  d = d
  e = e
  NoMeter = NoMeter
  g = g
  h = h
  Users <- MCUsers
  Meters <- MCMeters
  Regions <- MCRegions
  Payers <- MCPayers
  Disputers <- MCDisputers
  Runs <- MCRuns
  Owner <- MCOwner
  Cost <- MCCost
  Region <- MCRegion
  Asked <- MCAsked
  PoolSize = 2
  Capacity = 2
  Radix = 3
  MaxFaults = 1
SYMMETRY MCSymmetry
CHECK_DEADLOCK FALSE
INVARIANTS TypeOK BooksSound  TwiceOnlyByRace NobodyStuck
PROPERTIES ImplementsLedger
