SPECIFICATION FairSpec
CONSTANTS
  a = a
  b = b
  x = x
  y = y
  Readings <- MCReadings
  Senders <- MCSenders
  Singles <- MCSingles
  Load <- MCLoad
  Attempts = 3
  MaxFaults = 2
  MaxExpiries = 2
CHECK_DEADLOCK FALSE
INVARIANTS TypeOK OncePerMarker SuccessIsAccounted
PROPERTIES ReadingsArrive
