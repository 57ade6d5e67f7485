SPECIFICATION Spec
CONSTANTS
  Meters = {m1}
  Powers = {1}
  Kinds <- MCKinds1m
  Width <- MCWidth1m
  MaxTime = 2
  TopicSize = 2
  MaxRewinds = 1
  Timers = {t1, t2}
CHECK_DEADLOCK FALSE
SYMMETRY Symmetry
INVARIANTS TypeOK ConsumedIsAccounted StoredRowIsComplete PublishedIsStored
PROPERTIES ImplementsTable
