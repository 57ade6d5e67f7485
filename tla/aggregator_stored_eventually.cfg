SPECIFICATION FairSpec
CONSTANTS
  Meters = {m1}
  Powers = {0, 1}
  Kinds <- MCKindsBoth
  Width <- MCWidthBoth
  MaxTime = 2
  TopicSize = 1
  MaxRewinds = 1
  Timers = {t1}
CHECK_DEADLOCK FALSE
PROPERTIES ConsumedIsStored
