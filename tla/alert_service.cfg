SPECIFICATION Spec
CONSTANTS
  Meters = {m1, m2}
  NoMeter = NoMeter
  Reports = {{m2}, {m1, m2}}
  Anomalous = {m2}
  Requests = {q1, q2}
  MinWindows = 2
  WindowSpan = 0
  OutageAfter = 0
  Ttl = 1
  AutoAge = 0
  MaxTime = 1
  TopicSize = 2
  MaxEvents = 2
CHECK_DEADLOCK FALSE
SYMMETRY Symmetry
INVARIANTS TypeOK  AnnouncedAsShown
PROPERTY ImplementsLog
