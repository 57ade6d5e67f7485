SPECIFICATION FairSpec
CONSTANTS
  Meters = {m1}
  NoMeter = NoMeter
  Reports = {{m1}}
  Anomalous = {m1}
  Requests = {q1, q2}
  MinWindows = 2
  WindowSpan = 1
  OutageAfter = 0
  Ttl = 1
  AutoAge = 1
  MaxTime = 0
  TopicSize = 2
  MaxEvents = 2
CHECK_DEADLOCK FALSE
PROPERTIES AuditTrailIsKept
