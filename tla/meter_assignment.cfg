SPECIFICATION Spec
CONSTANTS
  u = u
  v = v
  r = r
  s = s
  t = t
  a = a
  k = k
  Users <- MCUsers
  MeterCount = 2
  Registrations <- MCRegistrations
  Admins <- MCAdmins
  Bulks <- MCBulks
  Owner <- MCOwner
  Wish <- MCWish
  PoolSize = 2
  MaxFaults = 1
SYMMETRY MCSymmetry
CHECK_DEADLOCK FALSE
INVARIANTS TypeOK StuckOnlyByExhaustion
PROPERTIES ServedUnlessOvertaken
