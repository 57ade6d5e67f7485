SPECIFICATION Spec
CONSTANTS
  v = v
  w = w
  p = p
  q = q
  NoPassword = NoPassword
  Requests <- MCRequests
  Passwords <- MCPasswords
  MaxAttempts = 2
  MaxCodes = 2
  MaxSessions = 1
  MaxTokens = 2
SYMMETRY MCSymmetry
CHECK_DEADLOCK FALSE
INVARIANTS TypeOK LimitsHold
PROPERTIES NothingStaleCounts
