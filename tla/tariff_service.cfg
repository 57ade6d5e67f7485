SPECIFICATION FairSpec
CONSTANTS
  Loads = {95}
  OverridePrices = {800}
  BasePrice = 500
  MinChange = 1
  Requests = {q1, q2}
  NoPrice = NoPrice
  MayFail = TRUE
  MaxTime = 1
  TopicSize = 1
  MaxRequests = 2
  MaxCrashes = 1
CHECK_DEADLOCK FALSE
INVARIANTS TypeOK PricesShownWereStored CacheIsCurrentUnlessDisturbed
PROPERTIES CacheSettles
