SPECIFICATION Spec
CONSTANTS
  Regions = {"bay"}
  Dates <- MCDates
  Store <- MCStore
  Window = 2
  None = None
  Strides = {1}
  Shipped = "bay"
  MaxBuilds = 0
  Torn = Torn
  Threads = {t1, t2}
  Queries <- WithInvalid
  Valid <- BothDays
  Land = {"land"}
  MLStates <- LiveStates
  CacheSize = 1
  TTL = 2
CHECK_DEADLOCK FALSE
PROPERTY EveryRequestAnswered
PROPERTY LiveInTheEnd
