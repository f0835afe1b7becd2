SPECIFICATION Spec
CONSTANTS
  Regions = {"bay", "arabian"}
  Dates <- MCDates
  Store <- MCStore
  Window = 2
  None = None
  Strides = {1}
  Shipped = "bay"
  MaxBuilds = 1
  Torn = Torn
  Threads = {t1, t2}
  Queries <- SafetyQueries
  Valid <- SafetyQueries
  Land = {"land"}
  MLStates <- SafetyStates
  CacheSize = 1
  TTL = 1
CHECK_DEADLOCK FALSE
INVARIANT TypeOK
INVARIANT OwnAnswer
INVARIANT FailsOnlyWithoutSource
INVARIANT LiveFirst
INVARIANT RoutesInv
PROPERTY KeepsPromise
SYMMETRY ThreadSymmetry
