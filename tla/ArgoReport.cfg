SPECIFICATION Spec
CONSTANTS
  Days <- MCDays
  T = 3
  Num = 2
  Den = 5
  Canon = {0, 5, 10, 20, 50}
  Profiles <- MCProfiles
  MaxRuns = 2
  None = None
  Torn = Torn
CHECK_DEADLOCK FALSE
INVARIANT TrainedOnlyAtTheEdge
INVARIANT NoExtrapolation
INVARIANT CompleteUnlessCut
INVARIANT ValidationInv
