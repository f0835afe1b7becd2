SPECIFICATION Spec
CONSTANTS
  Losses = {0, 1, 3}
  NaN = NaN
  Inf = 99
  MinDelta = 1
  Patience = 2
  Epochs = 5
  MaxStarts = 3
  None = None
  Torn = Torn
CHECK_DEADLOCK FALSE
INVARIANT BestKept
INVARIANT PatienceKept
INVARIANT StoppedWithBest
INVARIANT TrainerInv
