SPECIFICATION Spec
CONSTANTS
  Losses = {0, 1, 3}
  NaN = NaN
  Inf = 99
  MinDelta = 1
  Patience = 2
  Epochs = 2
  MaxStarts = 1
  None = None
  Torn = Torn
CHECK_DEADLOCK FALSE
INVARIANT ServedAsAdvertised
