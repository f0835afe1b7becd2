SPECIFICATION Spec
CONSTANTS
  Threads = {t1, t2}
  Clients = {"direct"}
  Addresses = {"a"}
  KeyOf <- DirectOnly
  HostOf <- DirectOnly
  Limit = 2
  Window = 4
  TicksPerSec = 2
  MaxStall = 2
  MaxClock = 9
  None = None
INVARIANT TypeOK
INVARIANT BudgetKept
INVARIANT LimiterInv
PROPERTY DirectRetrySuffices
SYMMETRY ThreadSymmetry
