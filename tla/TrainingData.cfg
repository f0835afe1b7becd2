SPECIFICATION Spec
CONSTANTS
  Order <- MCOrder
  Target = "glorys_temperature"
  Catalog = {"SST", "SSS", "glorys_temperature"}
  Cells = {"open", "coast", "cloudy"}
  Offered <- MCOffered
  Finite <- MCFinite
  Periods <- MCPeriods
  ChunkDays = 2
  MaxDownloads = 2
  MaxBuilds = 2
  None = None
  Torn = Torn
CHECK_DEADLOCK FALSE
INVARIANT RepeatedDownloadsAgree
INVARIANT StoreAligned
INVARIANT ValidCellsHaveData
INVARIANT DataInv
