SPECIFICATION Spec
CONSTANTS
  Order <- MCOneChannel
  Target = "glorys_temperature"
  Catalog = {"SST", "glorys_temperature"}
  Cells = {"open", "coast", "cloudy"}
  Offered <- MCOffered
  Finite <- MCFinite
  Periods <- MCOnePeriod
  ChunkDays = 2
  MaxDownloads = 5
  MaxBuilds = 1
  None = None
  Torn = Torn
CHECK_DEADLOCK FALSE
INVARIANT RepeatedDownloadsAgree
