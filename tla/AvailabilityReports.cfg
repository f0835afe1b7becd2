SPECIFICATION Spec
CONSTANTS
  Regions = {"bay", "arabian"}
  Dates <- MCDates
  Store <- MCStore
  Window = 2
  None = None
  Strides = {0, 2}
  Shipped = "bay"
  MaxBuilds = 2
  Torn = Torn
  Order <- MCOrder
CHECK_DEADLOCK FALSE
INVARIANT AcceptedWithManifest
INVARIANT ListedServed
INVARIANT OneManifest
INVARIANT ReportInv
INVARIANT AdvertisedWritten
INVARIANT AdvertisedReadable
INVARIANT ListedFromOneBuild
INVARIANT BuildInv
