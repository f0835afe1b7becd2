SPECIFICATION Spec
CONSTANTS
  Regions <- MCRegions
  Rank <- MCRank
  Reports <- OneAvailable
  WarmFrom = 2
  Depths = {0, 100}
  Cells = {"c1"}
  Statuses = {"model_prediction"}
  FirstRegion = "bay"
  FirstDepth = 100
  None = None
  MaxSeq = 3
CHECK_DEADLOCK FALSE
PROPERTY SkeletonsEnd
