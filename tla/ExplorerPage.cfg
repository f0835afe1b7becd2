SPECIFICATION Spec
CONSTANTS
  Regions <- MCRegions
  Rank <- MCRank
  Reports <- TwoReports
  WarmFrom = 2
  Depths = {0, 100}
  Cells = {"c1", "c2"}
  Statuses = {"model_prediction", "cached_data"}
  FirstRegion = "bay"
  FirstDepth = 100
  None = None
  MaxSeq = 5
CHECK_DEADLOCK FALSE
INVARIANT TypeOK
INVARIANT MapHonestWhenIdle
INVARIANT ProfileMatchesSelection
INVARIANT BannerMatchesField
INVARIANT DisplayInv
PROPERTY LatestWins
PROPERTY MapSettlesWithoutSelection
PROPERTY ProfileSettlesAtOneDepth
