SPECIFICATION FairSpec
CONSTANTS
  Rank <- MCRank
  Id <- MCId
  Children <- MCChildren
  Touch <- MCTouch
  NoData = NoData
  Jobs <- AllJobs
INVARIANTS
  TypeOK
  NeighborhoodsRight
  TargetsAnswer
  BlocksRight
PROPERTIES
  RefreshEnds
