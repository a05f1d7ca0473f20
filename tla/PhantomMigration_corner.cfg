\* three families around a corner merge in one refresh
SPECIFICATION Spec
CONSTANTS
  Rank <- MCRank
  Id <- MCId
  Children <- MCChildren
  Touch <- MCTouch
  NoData = NoData
  Jobs <- MCJobs
INVARIANT NeighborhoodsRight
