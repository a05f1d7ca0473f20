\* a line of three processes, a sphere that reaches over several of them
SPECIFICATION FairSpec
CONSTANTS
  Particle = {u}
  Fixed = {}
  NonCommunicating = {}
  NX = 3
  NY = 1
  W = 2
  H = 1
  Radius = 3
  Step = 1
  Periodic = FALSE
  ProcOf <- OnePerBlock
  Rank <- MCRank
  NoRank <- MCNoRank
  Pos <- MCPos
  Nbr <- MCNbr
  OwnerOf <- MCOwnerOf
  Overlap <- MCOverlap
  Wrap <- MCWrap
  Image <- MCImage
  Reach <- MCReach
INVARIANTS TypeOK NoAbort NotesTrue
PROPERTIES ImplementsOwnership SyncEnds GhostsSpread
