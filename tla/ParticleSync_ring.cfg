\* a ring of four processes: opposite ones are no neighbours; open across
SPECIFICATION Spec
CONSTANTS
  Particle = {u}
  Fixed = {}
  NonCommunicating = {}
  NX = 4
  NY = 1
  W = 3
  H = 1
  Radius = 1
  Step = 2
  Periodic = TRUE
  ProcOf <- OnePerBlock
  Rank <- MCRank
  NoRank <- MCNoRank
  Pos <- MCPos
  Nbr <- MCNbr
  OwnerOf <- MCOwnerOf
  Overlap <- MCOverlap
  Inside <- MCInside
  Wrap <- MCWrap
  Image <- MCImage
  Reach <- MCReach
INVARIANTS GhostsFresh CopiesPlaced
