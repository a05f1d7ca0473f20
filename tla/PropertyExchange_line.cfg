\* a line of three one-cell blocks: the middle one has ghosts on both sides;
\* a moving particle, a FIXED one and a wall, FIXED and NON_COMMUNICATING
SPECIFICATION ExchangeSpec
CONSTANTS
  Particle = {u, v, w}
  Fixed = {v, w}
  NonCommunicating = {w}
  NX = 3
  NY = 1
  W = 1
  H = 1
  Radius = 1
  Step = 1
  Rounds = 2
  Periodic = FALSE
  ProcOf <- OnePerBlock
  Rank <- MCRank
  NoRank <- MCNoRank
  Pos <- MCPos
  Nbr <- MCNbr
  OwnerOf <- MCOwnerOf
  Overlap <- MCOverlap
  Inside <- MCInside
  Wrap <- MCWrap
  Image <- MCImage
  Reach <- MCReach
INVARIANTS ExchangeTypeOK NoConfusion ReductionExact CopiesAgree
PROPERTIES TimeStepEnds OutflowIsOutside
