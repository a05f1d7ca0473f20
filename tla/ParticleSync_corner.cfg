\* three processes around a corner, process 0 with two blocks; the domain is open
SPECIFICATION Spec
CONSTANTS
  Particle = {u}
  Fixed = {}
  NonCommunicating = {}
  NX = 2
  NY = 2
  W = 3
  H = 3
  Radius = 1
  Step = 1
  Periodic = FALSE
  ProcOf <- ColumnFirst
  Rank <- MCRank
  NoRank <- MCNoRank
  Pos <- MCPos
  Nbr <- MCNbr
  OwnerOf <- MCOwnerOf
  Overlap <- MCOverlap
  Inside <- MCInside
  Wrap <- MCWrap
  Image <- MCImage
  Reach <- MCReach
INVARIANTS TypeOK NoAbort AtMostOneOwner Conserved RegistryExact
PROPERTIES ImplementsOwnership
