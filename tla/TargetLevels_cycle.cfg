\* one cycle that asks the callback again, and several cycles
SPECIFICATION FairSpec
CONSTANTS
  Up = 2
  Down = 1
  OctetSize = 2
  Depth = 2
  Options <- Either
  Block <- MCBlock
  Process <- MCProcess
  Level <- MCLevel
  Nbr <- MCNbr
  Siblings <- MCSiblings
  Local <- MCLocal
  ProcOf <- MCProcOf
  Request <- MCRequest
INVARIANTS
  TypeOK
  LevelGuaranteed
  ForestValid
  DecisionTight
PROPERTIES
  Decides
