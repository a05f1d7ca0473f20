\* several cycles that ask the callback again
SPECIFICATION Spec
CONSTANTS
  Up = 2
  Down = 0
  OctetSize = 2
  Depth = 2
  Options <- AgainInCycles
  Block <- MCBlock
  Process <- MCProcess
  Level <- MCLevel
  Nbr <- MCNbr
  Siblings <- MCSiblings
  Local <- MCLocal
  ProcOf <- MCProcOf
  Request <- MCRequest
INVARIANTS
  LevelGuaranteed
