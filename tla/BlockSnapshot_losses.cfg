SPECIFICATION FairSpec
CONSTANTS
  Proc <- MCProc
  First <- MCFirst
  Block <- MCBlock
  Adj <- MCAdj
  Home <- MCHome
  MaxTime = 2
  MaxLosses = 2
  MaxMoves = 1
INVARIANTS
  TypeOK
  RestoreExact
PROPERTIES
  SimulationEnds
