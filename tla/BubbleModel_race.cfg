SPECIFICATION Spec
CONSTANTS
  Blocks = 3
  Width = 2
  Rows = 3
  Shapes <- NeckShapes
  MaxUpdates = 1
  Races = TRUE
  None = None
INVARIANT OneRegionPerId
