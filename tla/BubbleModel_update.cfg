SPECIFICATION Spec
CONSTANTS
  Blocks = 3
  Width = 2
  Rows = 3
  Shapes <- MCShapes
  MaxUpdates = 2
  Races = FALSE
  None = None
INVARIANTS
  TypeOK
  IdsAreRegions
  VolumesRight
