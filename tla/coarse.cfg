SPECIFICATION Spec
CONSTANTS
  Programs <- MCPrograms
  RES_CONSTRAINT = 2
  DATA_CONSTRAINT = 3
  MOVE_WEIGHT = 1
INVARIANTS
  CallsApart
  WidthKept
  LengthIsRight
