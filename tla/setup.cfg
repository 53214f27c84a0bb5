SPECIFICATION Spec
CONSTANTS
  Modules <- SmallModules
  Peripheries = {TRUE, FALSE}
  Factories <- SmallFactories
  rows_to_Y_factory_ratio = 1
  cols_to_A_factory_ratio = 2
INVARIANTS
  TilesApart
  GatesSimulable
CHECK_DEADLOCK FALSE
