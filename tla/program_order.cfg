SPECIFICATION Spec
CONSTANTS
  num_rows = 5
  num_cols = 5
  Programs <- ContendedPrograms
  CodeDistances = {0, 2}
  priority_policy = 0
  attempt_th_yx = 0
  attempt_th_drop = 1
  WatchdogPeriod = 40
INVARIANTS
  TypeOK
  OneEventInFlight
  EventsInOrder
  NoGateForgotten
  DependencyOrder
  NoLeak
  CleanEnd
PROPERTIES
  OwnerReleases
  SchedulesTheDag
CHECK_DEADLOCK FALSE
