SPECIFICATION FairSpec
CONSTANTS
  num_rows = 4
  num_cols = 4
  Programs <- ThrashingPrograms
  CodeDistances = {0, 1}
  priority_policy = 6
  attempt_th_yx = 0
  attempt_th_drop = 0
  WatchdogPeriod = 40
INVARIANTS
  HeldUntilClosed
PROPERTIES
  WatchdogStops
CHECK_DEADLOCK FALSE
