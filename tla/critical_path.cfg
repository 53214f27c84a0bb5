SPECIFICATION Spec
CONSTANTS
  n = 4
  Dags <- SmallDags
  Latencies <- GateLatencies
INVARIANTS
  CriticalPathFound
  EachGateInTurn
  HighestIsActive
CHECK_DEADLOCK FALSE
