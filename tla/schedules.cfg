SPECIFICATION FairSpec
CONSTANTS
  Qubits <- MCQubits
  Functions <- MCFunctions
  Settings <- MCSettings
  w_op = 1
  w_dist <- MCDist
INVARIANTS
  ParentsFirst
  NoOpForgotten
  OneKindPerRegion
  RegionsHoldOperands
PROPERTIES
  IsListSchedule
  EveryOpScheduled
