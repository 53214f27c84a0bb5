SPECIFICATION Spec
CONSTANTS
  Qubits <- MCQubits
  Functions <- MCFunctions
  Settings <- MCTwoPaths
  w_op = 1
  w_dist <- MCDist
INVARIANTS
  InLaterSteps
