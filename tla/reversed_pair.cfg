SPECIFICATION Spec
CONSTANTS
  NumQubits = 3
  OPT_THRESHOLD = 10
  Circuits <- ReversedPairs
INVARIANTS
  OutputEquivalent
