SPECIFICATION FairSpec
CONSTANTS
  NumQubits = 3
  OPT_THRESHOLD = 2
  Circuits <- MCCircuits
INVARIANTS
  MeaningKept
  NothingLeftToCancel
PROPERTIES
  PassesEnd
