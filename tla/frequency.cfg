SPECIFICATION FairSpec
CONSTANTS
  Programs <- MCPrograms
  MAX_CALL_DEPTH = 4
  Word = 16
INVARIANTS
  CountsAreInvocations
  StackMatchesCalls
PROPERTIES
  ShallowProgramsCounted
