SPECIFICATION FairSpec
CONSTANTS
  Programs <- MCPrograms
INVARIANTS
  MirrorsCalls
  AllReplaced
  NoCrash
  MeaningKept
PROPERTIES
  PassStops
