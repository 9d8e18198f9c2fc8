CONSTANTS
  NumSegments = 3
  Programs <- MCPrograms
SPECIFICATION Spec
INVARIANTS
  HoldsLatest
  FileComplete
PROPERTY EveryoneFinishes
CHECK_DEADLOCK FALSE
