CONSTANTS
  NumSegments = 2
  Programs <- MCReorganized
SPECIFICATION Spec
INVARIANT HoldsLatest
CHECK_DEADLOCK FALSE
