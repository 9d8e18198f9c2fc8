CONSTANTS
  NumSegments = 2
  Programs <- MCRepartitioned
SPECIFICATION Spec
INVARIANT HoldsLatest
CHECK_DEADLOCK FALSE
