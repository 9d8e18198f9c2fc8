SPECIFICATION CounterSpec
CONSTANTS
  PpuCount = 3
  MaxLpus = 8
  LpuCounts <- MCCounts
INVARIANTS
  CounterInv
  SharedOut
  IdsAgree
PROPERTIES
  AllVisited
\* The counters stop when their ranges are exhausted.
CHECK_DEADLOCK FALSE
