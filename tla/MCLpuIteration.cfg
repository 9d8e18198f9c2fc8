SPECIFICATION Spec
CONSTANTS
  Tasks <- MCTasks
  MostLpus = 7
INVARIANTS
  Inv
  NoLpuTwice
  NoLpuLeftOut
  BoundsNested
  PpuCountsActual
PROPERTIES
  AllDone
\* The controllers stop at the end of the code.
CHECK_DEADLOCK FALSE
