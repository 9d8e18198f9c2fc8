SPECIFICATION Spec
CONSTANTS
  a = a
  b = b
  c = c
  c1 = c1
  c2 = c2
  c3 = c3
  c4 = c4
  None = None
  Envs = {a, b, c}
  LpsCount = 2
  Configs = {c1, c2, c3, c4}
  Programs <- Disciplined
  MaxTasks = 4
INVARIANTS
  ReadsLatest
  FreshVersions
  VersionsOfItems
  ReferenceCounts
  NeverAborts
\* The program ends after its last task.
CHECK_DEADLOCK FALSE
