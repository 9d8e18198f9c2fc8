SPECIFICATION Spec
CONSTANTS
  t1 = t1
  t2 = t2
  a = a
  b = b
  c = c
  d = d
  Threads = {t1, t2}
  ValidPpus = {t1, t2}
  LpusOf <- TwoThreads
  PartOf <- PartOfLpu
  Lags = 3
  ScalarLags = 2
  MaxEpochs = 5
INVARIANTS
  VersionsKept
  ScalarsKept
\* The PPU controllers stop after their last pass.
CHECK_DEADLOCK FALSE
