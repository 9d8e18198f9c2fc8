SPECIFICATION Spec
CONSTANTS
  t1 = t1
  t2 = t2
  a = a
  b = b
  c = c
  d = d
  Threads = {t1}
  ValidPpus = {t1}
  LpusOf <- OneThread
  PartOf <- PartOfLpu
  Lags = 2
  ScalarLags = 1
  MaxEpochs = 4
INVARIANTS
  ArrayVersions
\* The PPU controllers stop after their last pass.
CHECK_DEADLOCK FALSE
