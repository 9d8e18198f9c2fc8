SPECIFICATION FairSpec
CONSTANTS
  s1 = s1
  s2 = s2
  t1 = t1
  t2 = t2
  t3 = t3
  Segments = {s1, s2}
  Ppus = {t1, t2, t3}
  SegmentOf <- MCSegmentOf
  Kinds <- AllKinds
  Ops = {"SUM", "MIN", "LAND", "BAND"}
  INT_MIN <- MCINT_MIN
  INT_MAX <- MCINT_MAX
  Bits <- MCBits
  Values <- MCValues
  MaxRounds = 2
INVARIANTS
  ReturnsOutcome
PROPERTIES
  ReducesTogether
  AllRoundsComplete
\* The PPU controllers stop after their last round.
CHECK_DEADLOCK FALSE
