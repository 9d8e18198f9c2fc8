SPECIFICATION FairSpec
CONSTANTS
  Threads = {t1, t2, t3, t4}
  MaxRounds = 3
INVARIANTS
  Inv
  NoneAhead
PROPERTIES
  ImplementsRendezvous
  AllRoundsComplete
\* The threads stop after their last round.
CHECK_DEADLOCK FALSE
