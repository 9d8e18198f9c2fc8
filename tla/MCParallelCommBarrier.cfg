SPECIFICATION FairSpec
CONSTANTS
  Senders = {t1, t2}
  Receivers = {t2, t3}
  Kinds <- AllKinds
  NumBuffers = 3
  MaxRounds = 2
INVARIANTS
  TransferAlone
  UsedWhenComplete
  WriteAfterRead
  ResolvedOnce
PROPERTIES
  SamePhase
  ReceivesTogether
  AllRoundsComplete
\* The PPU controllers stop after their last round.
CHECK_DEADLOCK FALSE
