CONSTANTS
  NumSegments = 3
  MaxRounds = 2
  Programs <- MCPrograms
SPECIFICATION Spec
INVARIANTS
  ReceivesLatest
  NothingLeft
  GroupsAgree
PROPERTY EveryoneFinishes
CHECK_DEADLOCK FALSE
