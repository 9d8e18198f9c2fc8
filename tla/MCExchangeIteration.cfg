SPECIFICATION Spec
CONSTANTS
  Length = 8
  Descriptions <- MCDescriptions
PROPERTIES
  DeliversCommonRegion
  IncrementalOrder
\* The iteration ends.
CHECK_DEADLOCK FALSE
