SPECIFICATION Spec
CONSTANTS
  Sources <- MCSources
  Input <- MCInput
  INT8_MAX = 3
  CELL = 8
  STACK_MAX = 2
  TapeEdge = 6
  MaxSteps = 30
INVARIANTS
  RunsLikeSource
  JumpsLand
CHECK_DEADLOCK FALSE
