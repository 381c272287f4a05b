SPECIFICATION Spec
CONSTANTS
  Calls <- SomeCalls
  LogLevel = 1
  INT_MAX = 32767
  MaxCalls = 2
CHECK_DEADLOCK FALSE
INVARIANTS
  ConsoleShowsMessage
  BlocksAccounted
