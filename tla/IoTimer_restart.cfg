SPECIFICATION Spec
CONSTANTS
  Callers = {c1}
  Timeouts <- MCTimeouts
  MaxCalls = 2
CHECK_DEADLOCK FALSE
PROPERTIES
  OnlyWhenTimeIsUp
