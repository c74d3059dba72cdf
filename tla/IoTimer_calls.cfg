SPECIFICATION FairSpec
CONSTANTS
  Callers = {c1, c2}
  Timeouts <- MCTimeouts
  MaxCalls = 4
CHECK_DEADLOCK FALSE
INVARIANTS
  TypeOK
  OneCallPerWait
  ChainAlive
PROPERTIES
  Fires
