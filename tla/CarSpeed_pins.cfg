SPECIFICATION FairSpec
CONSTANTS
  MotorNum = 1
  MaxPwm = 2
  Pwms <- MCPwms
  Inputs = {}
  Steps <- NoSteps
  MaxActual = 0
  Garbage = {0, 1, 2}
  Faulty = TRUE
INVARIANTS
  WriteInv
  NoShootThrough
PROPERTIES
  ImplementsBridge
  StopReachesPins
  RunReachesPins
