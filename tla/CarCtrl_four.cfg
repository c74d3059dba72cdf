SPECIFICATION Spec
CONSTANTS
  MotorNum = 4
  MaxPwm = 1
  Pwms <- MCPwms
  Inputs = {}
  Steps <- MCSteps
  MaxActual = 0
  Garbage = {0}
  Faulty = FALSE
  HasSteer = FALSE
  PwmVect <- MCPwmVect
  Threads = {io}
  IoThread = io
  Servers = {io}
  Asked <- FourMotorRequests
  MaxRequests = 2
  MaxReady = 1
INVARIANTS
  WheelsObeyLast
