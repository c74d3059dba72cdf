SPECIFICATION FairSpec
CONSTANTS
  MotorNum = 2
  MaxPwm = 1
  Pwms <- MCPwms
  Inputs = {}
  Steps <- MCSteps
  MaxActual = 0
  Garbage = {0}
  Faulty = FALSE
  HasSteer = TRUE
  PwmVect <- MCPwmVect
  Threads = {io, conn}
  IoThread = io
  Servers = {conn}
  Asked <- TurnRequests
  MaxRequests = 2
  MaxReady = 1
PROPERTIES
  EveryTurnEnds
