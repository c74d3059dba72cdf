SPECIFICATION FairSpec
CONSTANTS
  MotorNum = 2
  MaxPwm = 1
  Pwms <- MCPwms
  Inputs = {}
  Steps <- MCSteps
  MaxActual = 0
  Garbage = {0}
  Faulty = FALSE
  HasSteer = TRUE
  PwmVect <- MCPwmVect
  Threads = {io, conn}
  IoThread = io
  Servers = {conn}
  Asked <- TwoMotorRequests
  MaxRequests = 2
  MaxReady = 1
INVARIANTS
  TypeOK
  WheelsObeyLast
  LevelConsistent
  SteerObeysLast
  RunHasEnd
  TurnHasEnd
PROPERTIES
  ImplementsCarSpeed
  TimedRunEnds
  TimedTurnEnds
