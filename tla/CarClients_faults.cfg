SPECIFICATION ClientsFairSpec
CONSTANTS
  Funcs <- ServiceFuncs
  Registered <- ServerFuncs
  Quit = "quitApp"
  MaxCalls = 22
  Faulty = TRUE
  MotorNum = 2
  Handlers <- OneOfEach
  MaxHandlers = 2
INVARIANTS
  TypeOK
  WaitHasEnd
  FailureHasCause
  StopHolds
PROPERTIES
  ImplementsRemoteCall
  EveryCallReturns
  HandlersEnd
CHECK_DEADLOCK FALSE
