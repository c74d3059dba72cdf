SPECIFICATION ServedSpec
CONSTANTS
  Funcs <- ServiceFuncs
  Registered <- ServerFuncs
  Quit = "quitApp"
  MaxCalls = 22
  Faulty = FALSE
  MotorNum = 2
  Handlers <- Page
  MaxHandlers = 2
PROPERTIES
  StopIsExecuted
CHECK_DEADLOCK FALSE
