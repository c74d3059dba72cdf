SPECIFICATION FairSpec
CONSTANTS
  MotorNum = 1
  MaxPwm = 2
  Pwms <- MCPwms
  Inputs = {1}
  Steps <- MCSteps
  MaxActual = 2
  Garbage = {0}
  Faulty = FALSE
INVARIANTS
  TypeOK
  StepOvershoot
PROPERTIES
  StepsEndMovement
