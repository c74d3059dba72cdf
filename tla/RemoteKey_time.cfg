SPECIFICATION Spec
CONSTANTS
  MotorNums = {2}
  Keys <- TurnKeys
  CheckTime = 3
  Second = 10
  MaxLate = 1
  Lossy = FALSE
  MaxPresses = 2
  MaxOther = 0
PROPERTIES
  InputIsTime
