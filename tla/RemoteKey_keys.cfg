SPECIFICATION FairSpec
CONSTANTS
  MotorNums = {2, 4}
  Keys <- SixKeys
  CheckTime = 3
  Second = 10
  MaxLate = 1
  Lossy = TRUE
  MaxPresses = 3
  MaxOther = 1
INVARIANTS
  TypeOK
  MoveHasStop
  StepsNotCut
PROPERTIES
  HeldKeyMoves
  MoveEnds
