SPECIFICATION LiveSpec
CONSTANTS
  Tasks = {t1, t2}
  Pieces = 2
  IoLimit = 1
  BodyLimit = 1
  WallLimit = 2
  Watch = 3
  MaxBytes = 2
  Horizon = 14
INVARIANTS TempFileRemoved NoSurvivorInGroup 
 
CHECK_DEADLOCK FALSE
