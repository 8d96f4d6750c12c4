SPECIFICATION LiveSpec
CONSTANTS
  MaxLife = 5
  IdleLimit = 3
  IoLimit = 1
  Pieces = 2
  Horizon = 12
INVARIANTS SessionBounded IdleSessionEnds NoShellLeft
PROPERTIES SessionEnds
CHECK_DEADLOCK FALSE
