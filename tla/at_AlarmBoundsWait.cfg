SPECIFICATION LiveSpec
CONSTANTS
  Calls = {c1, c2}
  NKeys = 1
  Backlog = 1
  Texts <- MCTexts
PROPERTY AlarmBoundsWait
CHECK_DEADLOCK FALSE
