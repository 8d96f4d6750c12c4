SPECIFICATION Spec
CONSTANTS
  MAX_LINE = 4
  LINE_CAP = 9
  MaxLevel = 1
  MaxBytes = 10
INVARIANTS TypeOK PrintsItsInput CharsWhole WordsWhole LinesFit
CHECK_DEADLOCK FALSE
