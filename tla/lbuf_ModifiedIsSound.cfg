SPECIFICATION Spec
CONSTANTS
  Words = {"x", "y"}
  Texts <- MCTexts
  Files <- MCFiles
  NoText = NoText
  Letters = {}
  MaxSets = 2
  MaxLines = 2
  MaxHist = 2
INVARIANT ModifiedIsSound
CHECK_DEADLOCK FALSE
