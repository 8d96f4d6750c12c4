SPECIFICATION Spec
CONSTANTS
  Words = {"x", "y"}
  Texts <- MCTexts
  Files <- MCFiles
  NoText = NoText
  Letters = {"a"}
  MaxSets = 3
  MaxLines = 2
  MaxHist = 2
INVARIANTS Restored MarksInRange UndoRestoresMarks UnmodifiedIsSaved
PROPERTIES UndoIsAStack
CHECK_DEADLOCK FALSE
