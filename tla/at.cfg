SPECIFICATION LiveSpec
CONSTANTS
  Calls = {c1, c2, c3}
  NKeys = 1
  Backlog = 2
  Texts <- MCTexts
INVARIANTS QueueHeldByItsCall ForeignAnswerIsStale  FailsOnlyOnTimeout NoAlarmOutsideWait
PROPERTIES EndsOrDeaf ImplementsService
CHECK_DEADLOCK FALSE
