SPECIFICATION LiveSpec
CONSTANTS
  Conns = {k1, k2, k3}
  MaxChildren = 2
  SleepAfterPageFork = TRUE
INVARIANTS ChildrenCounted NoDescriptorKept
PROPERTIES RefusesOnlyWhenFull EveryConnectionHandled
CHECK_DEADLOCK FALSE
