SPECIFICATION Spec
CONSTANTS
  d1 = d1
  d2 = d2
  Dirs <- MCDirs
  Disks <- MCDisks
  Names = {1, 2}
  Hidden = {2}
  NoDir = NoDir
  MaxChanges = 1
  MaxQueue = 2
INVARIANTS StaleIsKnown DeletesWhatWasSeen CursorOnEntry
CHECK_DEADLOCK FALSE
