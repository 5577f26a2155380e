SPECIFICATION Spec
CONSTANTS
  Keep = 1
  Unit = 3
  MaxTime = 5
  MaxDirs = 3
INVARIANTS
  OwnSnapshotKept
CHECK_DEADLOCK FALSE
