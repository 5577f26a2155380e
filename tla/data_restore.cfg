SPECIFICATION Spec
CONSTANTS
  Paths <- MCPaths
  Data = {"old", "new"}
  MaxTargets = 3
  StateDir <- MCStateDir
  ManagedFiles <- MCManagedFiles
INVARIANTS
  RestoredExactly
  RestLeftAlone
CHECK_DEADLOCK FALSE
