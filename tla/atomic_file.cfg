SPECIFICATION Spec
CONSTANTS
  Writers = {w1, w2, w3}
  Original = Original
  Torn = Torn
  Paths <- MCPaths
  DirSync <- MCDirSync
INVARIANTS
  DurableWhenReported
PROPERTIES
  NeverTorn
CHECK_DEADLOCK FALSE
