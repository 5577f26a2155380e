SPECIFICATION Spec
CONSTANTS
  p1 = p1
  p2 = p2
  v0 = v0
  v1 = v1
  v2 = v2
  None = None
  Foreign = Foreign
  Corrupt = Corrupt
  Procs = {p1}
  Builds = {v1, v2}
  VersionOf <- MCVersionOf
  Requests <- CrashRequests
  InitBinaries = {None}
  InitUnits = {None}
  InitServices <- MCInitServices
  KeepBackups = 1
  MaxSnapshots = 2
  Events = {"call"}
INVARIANTS
  StoppedServiceReturns
