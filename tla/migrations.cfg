SPECIFICATION Spec
CONSTANTS
  p1 = p1
  p2 = p2
  key1 = key1
  key2 = key2
  dest1 = dest1
  dest2 = dest2
  None = None
  Procs <- TwoProcs
  Requests <- TwoRequests
  Keys <- TwoKeys
  Dests <- TwoDests
  Versions <- OldVersions
INVARIANTS MigrationsOK
PROPERTIES MigrationsPreserve StepBackKeepsOne ServeExcused
