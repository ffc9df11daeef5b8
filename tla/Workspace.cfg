SPECIFICATION Spec
CONSTANTS
  Calls = {c1, c2}
  Keys = {k1, k2}
  Tables = {t1, t2}
  Cols = {b}
  None = None
  TTL = 1
  MaxTables = 1
  MaxRows = 1
  Batches = {0, 1}
  MaxEntries = 2
  MaxCalls = 3
  MaxTime = 2
SYMMETRY Symmetry
INVARIANTS EvictedOnlyAfterTTL OrphansNeedARace WorkspaceKeepsRows
  OverCapIsReported MetaTracksTables ConflictsNeedOverlap
CHECK_DEADLOCK FALSE
