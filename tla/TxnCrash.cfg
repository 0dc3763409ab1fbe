CONSTANTS
  w1 = w1
  w2 = w2
  p1 = p1
  p2 = p2
  Workers = {w1, w2}
  Processes = {p1, p2}
  ProcessOf <- TwoProcesses
  Items = {i1, i2}
  TaskFile = task
  TxnIds = {1, 2}
  Statuses = {"a"}
  Absent = absent
  Free = free
  Stale = stale
  MaxFaults = 0
  MaxCrashes = 1
  MaxRecoveries = 2

SPECIFICATION Spec
INVARIANTS NoTrace SnapshotsInSync
SYMMETRY SymmetryTwo
\* every bound is used up and every call has returned
CHECK_DEADLOCK FALSE
