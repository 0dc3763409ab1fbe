CONSTANTS
  w1 = w1
  w2 = w2
  p1 = p1
  p2 = p2
  Workers = {w1, w2}
  Processes = {p1, p2}
  ProcessOf <- TwoProcesses
  Items = {i1}
  TaskFile = task
  TxnIds = {1, 2}
  Statuses = {"a"}
  Absent = absent
  Free = free
  Stale = stale
  MaxFaults = 1
  MaxCrashes = 0
  MaxRecoveries = 1

SPECIFICATION FairSpec
INVARIANTS NoLostUpdate CallLeavesNoTrace
PROPERTIES LoggedNeverReverted HistorySpec RollbackContained EveryCallEnds
\* every bound is used up and every call has returned
CHECK_DEADLOCK FALSE
