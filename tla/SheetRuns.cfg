SPECIFICATION Spec
CONSTANTS
  t1 = t1
  t2 = t2
  j1 = j1
  None = None
  Torn = Torn
  Teams = {t1, t2}
  Jobs = {j1}
  Earlier <- MCEarlier
  Totals <- MCTotals
  MaxNow = 1
  MaxFaults = 2
  MaxCrashes = 1
INVARIANTS
  ReadersTakeAdopted
  CompletedCounts
PROPERTIES
  JobsEnd
CHECK_DEADLOCK FALSE
