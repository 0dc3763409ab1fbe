CONSTANTS
  e1 = e1
  e2 = e2
  v1 = v1
  v2 = v2
  c1 = c1
  c2 = c2
  None = None
  Requests = {e1, e2}
  Verdicts = {v1}
  Callers = {c1, c2}
  Failures = {"lost", "torn", "held"}
  MaxFaults = 1
  MaxRevision = 6

SPECIFICATION FairSpec
INVARIANTS RequestMovesOnce WaitingAnswerable ResolvedOnReview
PROPERTY RequestCompleted
CHECK_DEADLOCK FALSE
