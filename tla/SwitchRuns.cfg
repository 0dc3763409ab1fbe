CONSTANTS
  p1 = p1
  p2 = p2
  d1 = d1
  c1 = c1
  c2 = c2
  None = None
  Documents <- ThreeDocuments
  Request <- TextRequest
  Resolutions = {None}
  Results <- TwoResults
  WindowSize = 2
  MinSample = 1
  HealthyRate = 90
  DegradedRate = 50
  DegradedFailures = 1
  UnavailableFailures = 2
  Decisions = {d1}
  Callers = {c1, c2}
  Targets = {p2}
  Losses = {"lost"}
  MaxFaults = 1
  MaxCrashes = 1

SPECIFICATION Spec
INVARIANTS Readable AuditTrail
PROPERTIES ApprovedAvailable
CHECK_DEADLOCK FALSE
