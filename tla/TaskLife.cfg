CONSTANTS
  i1 = i1
  i2 = i2
  r1 = r1
  Items = {i1, i2}
  Requests = {r1}
  Types = {"evidence", "scoring"}
  Levels = {"sufficient", "limited", "manual_only"}
  MaxAttempts = 3
  Outputs = {TRUE}
  Pins = {TRUE, FALSE}
  TornEvaluations = {TRUE}

SPECIFICATION Spec
SYMMETRY ItemSymmetry
INVARIANTS SnapshotsReadable SettledCanFinalize
PROPERTIES ClosedTaskFrozen ResultsProtected UnknownOutcomeHeld
