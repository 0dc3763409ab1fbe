SPECIFICATION Spec
CONSTANTS
  Packages <- TwoRevisions
  Callers = {c1, c2}
  Configs = {g1}
  Profiled = {g1}
  Findings <- MCFindings
  None = None
  MaxItems = 1
  MaxValidations = 2
  MaxTasks = 2
  MaxCrashes = 1
SYMMETRY Symmetry
INVARIANTS OneTask ToldStays DryRunFollows
CHECK_DEADLOCK FALSE
