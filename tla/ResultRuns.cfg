CONSTANTS
  d1 = d1
  d2 = d2
  r1 = r1
  r2 = r2
  c1 = c1
  c2 = c2
  None = None
  Approvals = {d1}
  Corrections = {r1, r2}
  Callers = {c1, c2}
  Repeats = {"prepared"}
  Together = FALSE
  MaxFaults = 1

SPECIFICATION Spec
INVARIANTS OneResult ActiveBacked AuthorityKept ReviewedIsAdopted
PROPERTIES FinalStands RegisterSpec
CHECK_DEADLOCK FALSE
