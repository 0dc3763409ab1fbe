SPECIFICATION RegistrationSpec
CONSTANTS
  None = None
  Left = Left
  k1 = k1
  k2 = k2
  s1 = s1
  s2 = s2
  v1 = v1
  v2 = v2
  c1 = c1
  c2 = c2
  Packages <- MCPackages
  Versions <- MCVersions
  Callers <- MCCallers
  MaxCalls = 3
  MaxFaults = 1
  MaxCuts = 1
SYMMETRY Symmetry
INVARIANTS
  IndexTruthful
  HitComplete
PROPERTIES
  RegisterSpec
CHECK_DEADLOCK FALSE
