CONSTANTS
  i1 = i1
  r1 = r1
  w1 = w1
  w2 = w2
  Items = {i1}
  Requests = {r1}
  MaxAttempts = 3
  Workers = {w1, w2}
  Names = {1, 2}
  ResumeModes = {"resume_retryable_failed"}
  Overtaken = FALSE
  MaxFaults = 0

SPECIFICATION Spec
INVARIANTS UnknownHasNoAnswer
