CONSTANTS
  i1 = i1
  r1 = r1
  w1 = w1
  w2 = w2
  Items = {i1}
  Requests = {r1}
  MaxAttempts = 3
  Workers = {w1, w2}
  Names = {1, 2}
  ResumeModes = {"resume_retryable_failed", "resume_pending"}
  Overtaken = FALSE
  MaxFaults = 1

SPECIFICATION FairSpec
INVARIANT NoFalseCompletion
PROPERTIES CallsJustified VerdictFinal ManagerSpec SuccessArrives
