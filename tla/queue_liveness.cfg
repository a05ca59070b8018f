SPECIFICATION FairSpec
CONSTANTS
  w1 = w1
  w2 = w2
  j1 = j1
  j2 = j2
  Null = Null
  Workers = {w1}
  Jobs = {j1, j2}
  DueAt <- MixedDue
  DeadlineAt <- MixedDeadline
  UnknownType = {j2}
  Keys = {}
  MaxAttempts = 2
  RetryDelay <- Delays
  MaxConcurrency = 2
  LeaseDuration = 2
  HandlerOutcome = {"retryable", "terminal", "done", "error"}
  MaxTime = 4
  MaxCrashes = 1
PROPERTIES DeadlineSettles
