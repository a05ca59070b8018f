SPECIFICATION Spec
CONSTANTS
  w1 = w1
  w2 = w2
  j1 = j1
  j2 = j2
  Null = Null
  Workers = {w1}
  Jobs = {j1}
  DueAt <- OneDue
  DeadlineAt <- OneDeadline
  UnknownType = {}
  Keys = {}
  MaxAttempts = 2
  RetryDelay <- Delays
  MaxConcurrency = 1
  LeaseDuration = 2
  HandlerOutcome = {"timeout", "terminal"}
  MaxTime = 3
  MaxCrashes = 0
PROPERTIES LossIsReal
