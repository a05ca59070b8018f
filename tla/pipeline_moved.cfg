SPECIFICATION Spec
CONSTANTS
  w1 = w1
  w2 = w2
  Null = Null
  NotStarted = NotStarted
  Workers = {w1}
  Variants = {"v1"}
  Schedules <- Corrected
  Answers = {"succeeded"}
  Horizon = 8
  LeaseDuration = 2
  TargetCutoff = 4
  StartTolerance = 1
  CompletionGrace = 3
  RequestTimeout = 1
  MaxAttempts = 2
  InitialDelay = 1
  MaxDelay = 1
  MaxRevisions = 3
  MaxTime = 3
  MaxCrashes = 0
PROPERTIES MoveRevokes
