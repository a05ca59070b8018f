SPECIFICATION Spec
CONSTANTS
  w1 = w1
  w2 = w2
  Null = Null
  NotStarted = NotStarted
  Workers = {w1}
  Variants = {"v1", "v2"}
  Schedules <- Reported
  Answers = {"succeeded", "timed_out", "failed", "skipped"}
  Horizon = 8
  LeaseDuration = 2
  TargetCutoff = 4
  StartTolerance = 1
  CompletionGrace = 3
  RequestTimeout = 1
  MaxAttempts = 2
  InitialDelay = 1
  MaxDelay = 1
  MaxRevisions = 1
  MaxTime = 4
  MaxCrashes = 1
INVARIANTS PublishedOnTime InputFrozenFirst
