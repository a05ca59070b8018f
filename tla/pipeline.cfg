SPECIFICATION Spec
CONSTANTS
  w1 = w1
  w2 = w2
  Null = Null
  NotStarted = NotStarted
  Workers = {w1, w2}
  Variants = {"v1"}
  Schedules <- Reported
  Answers = {"succeeded", "timed_out"}
  Horizon = 8
  LeaseDuration = 1
  TargetCutoff = 4
  StartTolerance = 1
  CompletionGrace = 3
  RequestTimeout = 1
  MaxAttempts = 2
  InitialDelay = 1
  MaxDelay = 1
  MaxRevisions = 2
  MaxTime = 2
  MaxCrashes = 0
SYMMETRY WorkerSymmetry
INVARIANTS TypeOK PublishedOnTime PredictionIsSuccess ProjectionFaithful ChangeRevokes
PROPERTIES RevokedForGood
