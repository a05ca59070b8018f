SPECIFICATION Spec
CONSTANTS
  w1 = w1
  w2 = w2
  j1 = j1
  j2 = j2
  Null = Null
  Workers = {w1, w2}
  Jobs = {j1}
  DueAt <- OneDue
  DeadlineAt <- LateDeadline
  UnknownType = {}
  Keys = {"k1"}
  MaxAttempts = 3
  RetryDelay <- LongDelays
  MaxConcurrency = 2
  LeaseDuration = 2
  HandlerOutcome = {"timeout", "terminal"}
  MaxTime = 3
  MaxCrashes = 1
SYMMETRY WorkerSymmetry
INVARIANTS ChecksHold RetryBudget TypeOK AttemptsAccounted SuccessIsFinal AttemptsExclusive 
PROPERTIES TransitionsAllowed ReopenConsumesKey VerdictsFenced  RefinesLedger
