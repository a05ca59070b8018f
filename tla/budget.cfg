SPECIFICATION Spec
CONSTANTS
  c1 = c1
  c2 = c2
  j1 = j1
  j2 = j2
  Null = Null
  Callers = {c1, c2}
  Jobs = {j1, j2}
  ScopeOf <- MCScopeOf
  Price <- MCPrice
  Costs = {0, 3}
  Days = 2
  MonthOf <- MCMonthOf
  DailyAmount = 3
  MonthlyAmount = 4
  DailyCalls = 2
  MonthlyCalls = 3
  MatchCalls = 2
  MaxCalls = 3
  MaxCrashes = 1
SYMMETRY CallerSymmetry
INVARIANTS CallsWithinLimits AmountsWithinLimits EachCallPaid LocksNeverDeadlock
CHECK_DEADLOCK FALSE
