SPECIFICATION LendingBoundedSpec
CONSTANTS
  c1 = c1
  c2 = c2
  l1 = l1
  l2 = l2
  TotalBudget = 3
  Amount = {1, 2}
  Spend = {1}
  MaxEvents = 4
  Caller = {c1, c2}
  Loop = {l1}
  LoopOf <- OneLoop
  Report <- MCReport
  MinProgress = 3
INVARIANTS
  LendingTypeOK
  NeverOversubscribed
PROPERTIES
  LoansAreEarned
  RefusalsAreTrue
  ImplementsSolvent
CHECK_DEADLOCK FALSE
