SPECIFICATION LendingBoundedSpec
CONSTANTS
  c1 = c1
  c2 = c2
  l1 = l1
  l2 = l2
  TotalBudget = 3
  Amount = {1, 2}
  Spend = {1}
  MaxEvents = 4
  Caller = {c1, c2}
  Loop = {l1, l2}
  LoopOf <- TwoLoops
  Report = {3}
  MinProgress = 3
PROPERTIES
  LoansAreCovered
CHECK_DEADLOCK FALSE
