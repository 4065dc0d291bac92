SPECIFICATION LendingFairSpec
CONSTANTS
  c1 = c1
  c2 = c2
  l1 = l1
  l2 = l2
  TotalBudget = 3
  Amount = {1, 2}
  Spend <- MCSpend
  MaxEvents = 5
  Caller = {c1, c2}
  Loop = {l1, l2}
  LoopOf <- TwoLoops
  Report = {}
  MinProgress = 3
INVARIANTS
  TypeOK
  Conservation
  TokenBooks
  OverdraftIsLent
  AuditTrailReplays
  AuditTrailExplainsTokens
  PromisesBounded
PROPERTIES
  HistoryIsFinal
  ImplementsClearinghouse
  EveryRequestDecided
CHECK_DEADLOCK FALSE
