SPECIFICATION GuardFairSpec
CONSTANTS
  c1 = c1
  c2 = c2
  l1 = l1
  l2 = l2
  TotalBudget = 6
  Amount = {1, 2, 3, 4, 6}
  Spend = {0, 1, 2, 3, 4, 5, 6, 7, 8}
  MaxEvents = 20
  Caller = {c1, c2}
  Loop = {l1, l2}
  LoopOf <- TwoLoops
  Report = {}
  MinProgress = 3
  Kind <- NodeAndPlain
  HasReallocator = TRUE
  MaxUsdCeiling = 2
  ExpectedOutput = 0
  Requested = {"small", "other"}
  Prompt = {0, 12}
  Table <- Prices
  Result <- Results
  Overrun = {1, 2}
  Multiplier = 50
  Failure = {"AllocationExceededError", "CreditExtensionDeniedError", "OtherError"}
INVARIANTS
  GuardTypeOK
  OnlyRetriesLeak
  BilledExactly
  LoansPerCall
  BilledAsReported
PROPERTIES
  ImplementsLending
  EveryCallEnds
CHECK_DEADLOCK FALSE
