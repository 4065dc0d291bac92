SPECIFICATION PgGuardSpec
CONSTANTS
  w1 = w1
  w2 = w2
  c1 = c1
  c2 = c2
  Worker = {w1, w2}
  Caller = {c1, c2}
  WorkerOf <- Apart
  TotalBudget = 4
  Amount = {1, 2, 3, 4}
  Spend = {0, 1, 2, 3, 4}
  MaxEntries = 12
  Faults = FALSE
  Kind <- NodeAndPlain
  HasReallocator = TRUE
  MaxUsdCeiling = 2
  Multiplier = 50
  ExpectedOutput = 0
  Requested = {"small", "other"}
  Prompt = {0, 12}
  Table <- Prices
  Result <- Results
  Overrun = {2}
  Failure = {"AllocationExceededError", "OtherError"}
PROPERTIES
  RefusedOnlyAboveCeiling
CHECK_DEADLOCK FALSE
