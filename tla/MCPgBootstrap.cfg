SPECIFICATION BootFairSpec
CONSTANTS
  w1 = w1
  w2 = w2
  w3 = w3
  c1 = c1
  c2 = c2
  c3 = c3
  c4 = c4
  Worker = {w1, w2, w3}
  Caller = {c1, c2, c3, c4}
  WorkerOf <- MCWorkerOf
  Reader = {c4}
  PoolSize = 1
  CreateTables <- MCCreateTables
  Budget <- MCBudget
  Amount = {2, 3}
  Attempts = 1
  Faults = TRUE
INVARIANTS
  BootTypeOK
  OnlyMisconfigurationFails
  GrantsFitOneBudget
PROPERTIES
  EveryAttemptAnswered
CHECK_DEADLOCK FALSE
