SPECIFICATION PgBoundedSpec
CONSTANTS
  w1 = w1
  w2 = w2
  c1 = c1
  c2 = c2
  Worker = {w1, w2}
  Caller = {c1, c2}
  WorkerOf <- Apart
  TotalBudget = 2
  Amount = {1}
  Spend <- MCSpend
  MaxEntries = 4
  Faults = FALSE
INVARIANTS
  PgNeverOversubscribed
CHECK_DEADLOCK FALSE
