SPECIFICATION DegradationSpec
CONSTANTS
  c1 = c1
  c2 = c2
  a1 = a1
  a2 = a2
  Caller = {c1, c2}
  Agent = {a1, a2}
  AgentsOf <- Serves
  Table <- DefaultTable
  Requested = {"claude-opus-4", "claude-3-5-sonnet", "unlisted"}
  Threshold = 20
  ExpectedSteps = 2
  MaxSteps = 1
  MaxSwaps = 3
  TotalBudget = 5
  Amount = {2, 4}
  Spend = {0}
  MaxEvents = 2
INVARIANTS
  DegradationTypeOK
  SwapsAreReported
  SwapsNeedLowBudget
PROPERTIES
  ForcedOnlyCheapens
CHECK_DEADLOCK FALSE
