CONSTANTS
  Requests = {r1}
  Rungs = 4
  Sizes = {1, 2}
  TokensSizes = {1}
  FileLen = 2
  AfcCost = 1
  TokensCost = 5
  FileCost = 2
  Budget = 4
  Cpus = 4
  PoolSize = 4
  MaxFails = 1
  None = None
SPECIFICATION FairSpec
INVARIANTS Reproducible GuardKept BudgetKept
PROPERTIES RequestsEnd
CHECK_DEADLOCK FALSE
