CONSTANTS
  Requests = {r1}
  Rungs = 2
  Sizes = {1, 2, 3}
  TokensSizes = {1, 2, 3}
  FileLen = 3
  AfcCost = 1
  TokensCost = 5
  FileCost = 2
  Budget = 4
  Cpus = 4
  PoolSize = 4
  MaxFails = 0
  None = None
SPECIFICATION Spec
INVARIANTS NeverLargerThanPlain
CHECK_DEADLOCK FALSE
