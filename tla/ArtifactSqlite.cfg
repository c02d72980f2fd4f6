CONSTANTS
  Users = {u1}
  Rows = {h1, h2}
  Procs = {p1, p2}
  Sizes = {2}
  Limit = 3
  MaxMembers = 1
  Backend = "sqlite"
  StatFails = TRUE
  None = None
SPECIFICATION FairSpec
INVARIANTS StorageSound FailedArchiveGone
PROPERTIES RequestsEnd LocksReleased OvertakenStoreUndone
