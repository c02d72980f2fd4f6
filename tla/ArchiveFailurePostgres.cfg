CONSTANTS
  Users = {u1}
  Rows = {h1, h2}
  Procs = {p1}
  Sizes = {1}
  Limit = 1
  MaxMembers = 1
  Backend = "postgres"
  StatFails = TRUE
  None = None
SPECIFICATION Spec
INVARIANTS FailedArchiveGone
