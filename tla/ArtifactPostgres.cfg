CONSTANTS
  Users = {u1, u2}
  Rows = {h1, h2}
  Procs = {p1, p2}
  Sizes = {2}
  Limit = 3
  MaxMembers = 1
  Backend = "postgres"
  StatFails = FALSE
  None = None
SPECIFICATION Spec
SYMMETRY Symmetry
INVARIANTS QuotaHeld ResultsKept NoResidue MissingIsTrue ClosedAccount
PROPERTIES FilesGoFirst KeepsLedger
