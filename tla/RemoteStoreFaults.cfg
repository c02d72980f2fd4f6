CONSTANTS
  Keys = {k1, k2}
  Procs = {p1, p2}
  MaxParts = 2
  None = None
SPECIFICATION Spec
SYMMETRY Symmetry
INVARIANTS StoredWhole NoStrays MissingIsAbsent
CHECK_DEADLOCK FALSE
