CONSTANTS
  Keys = {k1}
  Procs = {p1}
  MaxParts = 2
  None = None
SPECIFICATION Spec
PROPERTIES RowGoesLast
CHECK_DEADLOCK FALSE
