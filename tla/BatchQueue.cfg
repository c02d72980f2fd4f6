CONSTANTS
  small = small
  half = half
  big = big
  doc = doc
  Files = {small, half, big, doc}
  Size <- MCSize
  InScope = {small, half, big}
  MinSize = 1
  FileMax = 3
  BatchMax = 4
  MaxItems = 3
  MaxRuns = 2
  MaxLost = 1
  MaxSlips = 1
  None = None
SPECIFICATION FairSpec
INVARIANTS LimitsKept ResultsTrue RowsFresh
PROPERTIES RunsEnd
CHECK_DEADLOCK FALSE
