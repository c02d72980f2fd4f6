CONSTANTS
  Files <- MCFiles
  MaxComponents = 2
  MinSegment = 2
  MinOpaque = 1
  MinPooled = 1
  MinTransform = 3
  MaxTransform = 11
  Ratio = 3
  ProbeCount = 2
  ProbeCells = 12
  ProbeRatio = 2
SPECIFICATION Spec
INVARIANTS LosslessOrRefused EngineInput
CHECK_DEADLOCK FALSE
