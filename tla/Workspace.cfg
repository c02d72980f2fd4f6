CONSTANTS
  Threads = {t1, t2}
  MaxKeep = 2
  MaxMembers = 2
  MaxTokens = 4
  None = None
  MaxName <- MCMaxName
  Inputs <- MCInputs
  Filenames <- MCFilenames
  Paths <- MCPaths
  Magics <- MCMagics
  MaxItems = 2
  MaxDamage = 1
  MaxNest = 1
SPECIFICATION WorkSpec
SYMMETRY Symmetry
INVARIANTS CacheKept SavedReadable VerdictsTrue DamageRefused PathsAgree
CHECK_DEADLOCK FALSE
