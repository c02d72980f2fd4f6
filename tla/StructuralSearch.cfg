CONSTANTS
  Literals = {0, 1, 2, 3}
  FirstPattern = 4
  MaxPatterns = 1
  PatternLen = 2
  Weights = {1, 3}
  Limits = {0, 2, 3}
  ByteBits = 3
  LutLimit = 2
  MaxIds = 2
  MaxCut = 1
  Texts <- MCTexts
  WordLiterals = {0, 1}
  WordMin = 3
  WordMax = 4
  NgramMin = 2
  NgramMax = 2
  ScanWindow = 5
  Floors = {1, 2}
  ByteCost = 1
  EntryBytes = 1
  MaxInitialDict = 2
  MaxDict = 3
  MaxBlock = 6
  MergesPerRound = 2
  MergeRounds = 2
  DpRounds = 2
  NoCode = 24
SPECIFICATION SearchSpec
INVARIANTS CodesSound Lossless DictionaryTight
PROPERTIES BestParse
