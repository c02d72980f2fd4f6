CONSTANTS
  Workers = {w1, w2}
  Names = {root, ann}
  AdminName = root
  MaxAttempts = 1
  Columns = 2
  MaxAccounts = 3
  MaxResets = 1
  NoKey = NoKey
  EmptyKey = EmptyKey
SPECIFICATION Spec
INVARIANTS AttemptsBounded SessionsOwn SeedPasswordUnused AdminRemains StartedWhole
PROPERTIES OwnersOutliveFiles
