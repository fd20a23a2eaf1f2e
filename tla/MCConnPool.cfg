SPECIFICATION FairSpec
CONSTANTS
  p1 = p1
  p2 = p2
  Procs <- MCProcs
  Ids <- MCIds
  Limits <- MCLimits
  MaxRetries = 1
  MaxAdmin = 2
INVARIANTS OwnedOnce SocketBudget
PROPERTY ClosedPoolDrains
