\* Four parts in two batches, one of them a stub; two failures at any point.
SPECIFICATION Spec
CONSTANTS
  Parts <- MCParts
  Keys <- MCKeys
  Stored <- MCStored
  Parsed <- MCParsed
  YencKey = "yenc"
  Stubs = {2}
  BatchSize = 2
  MaxBatchesPerRun = 2
  MaxDeadlockRetries = 1
  MaxGen = 2
  MaxFailures = 2
INVARIANTS NoPartSkipped TornDownWhole
PROPERTIES ProtectedSurvives
