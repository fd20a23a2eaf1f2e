\* The same instance, and what the repair is for.
SPECIFICATION Spec
CONSTANTS
  Parts <- MCParts
  Keys <- MCKeys
  Stored <- MCStored
  Parsed <- MCParsed
  YencKey = "yenc"
  Stubs = {2}
  BatchSize = 2
  MaxBatchesPerRun = 2
  MaxDeadlockRetries = 1
  MaxGen = 2
  MaxFailures = 2
INVARIANT Regrouped
