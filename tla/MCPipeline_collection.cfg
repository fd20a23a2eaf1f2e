\* A collection of two files, the first of two articles, and nothing fails.
SPECIFICATION Spec
CONSTANTS
  p1 = p1 p2 = p2 c1 = c1 d1 = d1 d2 = d2 e1 = e1
  p = p c = c d = d NoPost = NoPost
  Articles <- TwoFiles
  Posts <- TwoFilesPosts
  Post <- TwoFilesPost
  File <- TwoFilesFile
  Collections <- TwoFilesPosts
  Declared <- TwoFilesDeclared
  Hidden = {}
  Name <- TwoFilesName
  SizeBucket <- MCBucket
  RowCap = 2
  KeyLimit = 1
  MaxBatches = 2
  PruneLimit = 1
  MaxYencAttempts = 1
  MaxInserts = 3
  MaxRepairs = 0
  MaxFailures = 0
INVARIANT CollectionWhole
