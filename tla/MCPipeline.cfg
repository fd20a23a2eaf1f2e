\* A single-file post and an undeclared collection; an article may come again,
\* a pass may fail, and an administrator calls once.
SPECIFICATION FairSpec
CONSTANTS
  p1 = p1 p2 = p2 c1 = c1 d1 = d1 d2 = d2 e1 = e1
  p = p c = c d = d NoPost = NoPost
  Articles <- MCArticles
  Posts <- MCPosts
  Post <- MCPost
  File <- MCFile
  Collections <- MCCollections
  Declared <- MCDeclared
  Hidden <- MCHidden
  Name <- MCName
  SizeBucket <- MCBucket
  RowCap = 1
  KeyLimit = 1
  MaxBatches = 2
  PruneLimit = 1
  MaxYencAttempts = 1
  MaxInserts = 4
  MaxRepairs = 1
  MaxFailures = 1
INVARIANT NzbWhole
PROPERTIES CompleteIsReleased BacklogDrains
