\* Two releases, two workers; one requeue, one deletion, one failing statement
\* and one pass cut short.
SPECIFICATION FairSpec
CONSTANTS
  w1 = w1 w2 = w2
  Workers <- MCWorkers
  Releases <- MCReleases
  Segs <- MCSegs
  Obfuscated = {1}
  BatchLimit = 2
  FetchBudget = 2
  MaxPPAttempts = 2
  MaxAborts = 1
  MaxErrors = 1
  MaxRequeues = 1
  MaxDeletes = 1
PROPERTIES DoneSticks Settles
