\* Forward triggers, ticks and a crash or a shutdown; backfill on or off.
SPECIFICATION FairSpec
CONSTANTS
  j1 = j1
  j2 = j2
  NoJob = NoJob
  Jobs <- TwoJobs
  QueueCap = 1
  Groups = 1
  Kinds = {"scan"}
  Tickers = {"scan"}
  Failing = FALSE
  Refusing = TRUE
  MaxStops = 1
  MaxCancels = 1
PROPERTIES EveryJobEnds ForwardFollowsTick
