\* One service at a time, two of everything that competes.
SPECIFICATION FairSpec
CONSTANTS
  c1 = c1
  c2 = c2
  s1 = s1
  s2 = s2
  g1 = g1
  g2 = g2
  e1 = e1
  e2 = e2
  d1 = d1
  d2 = d2
  w1 = w1
  w2 = w2
  k1 = k1
  k2 = k2
  r1 = r1
  l1 = l1
  l2 = l2
  st1 = st1
  a1 = a1
  a2 = a2
  h1 = h1
  h2 = h2
  v1 = v1
  v2 = v2
  b1 = b1
  b2 = b2
  p1 = p1
  p2 = p2
  n1 = n1
  n2 = n2
  Callers = {c1, c2}
  Sockets = {s1, s2}
  NewsGroups = {g1, g2}
  NoGroup = NoGroup
  MaxRetries = 1
  EventIds = {e1, e2}
  Destinations <- TwoDestinations
  Wants <- WantsMost
  NotifyWorkers = {w1, w2}
  QueueSize = 2
  MaxAttempts = 2
  HistorySize = 2
  MaxEmits = 3
  ApiKeys = {k1, k2}
  Requests = {r1}
  CacheTTL = 2
  CacheSize = 1
  RateLimit = 1
  Window = 1
  SessionTTL = 1
  Writers = {l1, l2}
  Streams = {st1}
  BufferCap = 2
  ChannelCap = 2
  MaxEntries = 5
  TimedLoops <- OneLoop
  Intervals = {2, 4}
  Unchanged = 0
  DefaultInterval = 4
  AdaptiveMinInterval = 1
  Admins = {a1, a2}
  MaintConfig <- SomeTasks
  RetentionDays = 1
  HasFetcher = FALSE
  MaxRuns = 3
  MaxDowns = 1
  ServerIds = {1, 2}
  Handlers = {h1, h2}
  Priorities = {1, 2}
  Limits = {0}
  ConfigLimit = 4
  BudgetInputs <- SmallPools
  GroupNames = {g1, g2}
  ScanWorkers = {v1, v2}
  MaxPasses = 1
  MaxGroupId = 2
  ReleaseIds = {1, 2}
  Recency <- TwoOfADay
  PageSize = 1
  Rebuilds = {b1, b2}
  MaxRebuilds = 2
  TvReleases = {1, 2}
  Names = {n1, n2}
  NoName = NoName
  Providers <- TwoProviders
  Knows <- KnowsSome
  EnrichBatch = 2
  MaxRenames = 1
INVARIANTS OwnAnswer RetriedOnlyUnacked StreamComplete ScheduleApplied RunRowsReal ServersApplied BudgetHolds GroupRowsTrue ReindexComplete MissIsDefinitive
PROPERTIES RevocationTakesHold PassReturns
