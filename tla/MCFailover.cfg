\* Two servers, with and without load balancing, two callers, one edit of the
\* list; a server goes down and comes back, or both go down; callers leave and
\* articles lack their yEnc header at any time.  Cooldowns do not grow here.
SPECIFICATION FairSpec
CONSTANTS
  r1 = r1
  r2 = r2
  r3 = r3
  NumServers = 2
  MaxEps = 3
  Reqs <- TwoReqs
  Outcomes <- ProviderOutcomes
  Threshold = 2
  Cooldown = 1
  MaxCooldown = 1
  MaxShift = 0
  MaxFlips = 2
  MaxEdits = 1
INVARIANT HalfOpenIsDecided
PROPERTY PreferredRecovers
CHECK_DEADLOCK FALSE
