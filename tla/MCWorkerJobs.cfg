\* Triggers of every kind for queues of one, errors, a crash or a shutdown.
SPECIFICATION Spec
CONSTANTS
  j1 = j1
  j2 = j2
  NoJob = NoJob
  Jobs <- TwoJobs
  QueueCap = 1
  Groups = 1
  Kinds <- AllKinds
  Tickers = {"scan", "pp"}
  Failing = TRUE
  Refusing = TRUE
  MaxStops = 1
  MaxCancels = 1
SYMMETRY JobSymmetry
INVARIANTS RunningIsReal CancelReachesPass
PROPERTY OutcomeIsFinal
