\* Two batches of two, a cap, a date cutoff, a failed pass and an edit of the row.
SPECIFICATION FairSpec
CONSTANTS
  MaxArticle = 3
  BatchSize = 2
  Caps <- MCCaps
  Old <- MCOld
  MaxFailures = 1
  MaxEdits = 1
INVARIANTS ForwardNoGap BackfillNoGap CompleteMeansDone
PROPERTIES NoReingest CatchesUp BackfillCompletes
CHECK_DEADLOCK FALSE
