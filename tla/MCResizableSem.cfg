SPECIFICATION FairSpec
CONSTANTS
  p1 = p1
  p2 = p2
  p3 = p3
  Procs <- MCProcs
  Limits <- MCLimits
  Cancellable <- MCProcs
  MaxFiring = 2
INVARIANTS SlotAccounting NoLostWakeup
PROPERTIES WaiterServed ImplementsLimiter
