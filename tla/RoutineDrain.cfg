SPECIFICATION Spec
CONSTANTS
  k1 = k1
  k2 = k2
  Keys <- MCKeys
  SweepKeys <- MCSweepKeys
  Concurrency = 1
  MaxTriggers <- MCMaxTriggers
  MaxPanics = 0
  Drain = Drain
INVARIANTS NothingRunningAtExit
CHECK_DEADLOCK FALSE
