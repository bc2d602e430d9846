SPECIFICATION FairSpec
CONSTANTS
  k1 = k1
  k2 = k2
  Keys <- MCKeys
  SweepKeys <- MCSweepKeys
  Concurrency = 1
  MaxTriggers <- MCMaxTriggers
  MaxPanics = 1
  Drain = Drain
INVARIANTS TypeOK OneTask NoLostTrigger PromptRunsNow
PROPERTIES RefinesPromise EveryTriggerRuns ShutdownCompletes
\* The process stops: nothing follows Exit.
CHECK_DEADLOCK FALSE
