SPECIFICATION FairQueueSpec
CONSTANTS
  p1 = p1
  p2 = p2
  key1 = key1
  NoKey = NoKey
  Jobs <- MCJobs
  Pictures <- MCPictures
  Kinds <- MCKinds
  IdemKeys <- MCIdemKeys
  MaxRetries = 2
  MaxClaims = 4
INVARIANTS QueueTypeOK NoDuplicateWork OneAnswerer
PROPERTIES EndsForGood EveryJobEnds
\* Every job may end up deleted.
CHECK_DEADLOCK FALSE
