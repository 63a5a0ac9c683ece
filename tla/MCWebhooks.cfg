SPECIFICATION FairSpec
CONSTANTS
  joined = joined  left = left
  Event = {joined, left}
  Retries = 3
  Concurrency = 1
  MaxCrashes = 2
INVARIANT TriedAsConfigured
PROPERTY DeliverySafe
PROPERTY EveryEventSettles
CHECK_DEADLOCK FALSE
