SPECIFICATION FairSpec
CONSTANTS
  NumEvents = 1
  Procs = {p1}
  Retriers = {r1}
  BatchSize = 1
  RetryBatch = 1
  MaxRetries = 2
  Fallible <- MCFallible
  MaxFaults = 1
PROPERTY AtLeastOnce
CHECK_DEADLOCK FALSE
