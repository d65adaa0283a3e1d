SPECIFICATION FairSpec
CONSTANTS
  NumEvents = 2
  Procs = {p1, p2}
  Retriers = {r1}
  BatchSize = 2
  RetryBatch = 1
  MaxRetries = 2
  Fallible <- MCFallible
  MaxFaults = 1
INVARIANTS
  TypeOK
  DeliveredWasHandled
  RetryBudget
  ProcessingHasOwner
  AttemptsWithinBudget
PROPERTIES
  DeliveredIsFinal
  EventuallySettled
CHECK_DEADLOCK FALSE
