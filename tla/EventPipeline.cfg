SPECIFICATION FairSpec
CONSTANTS
  e1 = e1
  x1 = x1
  x2 = x2
  c1 = c1
  c2 = c2
  None = None
  Events <- MCEvents
  Publishers <- MCPublishers
  Consumers <- MCConsumers
  OutboxAttempts = 2
  JobAttempts = 2
  MaxStalls = 1
  MaxFaults = 1
INVARIANTS PublishedIsQueued OnceWhileCalm CompletedIsApplied
PROPERTIES EventuallyApplied
CHECK_DEADLOCK FALSE
