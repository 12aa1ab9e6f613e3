SPECIFICATION Spec
CONSTANTS
  e1 = e1
  x1 = x1
  x2 = x2
  c1 = c1
  c2 = c2
  None = None
  Events <- MCEvents
  Publishers <- MCPublishers
  Consumers <- MCConsumers
  OutboxAttempts = 2
  JobAttempts = 3
  MaxStalls = 1
  MaxFaults = 0
SYMMETRY Symmetry
INVARIANTS EffectOnce
CHECK_DEADLOCK FALSE
