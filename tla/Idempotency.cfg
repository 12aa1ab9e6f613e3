SPECIFICATION FairSpec
CONSTANTS
  a1 = a1
  a2 = a2
  a3 = a3
  b1 = b1
  k1 = k1
  p1 = p1
  p2 = p2
  None = None
  Error = Error
  Requests <- MCRequests
  Keys <- MCKeys
  Payloads <- MCPayloads
  KeyOf <- MCKeyOf
  PayloadOf <- MCPayloadOf
INVARIANTS EffectOnce
PROPERTIES ImplementsOnceOnly RetryIsAnswered
CHECK_DEADLOCK FALSE
