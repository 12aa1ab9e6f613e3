SPECIFICATION FairSpec
CONSTANTS
  sms = sms
  email = email
  in_app = in_app
  w1 = w1
  w2 = w2
  None = None
  Channels <- MCChannels
  Workers <- MCWorkers
  InApp = in_app
  MaxAttempts = 2
  MaxRetries = 1
  MaxFaults = 1
INVARIANTS SentOnce BoundedAttempts IntentAgrees
PROPERTIES EventuallySettled
CHECK_DEADLOCK FALSE
