SPECIFICATION FairSpec
CONSTANTS
  sms = sms
  email = email
  in_app = in_app
  w1 = w1
  w2 = w2
  None = None
  Channels <- MCMail
  Workers <- MCOneWorker
  InApp = in_app
  MaxAttempts = 2
  MaxRetries = 0
  MaxFaults = 1
PROPERTIES RequeuedIsTried
CHECK_DEADLOCK FALSE
