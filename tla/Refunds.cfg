SPECIFICATION FairSpec
CONSTANTS
  r1 = r1
  r2 = r2
  w1 = w1
  w2 = w2
  None = None
  Refunds <- MCRefunds
  Workers <- MCWorkers
  Amount = 2
  MaxAttempts = 2
  MaxReviews = 2
  MaxCrashes = 1
INVARIANTS  RefundsWithinPayment BooksFollowGateway ReversalIsAccounted
PROPERTIES SucceededIsFinal 
CHECK_DEADLOCK FALSE
