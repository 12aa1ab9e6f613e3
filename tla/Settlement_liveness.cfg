SPECIFICATION FairSpec
CONSTANTS
  o1 = o1
  p1 = p1
  p2 = p2
  w1 = w1
  w2 = w2
  None = None
  Orders <- MCOrders
  Payments <- MCOnePayment
  Workers <- MCWorkers
  OrderOf <- MCOrderOfOne
  MaxReconcile = 2
  SlowWorkers = FALSE
  MaxStock = 0
  MaxCrashes = 1
  MaxRequests = 1
  MaxStaffOps = 1
INVARIANTS CapturedNotForgotten
PROPERTIES CapturedIsResolved
CHECK_DEADLOCK FALSE
