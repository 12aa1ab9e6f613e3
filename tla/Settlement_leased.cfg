SPECIFICATION Spec
CONSTANTS
  o1 = o1
  p1 = p1
  p2 = p2
  w1 = w1
  w2 = w2
  None = None
  Orders <- MCOrders
  Payments <- MCPayments
  Workers <- MCWorkers
  OrderOf <- MCOrderOf
  MaxReconcile = 1
  SlowWorkers = FALSE
  MaxStock = 1
  MaxCrashes = 0
  MaxRequests = 1
  MaxStaffOps = 1
SYMMETRY Symmetry
VIEW Decisions
INVARIANTS NoRefundOfFulfilledOrder
PROPERTIES ImplementsDeal
CHECK_DEADLOCK FALSE
