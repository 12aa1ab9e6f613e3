SPECIFICATION Spec
CONSTANTS
  w1 = w1
  w2 = w2
  r1 = r1
  r2 = r2
  i1 = i1
  i2 = i2
  t1 = t1
  s1 = s1
  s2 = s2
  None = None
  Warehouses <- MCWarehouses
  Reservations <- MCReservations
  Items <- MCItems
  Transfers <- MCTransfers
  Scope <- MCScope
  Shipments <- MCShipments
  Opening <- MCOpening
  Protected <- MCProtected
  OrderReservation <- MCOrderReservation
  Ordered = 2
  MaxTransfer = 1
  MaxUnits = 3
  MaxAside = 1
INVARIANTS TypeOK CostFollowsStock ReservedIsCommitted AllocatedIsHeld
PROPERTY UnitsAreConserved
SYMMETRY Symmetry
CHECK_DEADLOCK FALSE
