SPECIFICATION Spec
CONSTANTS
  c1 = c1
  a = a
  b = b
  Commands <- MCCommands
  Workers = {a, b}
  Variants <- MCVariants
  Payload <- MCPayload
  Prices = {1, 2}
  Desk = TRUE
  MaxQuantity = 2
  MaxRecoveries = 2
  MaxVersion = 3
  MaxCrashes = 2
INVARIANTS LinesOnce PaidIsPriced AppliedIsSold
PROPERTY SoldIsFinal
SYMMETRY Symmetry
CHECK_DEADLOCK FALSE
