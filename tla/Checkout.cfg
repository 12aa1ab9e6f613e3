CONSTANTS
    c1 = c1
    Carts = {c1, c2}
    Customers = {u}
    Checkouts = {k1, k2}
    sale = sale
    first = first
    Promotions = {sale, first}
    Guest = Guest
    Limit <- MCLimit
    FirstPurchase <- MCFirst
    CartTtl = 1
    CheckoutTtl = 2
    ReservationTtl = 1
    OrderTtl = 2
    MaxQuantity = 1
    MaxApps = 1
    MaxVersion <- MCMaxVersion
    OpenUntil = 2
    MaxStaffOps = 1
    MaxTime = 4
SPECIFICATION Spec
VIEW Readable
INVARIANTS ReservedIsOrderable OneCartOneOrder StockIsOwed PendingHasStock UsageWithinLimits UsesAreGranted
CHECK_DEADLOCK FALSE
