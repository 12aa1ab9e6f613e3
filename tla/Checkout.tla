------------------------------ MODULE Checkout ------------------------------
(***************************************************************************)
(* From a cart to an order: CartService, CartOrderCheckoutService, the     *)
(* creation and the ends of OrderService, what InventoryService lets the   *)
(* payment, the sweeps and staff do to a checkout's reservation, and the   *)
(* triggers by which the marketing schema keeps the redemptions of its     *)
(* promotions.                                                             *)
(*                                                                         *)
(* Every request and every row of a sweep is one transaction that locks    *)
(* what it decides on, hence one action.  What a transaction of PostgreSQL *)
(* calls now() is the time it began, which may be before a row it finds.   *)
(***************************************************************************)
EXTENDS Integers, FiniteSets

CONSTANTS
    Carts, Customers, Checkouts, Promotions,
    Guest,              \* the owner of a cart nobody has signed in for
    Limit,              \* marketing.promotions.total_usage_limit
    FirstPurchase,      \* the promotions that are first_purchase_only
    CartTtl, CheckoutTtl, ReservationTtl, OrderTtl,
    MaxQuantity,        \* bound: units in a cart
    MaxApps,            \* bound: promotions applied to a checkout
    MaxVersion,         \* bound: version up to which a cart is edited
    OpenUntil,          \* bound: time of the last quote or reservation
    MaxStaffOps,        \* bound: what staff do to reservations
    MaxTime             \* bound: the last tick

ASSUME CheckoutAssumption ==
    /\ Carts # {} /\ Guest \notin Customers
    /\ Limit \in [Promotions -> Nat]
    /\ FirstPurchase \subseteq Promotions
    /\ {CartTtl, CheckoutTtl, ReservationTtl, OrderTtl} \subseteq Nat \ {0}
    /\ MaxVersion \in [Carts -> Nat]
    /\ {MaxQuantity, MaxApps, OpenUntil, MaxStaffOps, MaxTime} \subseteq Nat

VARIABLES
    now,            \* the clock
    cart,           \* cart.carts, with its only item
    checkout,       \* cart.checkouts, with what its quote has read
    reservation,    \* inventory.reservations, by checkout
    redemption,     \* marketing.redemptions of a checkout: all move together
    order,          \* orders.orders, by checkout
    listed,         \* reservations the expiry sweep has read as due, not yet released
    straddled,      \* history: orders created after their reservation was due, in a
                    \* transaction that began before
    late,           \* history: orders confirmed after they had expired
    givenBack,      \* history: orders whose stock staff gave back
    staffOps        \* bound

orderVars == <<cart, checkout, redemption, order>>
historyVars == <<straddled, late>>
staffVars == <<givenBack, staffOps>>
vars == <<now, orderVars, reservation, listed, historyVars, staffVars>>

Owners == Customers \cup {Guest}

CartRows == [status : {"none", "active", "converted", "expired"}, owner : Owners,
             version : Nat, items : Nat, expires : Nat]
CheckoutRows == [status : {"none", "quoted", "reserved", "order_created", "expired"},
                 cart : Carts, owner : Owners, version : Nat, items : Nat,
                 apps : SUBSET Promotions, expires : Nat]
ReservationRows ==
    [status : {"none", "active", "payment_pending", "late_payment_review", "converted",
               "released", "expired", "cancelled"},
     expires : Nat]
OrderRows == [status : {"none", "pending_confirmation", "confirmed", "cancelled", "expired"},
              expires : Nat]

Init ==
    /\ now = 0
    /\ cart = [c \in Carts |-> [status |-> "none", owner |-> Guest, version |-> 0,
                                items |-> 0, expires |-> 0]]
    /\ checkout = [k \in Checkouts |-> [status |-> "none", cart |-> CHOOSE c \in Carts : TRUE,
                        owner |-> Guest, version |-> 0, items |-> 0, apps |-> {}, expires |-> 0]]
    /\ reservation = [k \in Checkouts |-> [status |-> "none", expires |-> 0]]
    /\ redemption = [k \in Checkouts |-> "none"]
    /\ order = [k \in Checkouts |-> [status |-> "none", expires |-> 0]]
    /\ listed = {} /\ straddled = {} /\ late = {} /\ givenBack = {}
    /\ staffOps = 0
-----------------------------------------------------------------------------
(* Carts. *)

\* verify, without the token.
Usable(c) == cart[c].status = "active" /\ cart[c].expires > now
\* assertNotAdvanced; the unique index uq_cart_advanced_checkout asks the same.
NotAdvanced(c) ==
    \A k \in Checkouts : checkout[k].cart = c =>
       checkout[k].status \notin {"reserved", "order_created"}

Later(time, other) == IF time > other THEN time ELSE other
\* extendCartExpiry, of an active cart.
Extended(c, until) == [cart EXCEPT ![c].expires = Later(@, until)]

Expired(row) == [row EXCEPT !.status = "expired", !.version = @ + 1]
Due(row) == row.status = "active" /\ row.expires <= now
\* expireCustomerCartIfDue.
DueExpired(u) ==
    [c \in Carts |-> IF cart[c].owner = u /\ Due(cart[c]) THEN Expired(cart[c]) ELSE cart[c]]
ActiveOf(u, carts) == {c \in Carts : carts[c].owner = u /\ carts[c].status = "active"}

NewCart(carts, c, owner) ==
    /\ carts[c].status = "none"
    /\ cart' = [carts EXCEPT ![c] = [status |-> "active", owner |-> owner, version |-> 1,
                                     items |-> 0, expires |-> now + CartTtl]]
CartOnly == UNCHANGED <<now, checkout, reservation, redemption, order, listed, historyVars,
                        staffVars>>

Create(c) == NewCart(cart, c, Guest) /\ CartOnly
\* Mutant: a cart for every visit.
AccessAnew(u, c) == NewCart(DueExpired(u), c, u) /\ CartOnly
\* customerAccess; the advisory lock of the customer makes its reads one step.
CustomerAccess(u, c) ==
    /\ ActiveOf(u, DueExpired(u)) = {}
    /\ NewCart(DueExpired(u), c, u) /\ CartOnly

\* Mutant: a cart that is in checkout is edited.
EditAnyway(c, quantity) ==
    /\ Usable(c) /\ cart[c].version < MaxVersion[c]
    /\ cart[c].items > 0 \/ quantity > 0
    /\ cart' = [cart EXCEPT ![c].items = quantity, ![c].version = @ + 1]
    /\ CartOnly
\* add, qty and remove.
Edit(c, quantity) ==
    /\ Usable(c) /\ NotAdvanced(c) /\ cart[c].version < MaxVersion[c]
    /\ cart[c].items > 0 \/ quantity > 0
    /\ cart' = [cart EXCEPT ![c].items = quantity, ![c].version = @ + 1]
    /\ CartOnly

\* expireQuotedForCart.
QuotesExpired(carts) ==
    [k \in Checkouts |-> IF checkout[k].cart \in carts /\ checkout[k].status = "quoted"
                         THEN [checkout[k] EXCEPT !.status = "expired"] ELSE checkout[k]]

\* mergeItems: the items of the guest's cart join those of the customer's.
Merged(carts, s, t) ==
    [carts EXCEPT ![t].items = @ + carts[s].items,
                  ![t].version = @ + IF carts[s].items > 0 THEN 1 ELSE 0,
                  ![s].status = "converted", ![s].version = @ + 1]

\* mergeGuest: the customer takes the guest's cart over, or its items.
MergeGuest(u, s) ==
    LET carts == DueExpired(u) IN
    /\ Usable(s) /\ cart[s].owner = Guest /\ NotAdvanced(s)
    /\ \/ /\ ActiveOf(u, carts) = {}
          /\ cart' = [carts EXCEPT ![s].owner = u, ![s].version = @ + 1]
          /\ checkout' = QuotesExpired({s})
       \/ \E t \in ActiveOf(u, carts) :
             /\ NotAdvanced(t)
             /\ carts[t].items + carts[s].items <= MaxQuantity
             /\ cart' = Merged(carts, s, t)
             /\ checkout' = QuotesExpired({s, t})
    /\ UNCHANGED <<now, reservation, redemption, order, listed, historyVars, staffVars>>

\* expireCartsDue, for one cart; customerAccess and customerView do the same.
ExpireCart(c) ==
    /\ Due(cart[c])
    /\ cart' = [cart EXCEPT ![c] = Expired(@)]
    /\ CartOnly
-----------------------------------------------------------------------------
(* Promotions. *)

\* Redemptions of p that are reserved or consumed.
Uses(p) == {k \in Checkouts : /\ p \in checkout[k].apps
                             /\ redemption[k] \in {"reserved", "consumed"}}
HasPaid(u) == \E k \in Checkouts : checkout[k].owner = u /\ order[k].status = "confirmed"

\* CouponEligibilityService and AutomaticPromotionService, at the time of the quote.
Eligible(p, owner) ==
    /\ Cardinality(Uses(p)) < Limit[p]
    /\ p \in FirstPurchase => owner # Guest /\ ~HasPaid(owner)

\* Mutant: the reservation trusts what the quote has found.
QuotedReservable(k) == checkout[k].status = "quoted"
\* reserve_checkout_redemptions: every application of the quote once more.
Reservable(k) ==
    \A p \in checkout[k].apps :
       /\ Cardinality(Uses(p) \ {k}) < Limit[p]
       /\ p \in FirstPurchase =>
             /\ checkout[k].owner # Guest /\ ~HasPaid(checkout[k].owner)
             /\ \A q \in FirstPurchase : \A j \in Uses(q) \ {k} :
                   checkout[j].owner # checkout[k].owner
-----------------------------------------------------------------------------
(* Checkouts and orders. *)

\* The customer and the catalog may refuse at any time; which eligible promotions are
\* applied is a matter of their amounts and their stacking.
Quote(c, k, apps) ==
    /\ now <= OpenUntil
    /\ Usable(c) /\ NotAdvanced(c) /\ cart[c].items > 0
    /\ Cardinality(apps) <= MaxApps /\ \A p \in apps : Eligible(p, cart[c].owner)
    /\ checkout[k].status = "none"
    /\ checkout' = [checkout EXCEPT ![k] = [status |-> "quoted", cart |-> c,
                        owner |-> cart[c].owner, version |-> cart[c].version,
                        items |-> cart[c].items, apps |-> apps, expires |-> now + CheckoutTtl]]
    /\ cart' = Extended(c, now + CheckoutTtl)
    /\ UNCHANGED <<now, reservation, redemption, order, listed, historyVars, staffVars>>

Reserve(k) ==
    LET c == checkout[k].cart IN
    /\ now <= OpenUntil
    /\ checkout[k].status = "quoted" /\ checkout[k].expires > now
    /\ cart[c].status = "active" /\ cart[c].version = checkout[k].version
    /\ NotAdvanced(c)
    /\ Reservable(k)
    /\ reservation' = [reservation EXCEPT ![k] = [status |-> "active",
                                                  expires |-> now + ReservationTtl]]
    /\ redemption' = [redemption EXCEPT ![k] = "reserved"]
    /\ checkout' = [checkout EXCEPT ![k].status = "reserved", ![k].expires = now + ReservationTtl]
    /\ cart' = Extended(c, now + ReservationTtl)
    /\ UNCHANGED <<now, order, listed, historyVars, staffVars>>

\* assert_order_commitment_linkage, deferred to the commit.
Linked(k) ==
    LET c == checkout[k].cart IN
    cart[c].version = checkout[k].version /\ cart[c].owner = checkout[k].owner

\* Mutant: payment_grace_until is not looked at.
AttachedAsItWas(k) == [reservation[k] EXCEPT !.status = "payment_pending"]
\* attachReservationOrder: from now on the grace decides when the reservation is due.
Attached(k) == [status |-> "payment_pending", expires |-> now + OrderTtl]

\* OrderService.create: loadReservedForOrder, the order, attachOrderInTransaction and
\* finalizeOrderCreation, in a transaction that began at a time its checks still go by.
\* Only an order sets the reservation's order_id, so it is NULL until then.
CreateOrder(k, began) ==
    /\ checkout[k].status = "reserved" /\ checkout[k].expires > began
    /\ order[k].status = "none"
    /\ reservation[k].status \in {"active", "payment_pending"}
    /\ reservation[k].expires > began
    /\ reservation[k].expires <= now + OrderTtl    \* payment_grace_until >= expires_at
    /\ redemption[k] = "reserved"
    /\ cart[checkout[k].cart].status = "active" /\ Linked(k)
    /\ order' = [order EXCEPT ![k] = [status |-> "pending_confirmation",
                                      expires |-> now + OrderTtl]]
    /\ redemption' = [redemption EXCEPT ![k] = "consumed"]
    /\ reservation' = [reservation EXCEPT ![k] = Attached(k)]
    /\ checkout' = [checkout EXCEPT ![k].status = "order_created"]
    /\ cart' = [cart EXCEPT ![checkout[k].cart].status = "converted",
                            ![checkout[k].cart].version = @ + 1]
    /\ straddled' = IF reservation[k].expires <= now THEN straddled \cup {k} ELSE straddled
    /\ UNCHANGED <<now, listed, late, staffVars>>

Open == {"active", "payment_pending", "late_payment_review"}
\* Mutant: a reservation that waits for a payment is left alone.
ReleasedIfActive(k, to) ==
    IF reservation[k].status = "active"
    THEN [reservation EXCEPT ![k].status = to] ELSE reservation
\* releaseInTransaction: a reservation that is not open is left as it is.
Released(k, to) ==
    IF reservation[k].status \in Open
    THEN [reservation EXCEPT ![k].status = to] ELSE reservation

\* CartService.expireDue, for one checkout, with release_checkout_redemptions.
ExpireCheckout(k) ==
    /\ checkout[k].status \in {"quoted", "reserved"} /\ checkout[k].expires <= now
    /\ checkout' = [checkout EXCEPT ![k].status = "expired"]
    /\ IF checkout[k].status = "reserved"
       THEN /\ reservation' = Released(k, "expired")
            /\ redemption' = [redemption EXCEPT ![k] = "released"]
       ELSE UNCHANGED <<reservation, redemption>>
    /\ UNCHANGED <<now, cart, order, listed, historyVars, staffVars>>

\* InventoryService.expireDue reads what is due, then releases it one by one without
\* another look at the clock.  Bound: it has one at a time.
ListReservation(k) ==
    /\ reservation[k].status \in {"active", "payment_pending"} /\ reservation[k].expires <= now
    /\ listed = {}
    /\ listed' = listed \cup {k}
    /\ UNCHANGED <<now, orderVars, reservation, historyVars, staffVars>>
ExpireReservation(k) ==
    /\ k \in listed
    /\ listed' = listed \ {k}
    /\ reservation' = Released(k, "expired")
    /\ UNCHANGED <<now, orderVars, historyVars, staffVars>>

\* Mutant: only redemptions that are still reserved are given back.
EndOfReserved(k, status) ==
    /\ order' = [order EXCEPT ![k].status = status]
    /\ reservation' = Released(k, status)
    /\ redemption' = [redemption EXCEPT ![k] = IF @ = "reserved" THEN "reversed" ELSE @]
    /\ UNCHANGED <<now, cart, checkout, listed, historyVars, staffVars>>
\* An order ends without a sale: its stock is released, its redemptions are reversed.
End(k, status) ==
    /\ order' = [order EXCEPT ![k].status = status]
    /\ reservation' = Released(k, status)
    /\ redemption' = [redemption EXCEPT ![k] = "reversed"]
    /\ UNCHANGED <<now, cart, checkout, listed, historyVars, staffVars>>
\* cancelInternal.
CancelOrder(k) == order[k].status = "pending_confirmation" /\ End(k, "cancelled")
\* OrderService.expireDue, for one order.
ExpireOrder(k) ==
    /\ order[k].status = "pending_confirmation" /\ order[k].expires <= now
    /\ End(k, "expired")

-----------------------------------------------------------------------------
(* The payment of an order, as seen from here: the claim that makes it the only one and   *)
(* the job that runs its transactions, crashes and runs them again are Settlement's; each *)
(* of the transactions may come at any time, and anything may come in between.            *)

\* markLatePaymentReview.
MarkLatePaymentReview(k) ==
    /\ reservation[k].status = "expired"
    /\ reservation' = [reservation EXCEPT ![k].status = "late_payment_review"]
\* convert; a late reservation has to take its stock back, and may find none.
Convert(k) ==
    /\ reservation[k].status \in Open
    /\ reservation' = [reservation EXCEPT ![k].status = "converted"]

PaymentMarksLate(k) ==
    /\ order[k].status # "none" /\ order[k].expires <= now
    /\ MarkLatePaymentReview(k)
    /\ UNCHANGED <<now, orderVars, listed, historyVars, staffVars>>
PaymentConverts(k) ==
    /\ order[k].status # "none"
    /\ Convert(k)
    /\ UNCHANGED <<now, orderVars, listed, historyVars, staffVars>>
\* confirmPaid, which takes a pending or an expired order.
Confirm(k) ==
    /\ order[k].status \in {"pending_confirmation", "expired"}
    /\ reservation[k].status = "converted"
    /\ order' = [order EXCEPT ![k].status = "confirmed"]
    /\ late' = IF order[k].status = "expired" THEN late \cup {k} ELSE late
    /\ UNCHANGED <<now, cart, checkout, reservation, redemption, listed, straddled, staffVars>>
-----------------------------------------------------------------------------
(* Staff, who may do all this to any reservation, whatever its checkout and order are.    *)

StaffBeginPayment(k) ==
    /\ reservation[k].status = "active"
    /\ reservation' = [reservation EXCEPT ![k].status = "payment_pending"]
    /\ UNCHANGED givenBack
\* release and expire.
StaffRelease(k) ==
    /\ reservation[k].status \in Open
    /\ \E to \in {"released", "expired"} : reservation' = Released(k, to)
    /\ givenBack' = IF order[k].status = "none" THEN givenBack ELSE givenBack \cup {k}
StaffLateReview(k) == MarkLatePaymentReview(k) /\ UNCHANGED givenBack
StaffConvert(k) == Convert(k) /\ UNCHANGED givenBack
\* release-commitment: the stock goes and the status stays, which only an order would notice.
ReleaseConvertedCommitment(k) ==
    /\ reservation[k].status = "converted" /\ order[k].status # "none"
    /\ givenBack' = givenBack \cup {k}
    /\ UNCHANGED reservation

StaffStep(k) ==
    /\ staffOps < MaxStaffOps /\ staffOps' = staffOps + 1
    /\ \/ StaffBeginPayment(k) \/ StaffRelease(k) \/ StaffLateReview(k) \/ StaffConvert(k)
       \/ ReleaseConvertedCommitment(k)
    /\ UNCHANGED <<now, orderVars, listed, historyVars>>
-----------------------------------------------------------------------------
Tick == now < MaxTime /\ now' = now + 1
        /\ UNCHANGED <<orderVars, reservation, listed, historyVars, staffVars>>
-----------------------------------------------------------------------------
\* Ids are drawn, never chosen: the next one will do.
NextOf(set, used) == LET free == set \ used IN IF free = {} THEN {} ELSE {CHOOSE x \in free : TRUE}
NextCart == NextOf(Carts, {c \in Carts : cart[c].status # "none"})
NextCheckout == NextOf(Checkouts, {k \in Checkouts : checkout[k].status # "none"})
Recent == {t \in {now - 1, now} : t >= 0}

Sweep(k) == ExpireCheckout(k) \/ ListReservation(k) \/ ExpireReservation(k) \/ ExpireOrder(k)
Next ==
    \/ \E c \in NextCart : Create(c) \/ \E u \in Customers : CustomerAccess(u, c)
    \/ \E c \in Carts : (\E q \in 0..MaxQuantity : Edit(c, q)) \/ ExpireCart(c)
    \/ \E u \in Customers, s \in Carts : MergeGuest(u, s)
    \/ \E c \in Carts, k \in NextCheckout, apps \in SUBSET Promotions : Quote(c, k, apps)
    \/ \E k \in Checkouts :
          \/ Reserve(k) \/ (\E t \in Recent : CreateOrder(k, t))
          \/ CancelOrder(k) \/ Sweep(k) \/ StaffStep(k)
          \/ PaymentMarksLate(k) \/ PaymentConverts(k) \/ Confirm(k)
    \/ Tick

Spec == Init /\ [][Next]_vars
-----------------------------------------------------------------------------
\* The rows, with the statuses of their tables' checks.
TypeOK ==
    /\ now \in Nat
    /\ cart \in [Carts -> CartRows]
    /\ checkout \in [Checkouts -> CheckoutRows]
    /\ reservation \in [Checkouts -> ReservationRows]
    /\ redemption \in [Checkouts -> {"none", "reserved", "consumed", "released", "reversed"}]
    /\ order \in [Checkouts -> OrderRows]
    /\ {listed, straddled, late, givenBack} \subseteq SUBSET Checkouts
    /\ staffOps \in 0..MaxStaffOps

(* A reserved checkout is the only live one of its cart, and the cart still is what was *)
(* quoted, same owner and items, whatever edits, merges and sweeps have tried; until    *)
(* the checkout expires the cart is active and of the same version too, so that nothing *)
(* the customer or the clock did can make the order's commit-time checks refuse it.     *)
ReservedIsOrderable ==
    \A k \in Checkouts : checkout[k].status = "reserved" =>
       LET c == checkout[k].cart IN
       /\ cart[c].owner = checkout[k].owner /\ cart[c].items = checkout[k].items
       /\ checkout[k].expires > now => Linked(k) /\ cart[c].status = "active"
       /\ \A j \in Checkouts \ {k} : checkout[j].cart = c =>
             checkout[j].status \notin {"reserved", "order_created"}

(* Nobody has two active carts, and a cart becomes one order at most.                  *)
OneCartOneOrder ==
    /\ \A u \in Customers : Cardinality(ActiveOf(u, cart)) <= 1
    /\ \A k, j \in Checkouts :
          order[k].status # "none" /\ order[j].status # "none"
          /\ checkout[k].cart = checkout[j].cart => k = j

(* Stock is kept for somebody: a reservation that is active belongs to a reserved        *)
(* checkout, and one that waits for a payment to such a checkout or to an order that     *)
(* waits for it.                                                                         *)
StockIsOwed ==
    \A k \in Checkouts :
       /\ reservation[k].status = "active" => checkout[k].status = "reserved"
       /\ reservation[k].status = "payment_pending" =>
             checkout[k].status = "reserved" \/ order[k].status = "pending_confirmation"

(* Until its window closes, an order that waits for its payment has its stock, also when *)
(* the payment has taken it and the order is not confirmed yet.  Left out are an order   *)
(* whose transaction began before its reservation was due and ended after that, and one  *)
(* whose stock staff gave back.                                                          *)
PendingHasStock ==
    \A k \in Checkouts \ (straddled \cup givenBack) :
       order[k].status = "pending_confirmation" /\ order[k].expires > now =>
          reservation[k].status \in {"payment_pending", "converted"}

\* Checkouts and orders that have the benefit of p.
Granted(p) ==
    {k \in Checkouts : /\ p \in checkout[k].apps
                       /\ \/ checkout[k].status = "reserved"
                          \/ order[k].status \in {"pending_confirmation", "confirmed"}}

(* No promotion is granted more often than its limit, and no customer has two first-   *)
(* purchase discounts, counted by the checkouts and orders themselves and not by their *)
(* redemptions: quotes may be stale, orders may end and give their use back.  Orders   *)
(* confirmed after they had expired are left out: their redemptions stay reversed.     *)
UsageWithinLimits ==
    /\ \A p \in Promotions : Cardinality(Granted(p) \ late) <= Limit[p]
    /\ \A p, q \in FirstPurchase : \A k \in Granted(p) \ late, j \in Granted(q) \ late :
          checkout[k].owner = checkout[j].owner => k = j

(* No use of a promotion is lost: one that counts against the limit belongs to a         *)
(* checkout or an order that has the benefit, whichever way the others ended.            *)
UsesAreGranted == \A p \in Promotions : Uses(p) \subseteq Granted(p)
=============================================================================
