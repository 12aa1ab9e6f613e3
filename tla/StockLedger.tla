---------------------------- MODULE StockLedger ----------------------------
(***************************************************************************)
(* The stock of one variant: a balance per warehouse, the cost layers that *)
(* carry what its units cost, and the reservations, allocations and        *)
(* transfers that promise or move units.  Every operation is one database  *)
(* transaction that locks the balance it changes, hence one action; what   *)
(* interleaves are the operations.                                         *)
(*                                                                         *)
(* A reservation is a row of inventory.reservation_items with the status   *)
(* of its reservation.  An allocation is named by its order item and its   *)
(* warehouse, which are unique together: once released or shipped, the     *)
(* pair is not allocated again.                                            *)
(***************************************************************************)
EXTENDS Integers, FiniteSetsExt

CONSTANTS
    Warehouses, Reservations, Items, Transfers,
    Scope,          \* the warehouses in the scope of the staff who allocate (ScopePolicy)
    None,           \* no reservation
    Opening,        \* units on hand at first, by warehouse
    Protected,      \* percent of the free stock kept off line, by warehouse
    Ordered,        \* quantity of every order item
    MaxTransfer,    \* bound: units of a transfer
    MaxUnits,       \* bound: units on hand, under way and consumed, all together
    MaxAside        \* bound: units damaged or in quarantine, all together

ASSUME FiniteAssumption ==
    /\ IsFiniteSet(Warehouses) /\ Warehouses # {}
    /\ IsFiniteSet(Reservations) /\ IsFiniteSet(Items) /\ IsFiniteSet(Transfers)
ASSUME LedgerAssumption ==
    /\ None \notin Reservations
    /\ Scope \subseteq Warehouses
    /\ Opening \in [Warehouses -> Nat]
    /\ Protected \in [Warehouses -> 0..100]
    /\ Ordered \in Nat \ {0}
    /\ MaxTransfer \in Nat /\ MaxUnits \in Nat /\ MaxAside \in Nat

VARIABLES
    bal,            \* inventory.stock_balances
    layers,         \* remaining units of inventory.cost_layers, by stock_bucket
    reservation,    \* inventory.reservations, with the only item
    alloc,          \* inventory.allocations, by order item and warehouse
    transfer,       \* inventory.transfers, with the only item
    consumed        \* units of inventory.cost_layer_consumptions, by order item

stockVars == <<bal, layers>>
ledgerVars == <<stockVars, reservation, alloc, transfer, consumed>>

Allocs == Items \X Scope
Quantities == 1..Ordered
Open == {"active", "payment_pending", "late_payment_review"}

Balances == [onHand : Nat, reserved : Nat, allocated : Nat, damaged : Nat, quarantine : Nat]
Layers == [sellable : Nat, damaged : Nat, quarantine : Nat]
ReservationRows ==
    [status : Open \cup {"none", "converted", "released", "expired"},
     warehouse : Warehouses, quantity : Nat, allocated : Nat, released : Nat]
AllocRows == [status : {"none", "allocated", "picked", "shipped", "released"},
              quantity : Nat, from : Reservations \cup {None}]
TransferRows == [status : {"none", "draft", "approved", "shipped", "received", "cancelled"},
                 source : Warehouses, destination : Warehouses, quantity : Nat]

LedgerTypeOK ==
    /\ bal \in [Warehouses -> Balances]
    /\ layers \in [Warehouses -> Layers]
    /\ reservation \in [Reservations -> ReservationRows]
    /\ \A r \in Reservations :
          reservation[r].allocated + reservation[r].released <= reservation[r].quantity
    /\ alloc \in [Allocs -> AllocRows]
    /\ transfer \in [Transfers -> TransferRows]
    /\ consumed \in [Items -> Nat]

SomeWarehouse == CHOOSE w \in Warehouses : TRUE

LedgerInit ==
    /\ bal = [w \in Warehouses |-> [onHand |-> Opening[w], reserved |-> 0, allocated |-> 0,
                                    damaged |-> 0, quarantine |-> 0]]
    /\ layers = [w \in Warehouses |-> [sellable |-> Opening[w], damaged |-> 0, quarantine |-> 0]]
    /\ reservation = [r \in Reservations |-> [status |-> "none", warehouse |-> SomeWarehouse,
                                              quantity |-> 0, allocated |-> 0, released |-> 0]]
    /\ alloc = [a \in Allocs |-> [status |-> "none", quantity |-> 0, from |-> None]]
    /\ transfer = [t \in Transfers |-> [status |-> "none", source |-> SomeWarehouse,
                                        destination |-> SomeWarehouse, quantity |-> 0]]
    /\ consumed = [i \in Items |-> 0]
-----------------------------------------------------------------------------
(* Stock. *)

Encumbered(b) == b.reserved + b.allocated + b.damaged + b.quarantine
\* physicalAvailable: never negative, as Encumbered(b) <= b.onHand.
Available(w) == bal[w].onHand - Encumbered(bal[w])
CeilDiv(n, d) == (n + d - 1) \div d
OnlineSellable(w) == Available(w) - CeilDiv(Available(w) * Protected[w], 100)

UnderWay == [t \in Transfers |-> IF transfer[t].status = "shipped"
                                THEN transfer[t].quantity ELSE 0]
OnHand == [w \in Warehouses |-> bal[w].onHand]
Units == SumFunctionOnSet(UnderWay, Transfers) + SumFunctionOnSet(OnHand, Warehouses)
Aside == SumFunctionOnSet([w \in Warehouses |-> bal[w].damaged + bal[w].quarantine], Warehouses)
Sold == SumFunctionOnSet(consumed, Items)

\* Mutant: stock_balances without ck_stock_components_not_exceed_on_hand.
CheckedColumnsOnly(b) == b \in Balances
\* The CHECK constraints of inventory.stock_balances; a violation rolls back.
Checked(b) == b \in Balances /\ Encumbered(b) <= b.onHand
Book(w, b) == bal' = [bal EXCEPT ![w] = b] /\ Checked(b)

\* fifoLayers, consumeFifo and consumeLayer; which layer pays is left out.
TakeSellable(w, q) ==
    /\ q <= layers[w].sellable
    /\ layers' = [layers EXCEPT ![w].sellable = @ - q]
AddSellable(w, q) == layers' = [layers EXCEPT ![w].sellable = @ + q]

\* Stock leaves by one of the buckets set aside, or comes back from it.
MoveAside(w, bucket, q) ==
    /\ q <= layers[w].sellable
    /\ IF bucket = "damaged"
       THEN layers' = [layers EXCEPT ![w].sellable = @ - q, ![w].damaged = @ + q]
       ELSE layers' = [layers EXCEPT ![w].sellable = @ - q, ![w].quarantine = @ + q]
TakeAside(w, bucket, q) ==
    IF bucket = "damaged"
    THEN /\ q <= layers[w].damaged
         /\ layers' = [layers EXCEPT ![w].damaged = @ - q]
    ELSE /\ q <= layers[w].quarantine
         /\ layers' = [layers EXCEPT ![w].quarantine = @ - q]

KeepPromises == UNCHANGED <<reservation, alloc, transfer, consumed>>

\* adjust, "damage" and "quarantine".
SetAside(w, bucket, q) ==
    /\ q <= Available(w) /\ Aside + q <= MaxAside
    /\ MoveAside(w, bucket, q)
    /\ Book(w, IF bucket = "damaged" THEN [bal[w] EXCEPT !.damaged = @ + q]
                                     ELSE [bal[w] EXCEPT !.quarantine = @ + q])
    /\ KeepPromises
\* adjust, "quarantine_release".
ReleaseQuarantine(w, q) ==
    /\ q <= bal[w].quarantine
    /\ q <= layers[w].quarantine
    /\ layers' = [layers EXCEPT ![w].quarantine = @ - q, ![w].sellable = @ + q]
    /\ Book(w, [bal[w] EXCEPT !.quarantine = @ - q])
    /\ KeepPromises
\* adjust, "damaged_disposal"; returnToSupplier of a bucket set aside.
RemoveAside(w, bucket, q) ==
    /\ TakeAside(w, bucket, q)
    /\ IF bucket = "damaged"
       THEN q <= bal[w].damaged /\ Book(w, [bal[w] EXCEPT !.onHand = @ - q, !.damaged = @ - q])
       ELSE q <= bal[w].quarantine
            /\ Book(w, [bal[w] EXCEPT !.onHand = @ - q, !.quarantine = @ - q])
    /\ KeepPromises
\* adjust by a count, downwards; returnToSupplier of sellable stock; a sale over the
\* counter (consumePhysicalSale).  All three spare what is promised or set aside.
RemoveFree(w, q) ==
    /\ q <= Available(w)
    /\ TakeSellable(w, q)
    /\ Book(w, [bal[w] EXCEPT !.onHand = @ - q])
    /\ KeepPromises
\* adjust by a count, upwards; receiveGoods, of which q units go to quarantine.
ReceiveGoods(w, accepted, q) ==
    /\ Aside + q <= MaxAside /\ Units + Sold + accepted + q <= MaxUnits
    /\ layers' = [layers EXCEPT ![w].sellable = @ + accepted, ![w].quarantine = @ + q]
    /\ Book(w, [bal[w] EXCEPT !.onHand = @ + accepted + q, !.quarantine = @ + q])
    /\ KeepPromises
-----------------------------------------------------------------------------
(* Reservations. *)

Commitment(r) == reservation[r].quantity - reservation[r].allocated - reservation[r].released
KeepRest == UNCHANGED <<layers, alloc, transfer, consumed>>

Reserve(r, w, q) ==
    /\ reservation[r].status = "none"
    /\ q <= OnlineSellable(w)
    /\ reservation' = [reservation EXCEPT ![r] = [status |-> "active", warehouse |-> w,
                            quantity |-> q, allocated |-> 0, released |-> 0]]
    /\ Book(w, [bal[w] EXCEPT !.reserved = @ + q])
    /\ KeepRest
\* beginPayment; attachOrder sets the same status.
BeginPayment(r) ==
    /\ reservation[r].status = "active"
    /\ reservation' = [reservation EXCEPT ![r].status = "payment_pending"]
    /\ UNCHANGED bal /\ KeepRest

\* Mutant: released_quantity is set to the whole quantity, what was allocated included.
GiveUpWhole(r, to) ==
    /\ bal[reservation[r].warehouse].reserved >= Commitment(r)
    /\ reservation' = [reservation EXCEPT ![r].status = to, ![r].released = reservation[r].quantity]
    /\ Book(reservation[r].warehouse,
            [bal[reservation[r].warehouse] EXCEPT !.reserved = @ - Commitment(r)])
    /\ KeepRest
\* What the reservation still commits goes back to the free stock.
GiveUp(r, to) ==
    /\ bal[reservation[r].warehouse].reserved >= Commitment(r)
    /\ reservation' = [reservation EXCEPT ![r].status = to, ![r].released = @ + Commitment(r)]
    /\ Book(reservation[r].warehouse,
            [bal[reservation[r].warehouse] EXCEPT !.reserved = @ - Commitment(r)])
    /\ KeepRest
Release(r, to) == reservation[r].status \in Open /\ GiveUp(r, to)
ReleaseConvertedCommitment(r) ==
    /\ reservation[r].status = "converted" /\ Commitment(r) > 0
    /\ GiveUp(r, "converted")
MarkLatePaymentReview(r) ==
    /\ reservation[r].status = "expired"
    /\ reservation' = [reservation EXCEPT ![r].status = "late_payment_review"]
    /\ UNCHANGED bal /\ KeepRest

\* Mutant: a late payment revives the reservation without taking the stock again.
ConvertAnyway(r) ==
    /\ reservation[r].status \in Open
    /\ reservation' = [reservation EXCEPT ![r].status = "converted", ![r].released = 0]
    /\ UNCHANGED bal /\ KeepRest
Convert(r) ==
    LET w == reservation[r].warehouse
        again == IF reservation[r].status = "late_payment_review"
                 THEN reservation[r].released ELSE 0
    IN
    /\ reservation[r].status \in Open
    /\ again > 0 => again <= OnlineSellable(w)
    /\ reservation' = [reservation EXCEPT ![r].status = "converted", ![r].released = @ - again]
    /\ Book(w, [bal[w] EXCEPT !.reserved = @ + again])
    /\ reservation'[r].quantity - reservation[r].allocated - reservation'[r].released
          <= bal'[w].reserved
    /\ KeepRest
-----------------------------------------------------------------------------
(* Allocations. *)

Live(a) == alloc[a].status \in {"allocated", "picked", "shipped"}
\* assert_inventory_allocation, deferred to the commit.
AllocatedFor(i) == [w \in Scope |-> IF Live(<<i, w>>) THEN alloc[<<i, w>>].quantity ELSE 0]
WithinOrder(i, w, q) == q + SumFunctionOnSet(AllocatedFor(i), Scope \ {w}) <= Ordered
CreateAllocation(i, w, q, r) ==
    /\ alloc[<<i, w>>].status = "none" /\ WithinOrder(i, w, q)
    /\ alloc' = [alloc EXCEPT ![<<i, w>>] = [status |-> "allocated", quantity |-> q, from |-> r]]
    /\ UNCHANGED <<layers, transfer, consumed>>

\* addReservationAllocated takes only what is neither allocated nor released yet.
AllocateReserved(i, w, q, r) ==
    /\ reservation[r].status = "converted" /\ reservation[r].warehouse = w
    /\ q <= Commitment(r) /\ q <= bal[w].reserved
    /\ reservation' = [reservation EXCEPT ![r].allocated = @ + q]
    /\ Book(w, [bal[w] EXCEPT !.reserved = @ - q, !.allocated = @ + q])
    /\ CreateAllocation(i, w, q, r)
AllocateFree(i, w, q) ==
    /\ q <= Available(w)
    /\ Book(w, [bal[w] EXCEPT !.allocated = @ + q])
    /\ CreateAllocation(i, w, q, None)
    /\ UNCHANGED reservation

ChangeAllocation(a, from, to) ==
    /\ alloc[a].status = from
    /\ alloc' = [alloc EXCEPT ![a].status = to]
    /\ UNCHANGED <<stockVars, reservation, transfer, consumed>>

\* Mutant: an allocation already shipped can be released.
ReleaseShipped(a) ==
    LET w == a[2]  q == alloc[a].quantity  r == alloc[a].from
        back == r # None /\ reservation[r].status = "converted"
    IN
    /\ alloc[a].status \in {"allocated", "picked", "shipped"}
    /\ back => q <= reservation[r].allocated
    /\ reservation' = IF back THEN [reservation EXCEPT ![r].allocated = @ - q] ELSE reservation
    /\ Book(w, [bal[w] EXCEPT !.allocated = @ - q, !.reserved = @ + IF back THEN q ELSE 0])
    /\ alloc' = [alloc EXCEPT ![a].status = "released"]
    /\ UNCHANGED <<layers, transfer, consumed>>
\* The whole quantity goes back, to the reservation it came from or to the free stock.
ReleaseAllocation(a) ==
    LET w == a[2]  q == alloc[a].quantity  r == alloc[a].from
        back == r # None /\ reservation[r].status = "converted"
    IN
    /\ alloc[a].status \in {"allocated", "picked"}
    /\ back => q <= reservation[r].allocated
    /\ reservation' = IF back THEN [reservation EXCEPT ![r].allocated = @ - q] ELSE reservation
    /\ Book(w, [bal[w] EXCEPT !.allocated = @ - q, !.reserved = @ + IF back THEN q ELSE 0])
    /\ alloc' = [alloc EXCEPT ![a].status = "released"]
    /\ UNCHANGED <<layers, transfer, consumed>>

TakeAllocated(a, q) ==
    /\ q <= bal[a[2]].allocated
    /\ TakeSellable(a[2], q)
    /\ Book(a[2], [bal[a[2]] EXCEPT !.onHand = @ - q, !.allocated = @ - q])
    /\ consumed' = [consumed EXCEPT ![a[1]] = @ + q]
    /\ UNCHANGED <<reservation, transfer>>
ConsumeForSale(a) ==
    /\ alloc[a].status = "picked"
    /\ TakeAllocated(a, alloc[a].quantity)
    /\ alloc' = [alloc EXCEPT ![a].status = "shipped"]
\* Called by the handover of a shipment, in its transaction.
ConsumeForShipment(a, q, complete) ==
    /\ alloc[a].status \in {"allocated", "picked"}
    /\ TakeAllocated(a, q)
    /\ alloc' = [alloc EXCEPT ![a].status = IF complete THEN "shipped" ELSE @]
-----------------------------------------------------------------------------
(* Transfers. *)

SetTransfer(t, from, to) ==
    /\ transfer[t].status \in from
    /\ transfer' = [transfer EXCEPT ![t].status = to]
    /\ UNCHANGED <<reservation, alloc, consumed>>

CreateTransfer(t, from, to, q) ==
    /\ from # to /\ transfer[t].status = "none"
    /\ transfer' = [transfer EXCEPT ![t] = [status |-> "draft", source |-> from,
                                            destination |-> to, quantity |-> q]]
    /\ UNCHANGED <<stockVars, reservation, alloc, consumed>>
\* Approval looks at the stock and reserves nothing.
ApproveTransfer(t) ==
    /\ transfer[t].quantity <= Available(transfer[t].source)
    /\ SetTransfer(t, {"draft"}, "approved")
    /\ UNCHANGED stockVars
\* Mutant: goods under way are cancelled, and forgotten.
CancelShipped(t) == SetTransfer(t, {"draft", "approved", "shipped"}, "cancelled") /\ UNCHANGED stockVars
CancelTransfer(t) == SetTransfer(t, {"draft", "approved"}, "cancelled") /\ UNCHANGED stockVars

\* Shipping does not look again: cost layers and the CHECK of the balance are all that
\* stand between an old approval and stock promised since.
ShipTransfer(t) ==
    LET w == transfer[t].source  q == transfer[t].quantity IN
    /\ SetTransfer(t, {"approved"}, "shipped")
    /\ TakeSellable(w, q)
    /\ Book(w, [bal[w] EXCEPT !.onHand = @ - q])
ReceiveTransfer(t) ==
    LET w == transfer[t].destination  q == transfer[t].quantity IN
    /\ SetTransfer(t, {"shipped"}, "received")
    /\ AddSellable(w, q)
    /\ Book(w, [bal[w] EXCEPT !.onHand = @ + q])
-----------------------------------------------------------------------------
StockStep ==
    \E w \in Warehouses, q \in Quantities :
       \/ \E bucket \in {"damaged", "quarantine"} : SetAside(w, bucket, q) \/ RemoveAside(w, bucket, q)
       \/ ReleaseQuarantine(w, q)
       \/ RemoveFree(w, q)
       \/ ReceiveGoods(w, q, 0)
       \/ ReceiveGoods(w, 0, q)

ReservationStep ==
    \E r \in Reservations :
       \/ \E w \in Warehouses, q \in Quantities : Reserve(r, w, q)
       \/ BeginPayment(r)
       \/ \E to \in {"released", "expired"} : Release(r, to)
       \/ ReleaseConvertedCommitment(r)
       \/ MarkLatePaymentReview(r)
       \/ Convert(r)

AllocationStep ==
    \/ \E i \in Items, w \in Scope, q \in Quantities :
          \/ AllocateFree(i, w, q)
          \/ \E r \in Reservations : AllocateReserved(i, w, q, r)
    \/ \E a \in Allocs :
          \/ ChangeAllocation(a, "allocated", "picked")
          \/ ChangeAllocation(a, "picked", "allocated")
          \/ ReleaseAllocation(a)
          \/ ConsumeForSale(a)

TransferStep ==
    \E t \in Transfers :
       \/ \E from, to \in Warehouses, q \in 1..MaxTransfer : CreateTransfer(t, from, to, q)
       \/ ApproveTransfer(t)
       \/ CancelTransfer(t)
       \/ ShipTransfer(t)
       \/ ReceiveTransfer(t)

LedgerStep == StockStep \/ ReservationStep \/ AllocationStep \/ TransferStep
=============================================================================
