---------------------------- MODULE Fulfillment ----------------------------
(***************************************************************************)
(* Preparing and shipping orders, on top of the stock ledger.  An order    *)
(* item is allocated from the reservation of its order, picked, put into   *)
(* shipments and handed over; the handover takes the units out of stock in *)
(* the same transaction.  The desk of the inventory module works on the    *)
(* same allocations and knows nothing of picks and shipments.              *)
(*                                                                         *)
(* Orders stay eligible (confirmed and paid) here, and each has one item.  *)
(* A shipment holds units of one allocation; its life after the handover   *)
(* (tracking) does not touch the stock and is left out.                    *)
(***************************************************************************)
EXTENDS StockLedger

CONSTANTS
    Shipments,
    OrderReservation    \* the reservation of the order, by item

ASSUME OrderAssumption == OrderReservation \in [Items -> Reservations]

VARIABLES
    progress,           \* fulfillment.allocation_progress
    shipment            \* fulfillment.shipments, with the only item

fulfillmentVars == <<progress, shipment>>
vars == <<ledgerVars, fulfillmentVars>>

ProgressRows == [exists : BOOLEAN, picked : Nat, shipped : Nat]
ShipmentRows == [status : {"none", "draft", "ready", "handed_over", "cancelled"},
                 of : Allocs \cup {None}, quantity : Nat]

Init ==
    /\ LedgerInit
    /\ progress = [a \in Allocs |-> [exists |-> FALSE, picked |-> 0, shipped |-> 0]]
    /\ shipment = [s \in Shipments |-> [status |-> "none", of |-> None, quantity |-> 0]]

InShipments(a, statuses) ==
    MapThenSumSet(LAMBDA s : shipment[s].quantity,
                  {s \in Shipments : shipment[s].of = a /\ shipment[s].status \in statuses})

(* assertLineState, run by every recalculation of an order's status: what the item's  *)
(* progress rows add up to must fit what is still allocated.                           *)
LineHolds(i) ==
    LET All(Count(_)) == MapThenSumSet(LAMBDA w : Count(<<i, w>>), Scope)
        allocated == All(LAMBDA a : IF Live(a) THEN alloc[a].quantity ELSE 0)
        picked == All(LAMBDA a : progress[a].picked)
        shipped == All(LAMBDA a : progress[a].shipped)
    IN shipped <= picked /\ picked <= allocated /\ allocated <= Ordered

(* assert_allocation_progress, at the commit of a write of the row. *)
ProgressHolds(a) ==
    /\ progress[a].picked <= alloc[a].quantity
    /\ alloc[a].status = "allocated" => progress[a].shipped = 0
    /\ alloc[a].status = "released" => progress[a].picked = 0

(* assert_shipment, at the commit of a write of a shipment of the allocation. *)
ShipmentHolds(a) ==
    /\ InShipments(a, {"draft", "ready", "handed_over"}) <= progress[a].picked
    /\ InShipments(a, {"handed_over"}) = progress[a].shipped
    /\ (progress[a].shipped = alloc[a].quantity) = (alloc[a].status = "shipped")
-----------------------------------------------------------------------------
Allocate(i, w, q) ==
    /\ AllocateReserved(i, w, q, OrderReservation[i])
    /\ progress' = [progress EXCEPT ![<<i, w>>].exists = TRUE]
    /\ UNCHANGED shipment
    /\ LineHolds(i)'

\* The allocation becomes picked with the last of its units.
Pick(a, q) ==
    /\ progress[a].exists /\ alloc[a].status \in {"allocated", "picked"}
    /\ progress[a].picked + q <= alloc[a].quantity
    /\ progress' = [progress EXCEPT ![a].picked = @ + q]
    /\ alloc' = [alloc EXCEPT ![a].status =
                    IF progress'[a].picked = alloc[a].quantity THEN "picked" ELSE @]
    /\ UNCHANGED <<stockVars, reservation, transfer, consumed, shipment>>
    /\ ProgressHolds(a)' /\ LineHolds(a[1])'

\* Units already in a draft shipment can be unpicked; the handover will refuse it.
Unpick(a, q) ==
    /\ progress[a].exists /\ alloc[a].status \in {"allocated", "picked"}
    /\ progress[a].picked - q >= progress[a].shipped
    /\ progress' = [progress EXCEPT ![a].picked = @ - q]
    /\ alloc' = [alloc EXCEPT ![a].status =
                    IF progress[a].shipped = 0 /\ progress'[a].picked < alloc[a].quantity
                    THEN "allocated" ELSE @]
    /\ UNCHANGED <<stockVars, reservation, transfer, consumed, shipment>>
    /\ ProgressHolds(a)' /\ LineHolds(a[1])'

\* shipmentCandidates: picked, not shipped, not in another open shipment.
CreateShipment(s, a, q) ==
    /\ shipment[s].status = "none" /\ progress[a].exists
    /\ q <= progress[a].picked - progress[a].shipped - InShipments(a, {"draft", "ready"})
    /\ shipment' = [shipment EXCEPT ![s] = [status |-> "draft", of |-> a, quantity |-> q]]
    /\ UNCHANGED <<ledgerVars, progress>>
    /\ ShipmentHolds(a)' /\ LineHolds(a[1])'

MarkReady(s) ==
    /\ shipment[s].status = "draft"
    /\ shipment' = [shipment EXCEPT ![s].status = "ready"]
    /\ UNCHANGED <<ledgerVars, progress>>
    /\ ShipmentHolds(shipment[s].of)'

CancelShipment(s) ==
    /\ shipment[s].status \in {"draft", "ready"}
    /\ shipment' = [shipment EXCEPT ![s].status = "cancelled"]
    /\ UNCHANGED <<ledgerVars, progress>>
    /\ ShipmentHolds(shipment[s].of)'

Handover(s) ==
    LET a == shipment[s].of  q == shipment[s].quantity IN
    /\ shipment[s].status = "ready"
    /\ progress[a].shipped + q <= progress[a].picked
    /\ progress' = [progress EXCEPT ![a].shipped = @ + q]
    /\ ConsumeForShipment(a, q, progress'[a].shipped = alloc[a].quantity)
    /\ shipment' = [shipment EXCEPT ![s].status = "handed_over"]
    /\ ProgressHolds(a)' /\ ShipmentHolds(a)' /\ LineHolds(a[1])'
-----------------------------------------------------------------------------
FulfillmentStep ==
    \/ \E i \in Items, w \in Scope, q \in Quantities : Allocate(i, w, q)
    \/ \E a \in Allocs, q \in Quantities : Pick(a, q) \/ Unpick(a, q)
    \/ \E s \in Shipments :
          \/ \E a \in Allocs, q \in Quantities : CreateShipment(s, a, q)
          \/ MarkReady(s)
          \/ CancelShipment(s)
          \/ Handover(s)

Next == (LedgerStep /\ UNCHANGED fulfillmentVars) \/ FulfillmentStep

Spec == Init /\ [][Next]_vars
-----------------------------------------------------------------------------
TypeOK ==
    /\ LedgerTypeOK
    /\ progress \in [Allocs -> ProgressRows]
    /\ shipment \in [Shipments -> ShipmentRows]

(* What is reserved, allocated or set aside in a warehouse is there, and every unit    *)
(* of it has a cost layer, so no handover is refused for want of one.                  *)
CostFollowsStock ==
    \A w \in Warehouses :
       /\ layers[w].sellable = bal[w].onHand - bal[w].damaged - bal[w].quarantine
       /\ layers[w].damaged = bal[w].damaged
       /\ layers[w].quarantine = bal[w].quarantine
       /\ bal[w].reserved + bal[w].allocated <= layers[w].sellable

CommittedAt(w) == [r \in Reservations |-> IF reservation[r].warehouse = w THEN Commitment(r) ELSE 0]

(* The reserved column is what the reservations of the warehouse still commit, through *)
(* expiry, late payment, partial allocation and allocations given back.                *)
ReservedIsCommitted ==
    \A w \in Warehouses : bal[w].reserved = SumFunctionOnSet(CommittedAt(w), Reservations)

(* A shipment of part of an allocation takes its units out of the allocated column; if  *)
(* the inventory desk then releases or consumes the allocation, it gives back, or       *)
(* takes, the whole quantity once more.                                                 *)
ClosedTwice(a) ==
    /\ alloc[a].status \in {"released", "shipped"}
    /\ 0 < progress[a].shipped /\ progress[a].shipped < alloc[a].quantity
Left(a) == CASE alloc[a].status = "shipped" -> alloc[a].quantity
             [] alloc[a].status \in {"allocated", "picked"} -> progress[a].shipped
             [] OTHER -> 0

Holding(a) == alloc[a].status \in {"allocated", "picked"}
HeldAt(w) == [i \in Items |-> IF Holding(<<i, w>>)
                             THEN alloc[<<i, w>>].quantity - Left(<<i, w>>) ELSE 0]
LeftFor(i) == [w \in Scope |-> Left(<<i, w>>)]

(* As long as that has not happened, the allocated column is what the open allocations  *)
(* still hold, and the consumptions of an order item are the units that left for it,    *)
(* never more than were ordered.                                                        *)
AllocatedIsHeld ==
    (\E a \in Allocs : ClosedTwice(a)) \/
    /\ \A w \in Scope : bal[w].allocated = SumFunctionOnSet(HeldAt(w), Items)
    /\ \A i \in Items :
          /\ consumed[i] = SumFunctionOnSet(LeftFor(i), Scope)
          /\ consumed[i] <= Ordered

(* Only a count, a receipt, a return to the supplier, a disposal or a sale over the     *)
(* counter changes how many units there are; every other step, a transfer in two        *)
(* halves and a shipment in parts included, keeps the units on hand, under way and      *)
(* consumed by orders.                                                                  *)
UnitsAreConserved ==
    [][KeepPromises \/ Units' + Sold' = Units + Sold]_vars
=============================================================================
