--------------------------- MODULE MCFulfillment ----------------------------
(* Two orders for the same variant, two warehouses, one transfer between them. *)
EXTENDS Fulfillment, TLC

CONSTANTS w1, w2, r1, r2, i1, i2, t1, s1, s2

MCWarehouses == {w1, w2}
MCReservations == {r1}
MCItems == {i1, i2}
MCScope == {w1}
MCTransfers == {t1}
MCShipments == {s1, s2}
MCOpening == (w1 :> 2) @@ (w2 :> 0)
MCProtected == (w1 :> 0) @@ (w2 :> 20)
MCOrderReservation == [i \in MCItems |-> r1]
Symmetry == Permutations(MCItems) \cup Permutations(MCShipments)
=============================================================================
