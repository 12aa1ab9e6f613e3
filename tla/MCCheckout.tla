----------------------------- MODULE MCCheckout -----------------------------
(* One customer, a guest's cart and the customer's, one promotion for first *)
(* purchases and one that may be used once.                                 *)
EXTENDS Checkout

CONSTANTS c1, sale, first
MCMaxVersion == [c \in Carts |-> IF c = c1 THEN 3 ELSE 2]
MCLimit == [p \in Promotions |-> IF p = sale THEN 1 ELSE 2]
MCFirst == {first}

-----------------------------------------------------------------------------
(* The view: states that differ only in what nothing will read again are one state.      *)
(* A time is compared with the clock or with the tick before it (Recent), and an end of  *)
(* a validity is only ever moved to later than now.  Carts, checkouts and orders that    *)
(* have ended do not come back; what can still happen to the reservation of an expired   *)
(* checkout or of a cancelled order is read by no property and by no step of another     *)
(* row, but that it may use up what staff do, after which everything else is as before.  *)

Past(time) == Later(time, now - 1)
Ended(k) == checkout[k].status = "expired" \/ order[k].status = "cancelled"
Waiting == {k \in Checkouts : order[k].status = "pending_confirmation"}
Reserving(c) == \E k \in Checkouts : checkout[k].cart = c /\ checkout[k].status = "reserved"
Benefits(k) == redemption[k] = "consumed" \/ order[k].status = "confirmed" \/ k \in Waiting

CartView(c) ==
    CASE cart[c].status = "active" -> [cart[c] EXCEPT !.expires = Past(@)]
      [] cart[c].status # "active" /\ Reserving(c) -> [cart[c] EXCEPT !.expires = 0]
      [] OTHER -> cart[c].status
CheckoutView(k) ==
    CASE checkout[k].status = "expired" -> "expired"
      [] checkout[k].status = "order_created" ->
            <<checkout[k].cart, checkout[k].owner,
              IF Benefits(k) THEN checkout[k].apps ELSE {}>>
      [] OTHER -> [checkout[k] EXCEPT !.expires = Past(@)]
ReservationView(k) ==
    CASE reservation[k].status \in {"active", "payment_pending"} ->
            [reservation[k] EXCEPT !.expires = Past(@)]
      [] OTHER -> IF Ended(k) THEN "ended" ELSE reservation[k].status
OrderView(k) ==
    IF k \in Waiting THEN [order[k] EXCEPT !.expires = Past(@)] ELSE order[k].status
RedemptionView(k) ==
    IF redemption[k] \in {"released", "reversed"} THEN "over" ELSE redemption[k]

\* TypeOK, always TRUE, makes TLC evaluate the rows before it compares their views.
Readable ==
    <<TypeOK, now, [c \in Carts |-> CartView(c)], [k \in Checkouts |-> CheckoutView(k)],
      [k \in Checkouts |-> ReservationView(k)], [k \in Checkouts |-> RedemptionView(k)],
      [k \in Checkouts |-> OrderView(k)], listed, straddled \cap Waiting, late,
      givenBack \cap Waiting, staffOps>>
=============================================================================
