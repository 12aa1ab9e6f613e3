----------------------------- MODULE OrderDeal -----------------------------
(***************************************************************************)
(* What the shop promises about an order and the money paid for it, with   *)
(* no jobs, leases, reservations or retries: an order is sold to at most   *)
(* one payment or called off, for good; a payment that came in is kept by  *)
(* the order it bought or owed back to the customer; and only the staff    *)
(* return money an order has kept.                                         *)
(***************************************************************************)
CONSTANTS Orders, Payments, OrderOf, None

VARIABLES
    outcome,    \* [Orders -> {"open", "sold", "void"}]
    buyer,      \* the payment that bought the order
    money       \* [Payments -> {"none", "kept", "owed", "returned"}]

deal == <<outcome, buyer, money>>

Init ==
    /\ outcome = [o \in Orders |-> "open"]
    /\ buyer = [o \in Orders |-> None]
    /\ money = [p \in Payments |-> "none"]

Sell(p) ==
    LET o == OrderOf[p] IN
    /\ outcome[o] = "open" /\ money[p] = "none"
    /\ outcome' = [outcome EXCEPT ![o] = "sold"]
    /\ buyer' = [buyer EXCEPT ![o] = p]
    /\ money' = [money EXCEPT ![p] = "kept"]

Owe(p) ==
    /\ money[p] = "none"
    /\ money' = [money EXCEPT ![p] = "owed"]
    /\ UNCHANGED <<outcome, buyer>>

Return(p) ==
    /\ money[p] = "kept"
    /\ money' = [money EXCEPT ![p] = "returned"]
    /\ UNCHANGED <<outcome, buyer>>

CallOff(o) ==
    /\ outcome[o] = "open"
    /\ outcome' = [outcome EXCEPT ![o] = "void"]
    /\ UNCHANGED <<buyer, money>>

Next ==
    \/ \E p \in Payments : Sell(p) \/ Owe(p) \/ Return(p)
    \/ \E o \in Orders : CallOff(o)

Spec == Init /\ [][Next]_deal
=============================================================================
