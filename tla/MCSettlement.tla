---------------------------- MODULE MCSettlement ----------------------------
(* One contested order, two payment attempts, two processes. *)
EXTENDS Settlement, TLC

CONSTANTS o1, p1, p2, w1, w2

MCOrders == {o1}
MCPayments == {p1, p2}
MCOrderOf == [p \in MCPayments |-> o1]
MCOnePayment == {p1}
MCOrderOfOne == [p \in MCOnePayment |-> o1]
MCWorkers == {w1, w2}
\* What the two safety runs distinguish: not what the customer is shown (projection and
\* projected, which only decide what is shown next), nor how often a payment has been
\* reviewed (with MaxReconcile = 1 every review is the last).
Decisions == <<orderStatus, settlement, windowOpen, stockVars, pay, authority, recon, manual,
               refund, lease, session, job, boundVars>>
Symmetry == Permutations(MCPayments) \cup Permutations(MCWorkers)
=============================================================================
