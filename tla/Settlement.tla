----------------------------- MODULE Settlement -----------------------------
(***************************************************************************)
(* How a payment settles an order: the payment service, the order columns  *)
(* it drives through OrderPaymentService, the stock reservation of the     *)
(* order, and the gateway.  Every database transaction (READ COMMITTED)    *)
(* and every provider call is one action; a request that runs several of   *)
(* them is a job whose "pc" names the next one, so other requests, sweeps, *)
(* customers and crashes interleave between any two of them.               *)
(*                                                                         *)
(* The reservation of an order stands for one unit of stock and every      *)
(* refund of this module is of the whole amount.                           *)
(***************************************************************************)
EXTENDS Naturals

CONSTANTS
    Orders, Payments, Workers,
    OrderOf,        \* the order a payment is opened for
    None,           \* the null id
    MaxReconcile,   \* PAYMENT_RECONCILIATION_MAX_ATTEMPTS
    SlowWorkers,    \* TRUE: a job may outlive its two-minute provider lease
    MaxStock,       \* bound: stock is brought back up to this level
    MaxCrashes,     \* bound: processes lost
    MaxRequests,    \* bound: callbacks, verify calls and admin reconciles
    MaxStaffOps     \* bound: operations of staff on reservations

ASSUME OrderOfAssumption == OrderOf \in [Payments -> Orders]
ASSUME NoneAssumption == None \notin Orders \cup Payments \cup Workers
ASSUME BoundsAssumption ==
    /\ MaxReconcile \in Nat \ {0}
    /\ {MaxStock, MaxCrashes, MaxRequests, MaxStaffOps} \subseteq Nat
    /\ SlowWorkers \in BOOLEAN

VARIABLES
    orderStatus, projection, projected, settlement, windowOpen,  \* orders.orders
    reservation, held, sellable, listed,                         \* inventory
    givenBack,      \* history: orders whose converted unit staff have given back
    pay, authority, recon, attempts, manual, refund, lease,      \* payments.*
    session,                                                     \* the gateway
    job,                                                         \* running requests
    crashes, requests, staffOps                                  \* bounds

orderVars   == <<orderStatus, projection, projected, settlement, windowOpen>>
stockVars   == <<reservation, held, sellable, listed, givenBack>>
reviewVars  == <<recon, attempts, manual>>
payVars     == <<pay, authority, reviewVars, refund>>
boundVars   == <<crashes, requests, staffOps>>
vars == <<orderVars, stockVars, payVars, lease, session, job, boundVars>>

OrderStatuses == {"pending_confirmation", "confirmed", "cancelled", "expired"}
Projections == {"unpaid", "pending", "paid", "refund_required", "refunded"}
ReservationStatuses ==
    {"payment_pending", "late_payment_review", "converted", "released", "expired", "cancelled"}
PaymentStatuses == {"none", "initiating", "pending", "unknown", "failed", "paid",
                    "late_received", "refund_required", "refunded"}
Reasons == {"cancelled_order_payment", "duplicate_order_payment",
            "late_payment_stock_unavailable"}
Sessions == {"none", "open", "captured", "closed", "reversed"}
Kinds == {"none", "verify", "reconcile"}
Steps == {"idle", "insert", "call", "store", "lease", "ask", "apply_pending",
          "apply_failed", "claim", "compensate", "assess", "mark_late", "convert",
          "stock_refund", "confirm", "review", "review_write"}

\* Statuses the in-flight unique index covers, and those a provider result may leave.
InFlight   == {"initiating", "pending", "unknown"}
\* Mutant: a payment that is being refunded is still taken for unsettled.
UnsettledOrOwed == InFlight \cup {"failed", "refund_required"}
Unsettled  == InFlight \cup {"failed"}
Kept       == {"paid", "late_received"}
Terminal   == Kept \cup {"refund_required", "refunded"}

\* A running request: what it does next, for which payment, and what it has read and
\* will still use (a field goes back to its Idle value once nothing depends on it).
Jobs == [pc : Steps, pay : Payments \cup {None}, kind : Kinds,
         seen : OrderStatuses \cup {"none"}, late : BOOLEAN,
         permanent : BOOLEAN, terminal : BOOLEAN, n : 0..MaxReconcile]
Started(pc, p, kind) ==
    [pc |-> pc, pay |-> p, kind |-> kind, seen |-> "none", late |-> FALSE,
     permanent |-> FALSE, terminal |-> FALSE, n |-> 0]
Idle == Started("idle", None, "none")

Goto(w, pc) == job' = [job EXCEPT ![w].pc = pc]
\* An error caught by checkProvider or initiate: schedulePaymentReview comes next.
ToReview(w, permanent) ==
    job' = [job EXCEPT ![w] = [Started("review", @.pay, "none")
                                 EXCEPT !.permanent = permanent]]
\* The request is over; the finally of withProviderLease clears its own token only.
Finish(w) ==
    /\ job' = [job EXCEPT ![w] = Idle]
    /\ lease' = [p \in Payments |->
                    IF p = job[w].pay /\ lease[p] = w THEN None ELSE lease[p]]

At(w, pc) == job[w].pc = pc
Pay(w) == job[w].pay
OrderOfJob(w) == OrderOf[job[w].pay]

Init ==
    /\ orderStatus = [o \in Orders |-> "pending_confirmation"]
    /\ projection = [o \in Orders |-> "unpaid"]
    /\ projected = [o \in Orders |-> None]
    /\ settlement = [o \in Orders |-> None]
    /\ windowOpen = [o \in Orders |-> TRUE]
    /\ reservation = [o \in Orders |-> "payment_pending"]
    /\ held = [o \in Orders |-> TRUE]
    /\ sellable = 0
    /\ listed = {} /\ givenBack = {}
    /\ pay = [p \in Payments |-> "none"]
    /\ authority = [p \in Payments |-> FALSE]
    /\ recon = [p \in Payments |-> FALSE]
    /\ attempts = [p \in Payments |-> 0]
    /\ manual = [p \in Payments |-> FALSE]
    /\ refund = [p \in Payments |-> "none"]
    /\ lease = [p \in Payments |-> None]
    /\ session = [p \in Payments |-> "none"]
    /\ job = [w \in Workers |-> Idle]
    /\ crashes = 0
    /\ requests = 0 /\ staffOps = 0
-----------------------------------------------------------------------------
(* Helpers of the order and inventory ports. *)

\* markPaymentState: the payment the customer is shown, whatever the order's state.
MarkPaymentState(o, state, p) ==
    /\ projection' = [projection EXCEPT ![o] = state]
    /\ projected' = [projected EXCEPT ![o] = p]

\* Mutant: the release does not stop at a converted reservation.
AllReleasable == {"payment_pending", "late_payment_review", "converted"}
\* releaseInTransaction: nothing unless the commitment is still open.
Releasable == {"payment_pending", "late_payment_review"}
Release(o, target) ==
    IF reservation[o] \in Releasable
      THEN /\ reservation' = [reservation EXCEPT ![o] = target]
           /\ held' = [held EXCEPT ![o] = FALSE]
           /\ sellable' = IF held[o] THEN sellable + 1 ELSE sellable
      ELSE UNCHANGED <<reservation, held, sellable>>

\* markLatePaymentReview: any reservation that is not expired is an error.
Reviewable(o) == reservation[o] \in {"expired", "late_payment_review"}
MarkLatePaymentReview(o) ==
    /\ Reviewable(o)
    /\ reservation' = [reservation EXCEPT ![o] = "late_payment_review"]

InStock == sellable > 0
\* convert: idempotent; a late reservation takes its released unit back or fails.
Reclaims(o) == reservation[o] = "late_payment_review" /\ ~held[o]
Convertible(o) ==
    /\ reservation[o] \in Releasable \cup {"converted"}
    /\ Reclaims(o) => InStock
ConvertReservation(o) ==
    /\ Convertible(o)
    /\ reservation' = [reservation EXCEPT ![o] = "converted"]
    /\ held' = [held EXCEPT ![o] = @ \/ Reclaims(o)]
    /\ sellable' = IF Reclaims(o) THEN sellable - 1 ELSE sellable

\* createCompensatingRefund: one live refund per payment and reason.  A second full
\* refund breaks the deferred cap of the database, and its transaction aborts.
RefundFits(p, reason) == refund[p] \in {"none", reason}
CreateCompensatingRefund(p, reason) == refund' = [refund EXCEPT ![p] = reason]
-----------------------------------------------------------------------------
(* initiate *)

\* The checks, outside any transaction: the order is payable and no attempt is live.
InitiateCheck(w, p) ==
    LET o == OrderOf[p] IN
    /\ At(w, "idle")
    /\ pay[p] = "none" /\ \A v \in Workers : Pay(v) # p     \* a fresh id
    /\ orderStatus[o] = "pending_confirmation" /\ windowOpen[o]
    /\ \A q \in Payments : OrderOf[q] = o =>
          pay[q] \notin InFlight \cup Kept \cup {"refund_required"}
    /\ job' = [job EXCEPT ![w] = Started("insert", p, "none")]
    /\ UNCHANGED <<orderVars, stockVars, payVars, lease, session, boundVars>>

\* The insert locks the order but re-checks only the in-flight unique index.
InitiateInsert(w) ==
    LET p == Pay(w)  o == OrderOfJob(w) IN
    /\ At(w, "insert")
    /\ \/ /\ \A q \in Payments : OrderOf[q] = o => pay[q] \notin InFlight
          /\ pay' = [pay EXCEPT ![p] = "initiating"]
          /\ MarkPaymentState(o, "pending", p)
          /\ Goto(w, "call")
          /\ UNCHANGED lease
       \/ /\ \E q \in Payments : OrderOf[q] = o /\ pay[q] \in InFlight
          /\ Finish(w)
          /\ UNCHANGED <<pay, projection, projected>>
    /\ UNCHANGED <<orderStatus, settlement, windowOpen, stockVars, authority,
                   reviewVars, refund, session, boundVars>>

\* provider.initiate: an error says nothing of whether a session was opened.
InitiateCall(w) ==
    /\ At(w, "call")
    /\ \/ /\ session' = [session EXCEPT ![Pay(w)] = "open"]
          /\ Goto(w, "store")
       \/ /\ \E s \in {"none", "open"} : session' = [session EXCEPT ![Pay(w)] = s]
          /\ ToReview(w, FALSE)
    /\ UNCHANGED <<orderVars, stockVars, payVars, lease, boundVars>>

InitiateStore(w) ==
    LET p == Pay(w) IN
    /\ At(w, "store")
    /\ IF pay[p] = "initiating"
         THEN /\ pay' = [pay EXCEPT ![p] = "pending"]
              /\ authority' = [authority EXCEPT ![p] = TRUE]
              /\ recon' = [recon EXCEPT ![p] = FALSE]
         ELSE UNCHANGED <<pay, authority, recon>>
    /\ Finish(w)
    /\ UNCHANGED <<orderVars, stockVars, attempts, manual, refund, session, boundVars>>
-----------------------------------------------------------------------------
(* Asking the provider: callback, verify, admin reconcile, scheduled reconcile *)

\* callback and verify leave a resolved payment alone; they read its status before
\* they hold the lease.  The admin's reconcile reads no status at all.
CheckRequested(w, p) ==
    /\ At(w, "idle") /\ requests < MaxRequests
    /\ pay[p] # "none"
    /\ \E kind \in {"verify", "reconcile"} :
          /\ kind = "verify" => pay[p] \notin Terminal
          /\ job' = [job EXCEPT ![w] = Started("lease", p, kind)]
    /\ requests' = requests + 1
    /\ UNCHANGED <<orderVars, stockVars, payVars, lease, session, crashes, staffOps>>

\* Mutant: only what a review has marked is due.
DueMarked(p) == ~manual[p] /\ recon[p]

\* reconcileDue: the retry times and the five minutes of an initiating payment are
\* abstracted to "any time"; a pending payment becomes due with its order's window.
Due(p) ==
    /\ ~manual[p]
    /\ \/ recon[p]
       \/ pay[p] = "initiating"
       \/ pay[p] = "pending" /\ ~windowOpen[OrderOf[p]]

SchedulerReconcile(w, p) ==
    /\ At(w, "idle")
    /\ Due(p)
    /\ job' = [job EXCEPT ![w] = Started("lease", p, "reconcile")]
    /\ UNCHANGED <<orderVars, stockVars, payVars, lease, session, boundVars>>

\* Mutant: the lease is taken whoever holds it.
LeaseIgnored(p) == TRUE
\* withProviderLease: whoever finds it held gives up.
LeaseFree(p) == lease[p] = None
LeaseClaim(w) ==
    LET p == Pay(w) IN
    /\ At(w, "lease")
    /\ \/ LeaseFree(p) /\ lease' = [lease EXCEPT ![p] = w] /\ Goto(w, "ask")
       \/ ~LeaseFree(p) /\ job' = [job EXCEPT ![w] = Idle] /\ UNCHANGED lease
    /\ UNCHANGED <<orderVars, stockVars, payVars, session, boundVars>>

\* What the gateway may answer.  verify calls a session that nobody has paid yet
\* failed; without an authority, reconcile finds captured sessions only.
Answers(p, kind) ==
    {"unknown", "error"} \cup
    CASE session[p] = "captured" -> {"paid", "rejected"}
      [] session[p] = "open" /\ authority[p] ->
            IF kind = "verify" THEN {"failed"} ELSE {"pending"}
      [] session[p] \in {"closed", "reversed"} /\ authority[p] -> {"failed"}
      [] OTHER -> {}

\* checkProvider up to the answer, and for a paid session the order snapshot that
\* applyProviderResult reads next.  An amount or reference that disagrees is a
\* permanent review; every other error is retried.
Ask(w) ==
    LET p == Pay(w) IN
    /\ At(w, "ask")
    /\ IF job[w].kind = "verify" /\ ~authority[p]
         THEN Finish(w) /\ UNCHANGED authority
         ELSE \E answer \in Answers(p, job[w].kind) :
                /\ authority' = IF answer = "paid" THEN [authority EXCEPT ![p] = TRUE]
                                                   ELSE authority
                /\ CASE answer = "pending" -> Goto(w, "apply_pending")
                     [] answer = "failed" -> Goto(w, "apply_failed")
                     [] answer = "paid" ->
                          job' = [job EXCEPT ![w] = [Started("claim", p, "none")
                                     EXCEPT !.seen = orderStatus[OrderOf[p]]]]
                     [] OTHER -> ToReview(w, answer = "rejected")
                /\ UNCHANGED lease
    /\ UNCHANGED <<orderVars, stockVars, pay, reviewVars, refund, session, boundVars>>

ApplyPending(w) ==
    LET p == Pay(w)  o == OrderOfJob(w) IN
    /\ At(w, "apply_pending")
    /\ \/ /\ pay[p] \notin Unsettled
          /\ Finish(w) /\ UNCHANGED <<pay, recon, manual>>
       \/ /\ pay[p] = "failed"             \* refused by the in-flight unique index
          /\ \E q \in Payments : OrderOf[q] = o /\ pay[q] \in InFlight
          /\ ToReview(w, FALSE) /\ UNCHANGED <<pay, recon, manual, lease>>
       \/ /\ pay[p] \in Unsettled
          /\ pay[p] = "failed" => \A q \in Payments : OrderOf[q] = o => pay[q] \notin InFlight
          /\ pay' = [pay EXCEPT ![p] = "pending"]
          /\ recon' = [recon EXCEPT ![p] = FALSE]
          /\ manual' = [manual EXCEPT ![p] = FALSE]
          /\ Finish(w)
    /\ UNCHANGED <<orderVars, stockVars, authority, attempts, refund, session, boundVars>>

\* Mutant: every failure is believed.
NeverAgain(w) == FALSE
\* A failure learnt by verify is asked about once more; one learnt by reconcile is not.
AskAgain(w) == job[w].kind # "reconcile"

\* markPaymentAttemptFailed clears the projection of this payment only, and never
\* once the order has a settlement.
ApplyFailed(w) ==
    LET p == Pay(w)  o == OrderOfJob(w) IN
    /\ At(w, "apply_failed")
    /\ IF pay[p] \in Unsettled
         THEN /\ pay' = [pay EXCEPT ![p] = "failed"]
              /\ recon' = [recon EXCEPT ![p] = AskAgain(w)]
              /\ manual' = [manual EXCEPT ![p] = FALSE]
              /\ IF orderStatus[o] # "confirmed" /\ projected[o] = p /\ settlement[o] = None
                   THEN MarkPaymentState(o, "unpaid", None)
                   ELSE UNCHANGED <<projection, projected>>
         ELSE UNCHANGED <<pay, recon, manual, projection, projected>>
    /\ Finish(w)
    /\ UNCHANGED <<orderStatus, settlement, windowOpen, stockVars, authority, attempts,
                   refund, session, boundVars>>
-----------------------------------------------------------------------------
(* Settling a paid session: claim, compensate or convert stock, confirm *)

\* Mutant: the claim does not look at the owner.
ClaimsAlways(w) == job[w].seen # "cancelled"
\* claimSettlement, unless the snapshot was cancelled: first come, first served.
MayClaim(w) ==
    job[w].seen # "cancelled" /\ settlement[OrderOfJob(w)] \in {None, Pay(w)}

ClaimSettlement(w) ==
    LET p == Pay(w)  o == OrderOfJob(w) IN
    /\ At(w, "claim")
    /\ IF MayClaim(w)
         THEN settlement' = [settlement EXCEPT ![o] = p] /\ Goto(w, "assess")
         ELSE Goto(w, "compensate") /\ UNCHANGED settlement
    /\ UNCHANGED <<orderStatus, projection, projected, windowOpen, stockVars, payVars,
                   lease, session, boundVars>>

\* A cancelled order, or an order another payment owns: the money goes back.
Compensate(w) ==
    LET p == Pay(w)  o == OrderOfJob(w)
        cancelled == job[w].seen = "cancelled"
        reason == IF cancelled THEN "cancelled_order_payment"
                               ELSE "duplicate_order_payment"
    IN
    /\ At(w, "compensate")
    /\ \/ /\ pay[p] \notin Unsettled \cup {"refund_required"}
          /\ Finish(w)
          /\ UNCHANGED <<pay, recon, refund, projection, projected>>
       \/ /\ pay[p] \in Unsettled \cup {"refund_required"}
          /\ ~RefundFits(p, reason)
          /\ ToReview(w, FALSE)
          /\ UNCHANGED <<pay, recon, refund, projection, projected, lease>>
       \/ /\ pay[p] \in Unsettled \cup {"refund_required"}
          /\ RefundFits(p, reason)
          /\ pay' = [pay EXCEPT ![p] = "refund_required"]
          /\ recon' = [recon EXCEPT ![p] = FALSE]
          /\ CreateCompensatingRefund(p, reason)
          /\ IF cancelled THEN MarkPaymentState(o, "refund_required", p)
                          ELSE UNCHANGED <<projection, projected>>
          /\ Finish(w)
    /\ UNCHANGED <<orderStatus, settlement, windowOpen, stockVars, authority, attempts,
                   manual, session, boundVars>>

\* late: from the status of the snapshot and the clock of now.
Assess(w) ==
    LET late == job[w].seen = "expired" \/ ~windowOpen[OrderOfJob(w)] IN
    /\ At(w, "assess")
    /\ job' = [job EXCEPT ![w] =
                 [Started(IF late THEN "mark_late" ELSE "convert", @.pay, "none")
                    EXCEPT !.late = late]]
    /\ UNCHANGED <<orderVars, stockVars, payVars, lease, session, boundVars>>

MarkLate(w) ==
    LET o == OrderOfJob(w) IN
    /\ At(w, "mark_late")
    /\ \/ MarkLatePaymentReview(o) /\ Goto(w, "convert")
       \/ ~Reviewable(o) /\ ToReview(w, FALSE) /\ UNCHANGED reservation
    /\ UNCHANGED <<orderVars, held, sellable, listed, givenBack, payVars, lease, session,
                   boundVars>>

\* Without stock to take back, the payment is refunded.
Convert(w) ==
    LET o == OrderOfJob(w) IN
    /\ At(w, "convert")
    /\ \/ ConvertReservation(o) /\ Goto(w, "confirm")
       \/ /\ ~Convertible(o)
          /\ Goto(w, "stock_refund")
          /\ UNCHANGED <<reservation, held, sellable>>
    /\ UNCHANGED <<orderVars, listed, givenBack, payVars, lease, session, boundVars>>

\* No stock for a late payment: an update without a guard on the payment's status.
StockRefund(w) ==
    LET p == Pay(w)  o == OrderOfJob(w)
        reason == "late_payment_stock_unavailable"
    IN
    /\ At(w, "stock_refund")
    /\ \/ /\ RefundFits(p, reason)
          /\ pay' = [pay EXCEPT ![p] = "refund_required"]
          /\ recon' = [recon EXCEPT ![p] = FALSE]
          /\ CreateCompensatingRefund(p, reason)
          /\ MarkPaymentState(o, "refund_required", p)
          /\ Finish(w)
       \/ /\ ~RefundFits(p, reason)
          /\ ToReview(w, FALSE)
          /\ UNCHANGED <<pay, recon, refund, projection, projected, lease>>
    /\ UNCHANGED <<orderStatus, settlement, windowOpen, stockVars, authority, attempts,
                   manual, session, boundVars>>

\* Mutant: a cancelled order is confirmed like any other.
NeverRefused(o) == FALSE
\* confirmPaid refuses a cancelled order.
Refused(o) == orderStatus[o] = "cancelled"

\* The last transaction: the payment is paid and confirmPaid confirms the order,
\* or its error rolls both back.
Confirm(w) ==
    LET p == Pay(w)  o == OrderOfJob(w) IN
    /\ At(w, "confirm")
    /\ \/ /\ pay[p] \notin Unsettled
          /\ Finish(w)
          /\ UNCHANGED <<orderStatus, projection, projected, pay, recon, manual>>
       \/ /\ pay[p] \in Unsettled
          /\ Refused(o)
          /\ ToReview(w, FALSE)
          /\ UNCHANGED <<orderStatus, projection, projected, pay, recon, manual, lease>>
       \/ /\ pay[p] \in Unsettled
          /\ ~Refused(o)
          /\ pay' = [pay EXCEPT ![p] = IF job[w].late THEN "late_received" ELSE "paid"]
          /\ recon' = [recon EXCEPT ![p] = FALSE]
          /\ manual' = [manual EXCEPT ![p] = FALSE]
          /\ IF orderStatus[o] = "confirmed"
               THEN UNCHANGED <<orderStatus, projection, projected>>
               ELSE /\ orderStatus' = [orderStatus EXCEPT ![o] = "confirmed"]
                    /\ MarkPaymentState(o, "paid", p)
          /\ Finish(w)
    /\ UNCHANGED <<settlement, windowOpen, stockVars, authority, attempts, refund,
                   session, boundVars>>
-----------------------------------------------------------------------------
(* schedulePaymentReview: one transaction, but its read takes no lock *)

\* At the maximum a person takes over: how far the counter goes on does not matter.
Saturated(n) == IF n < MaxReconcile THEN n ELSE MaxReconcile

ReviewRead(w) ==
    LET p == Pay(w)  terminal == pay[p] \in Terminal IN
    /\ At(w, "review")
    /\ \/ /\ terminal /\ ~job[w].permanent
          /\ Finish(w)
       \/ /\ ~terminal \/ job[w].permanent
          /\ job' = [job EXCEPT ![w] = [@ EXCEPT !.pc = "review_write",
                        !.terminal = terminal, !.n = Saturated(attempts[p] + 1)]]
          /\ UNCHANGED lease
    /\ UNCHANGED <<orderVars, stockVars, payVars, session, boundVars>>

ReviewWrite(w) ==
    LET p == Pay(w)
        toManual == job[w].permanent \/ job[w].n = MaxReconcile
    IN
    /\ At(w, "review_write")
    /\ pay' = [pay EXCEPT ![p] = IF @ \in {"initiating", "pending"} THEN "unknown" ELSE @]
    /\ recon' = [recon EXCEPT ![p] = ~job[w].terminal /\ ~toManual]
    /\ attempts' = [attempts EXCEPT ![p] = job[w].n]
    /\ manual' = [manual EXCEPT ![p] = toManual]
    /\ Finish(w)
    /\ UNCHANGED <<orderVars, stockVars, authority, refund, session, boundVars>>
-----------------------------------------------------------------------------
(* Refunds, as far as settlement sees them: a full refund is opened and completes *)

StaffRefund(p) ==
    /\ pay[p] \in Kept \cup {"refund_required"}
    /\ RefundFits(p, "staff")
    /\ refund' = [refund EXCEPT ![p] = "staff"]
    /\ UNCHANGED <<orderVars, stockVars, pay, authority, reviewVars, lease, session,
                   job, boundVars>>

\* applyRefundResult with the whole amount back: no guard on the payment's status.
RefundCompleted(p) ==
    LET o == OrderOf[p] IN
    /\ refund[p] # "none" /\ session[p] = "captured"
    /\ session' = [session EXCEPT ![p] = "reversed"]
    /\ pay' = [pay EXCEPT ![p] = "refunded"]
    /\ IF settlement[o] = p THEN MarkPaymentState(o, "refunded", p)
                            ELSE UNCHANGED <<projection, projected>>
    /\ UNCHANGED <<orderStatus, settlement, windowOpen, stockVars, authority,
                   reviewVars, refund, lease, job, boundVars>>
-----------------------------------------------------------------------------
(* The order's own life: the window, the customer, the two expiry sweeps *)

CloseWindow(o) ==
    /\ windowOpen[o]
    /\ windowOpen' = [windowOpen EXCEPT ![o] = FALSE]
    /\ UNCHANGED <<orderStatus, projection, projected, settlement, stockVars, payVars,
                   lease, session, job, boundVars>>

CancelOrder(o) ==
    /\ orderStatus[o] = "pending_confirmation"
    /\ Release(o, "cancelled")
    /\ orderStatus' = [orderStatus EXCEPT ![o] = "cancelled"]
    /\ UNCHANGED <<projection, projected, settlement, windowOpen, listed, givenBack, payVars,
                   lease, session, job, boundVars>>

ExpireOrder(o) ==
    /\ orderStatus[o] = "pending_confirmation" /\ ~windowOpen[o]
    /\ Release(o, "expired")
    /\ orderStatus' = [orderStatus EXCEPT ![o] = "expired"]
    /\ UNCHANGED <<projection, projected, settlement, windowOpen, listed, givenBack, payVars,
                   lease, session, job, boundVars>>

\* inventory expireDue: the candidates are listed first and released one by one; the
\* release looks again at the status, not at why the reservation was listed.
ListReservation(o) ==
    /\ reservation[o] = "payment_pending" /\ ~windowOpen[o]
    /\ o \notin listed
    /\ listed' = listed \cup {o}
    /\ UNCHANGED <<orderVars, reservation, held, sellable, givenBack, payVars, lease, session,
                   job, boundVars>>

ExpireReservation(o) ==
    /\ o \in listed
    /\ listed' = listed \ {o}
    /\ Release(o, "expired")
    /\ UNCHANGED <<orderVars, givenBack, payVars, lease, session, job, boundVars>>

\* Staff at the reservation of an order, whatever has become of the order: release and
\* expire, late-payment-review, convert, and release-commitment, which gives the unit of
\* a converted reservation back and leaves it converted.  begin-payment takes active
\* reservations only, and this one has been attached to its order.
StaffRelease(o) ==
    /\ reservation[o] \in Releasable
    /\ \E target \in {"released", "expired"} : Release(o, target)
    /\ UNCHANGED givenBack

StaffLateReview(o) ==
    /\ MarkLatePaymentReview(o)
    /\ UNCHANGED <<held, sellable, givenBack>>

StaffConvert(o) == ConvertReservation(o) /\ UNCHANGED givenBack

ReleaseCommitment(o) ==
    /\ reservation[o] = "converted" /\ held[o]
    /\ held' = [held EXCEPT ![o] = FALSE]
    /\ sellable' = sellable + 1
    /\ givenBack' = givenBack \cup {o}
    /\ UNCHANGED reservation

StaffStep(o) ==
    /\ staffOps < MaxStaffOps /\ staffOps' = staffOps + 1
    /\ StaffRelease(o) \/ StaffLateReview(o) \/ StaffConvert(o) \/ ReleaseCommitment(o)
    /\ UNCHANGED <<orderVars, listed, payVars, lease, session, job, crashes, requests>>

\* The rest of the shop: another sale takes the stock, or more of it arrives.
SellElsewhere ==
    /\ sellable > 0
    /\ sellable' = sellable - 1
    /\ UNCHANGED <<orderVars, reservation, held, listed, givenBack, payVars, lease, session,
                   job, boundVars>>

Restock ==
    /\ sellable < MaxStock
    /\ sellable' = sellable + 1
    /\ UNCHANGED <<orderVars, reservation, held, listed, givenBack, payVars, lease, session,
                   job, boundVars>>
-----------------------------------------------------------------------------
(* The gateway, crashes and leases *)

\* The customer pays, or the gateway gives the session up.
Capture(p) ==
    /\ session[p] = "open"
    /\ \E s \in {"captured", "closed"} : session' = [session EXCEPT ![p] = s]
    /\ UNCHANGED <<orderVars, stockVars, payVars, lease, job, boundVars>>

Crash(w) ==
    /\ ~At(w, "idle") /\ crashes < MaxCrashes
    /\ crashes' = crashes + 1
    /\ job' = [job EXCEPT ![w] = Idle]
    /\ UNCHANGED <<orderVars, stockVars, payVars, lease, session, requests, staffOps>>

\* A job that was granted the lease of its payment works under it from "ask" on.
Holds(w, p) == Pay(w) = p /\ ~At(w, "lease")

LeaseExpire(p) ==
    /\ lease[p] # None
    /\ SlowWorkers \/ ~Holds(lease[p], p)
    /\ lease' = [lease EXCEPT ![p] = None]
    /\ UNCHANGED <<orderVars, stockVars, payVars, session, job, boundVars>>
-----------------------------------------------------------------------------
WorkerStep(w) ==
    \/ InitiateInsert(w) \/ InitiateCall(w) \/ InitiateStore(w)
    \/ LeaseClaim(w) \/ Ask(w) \/ ApplyPending(w) \/ ApplyFailed(w)
    \/ ClaimSettlement(w) \/ Compensate(w) \/ Assess(w) \/ MarkLate(w) \/ Convert(w)
    \/ StockRefund(w) \/ Confirm(w) \/ ReviewRead(w) \/ ReviewWrite(w)

RequestStep(w, p) ==
    InitiateCheck(w, p) \/ CheckRequested(w, p) \/ SchedulerReconcile(w, p)

PaymentStep(p) ==
    StaffRefund(p) \/ RefundCompleted(p) \/ Capture(p) \/ LeaseExpire(p)

OrderStep(o) ==
    \/ CloseWindow(o) \/ CancelOrder(o) \/ ExpireOrder(o)
    \/ ListReservation(o) \/ ExpireReservation(o)
    \/ StaffStep(o)

Next ==
    \/ \E w \in Workers : WorkerStep(w) \/ Crash(w)
    \/ \E w \in Workers, p \in Payments : RequestStep(w, p)
    \/ \E p \in Payments : PaymentStep(p)
    \/ \E o \in Orders : OrderStep(o)
    \/ SellElsewhere \/ Restock

Spec == Init /\ [][Next]_vars

\* Worker processes run what they have begun, the sweeps and the scheduler come round
\* again, the clock passes and an abandoned lease times out.  Nothing is assumed of
\* customers, staff, stock or the gateway.
Fairness ==
    /\ \A w \in Workers : WF_vars(WorkerStep(w))
    /\ \A p \in Payments : SF_vars(\E w \in Workers : SchedulerReconcile(w, p))
    /\ \A p \in Payments : WF_vars(LeaseExpire(p))
    /\ \A o \in Orders : WF_vars(CloseWindow(o)) /\ WF_vars(ExpireOrder(o))

FairSpec == Spec /\ Fairness
-----------------------------------------------------------------------------
(* Properties *)

OrderTypeOK ==
    /\ orderStatus \in [Orders -> OrderStatuses]
    /\ projection \in [Orders -> Projections]
    /\ projected \in [Orders -> Payments \cup {None}]
    /\ settlement \in [Orders -> Payments \cup {None}]
    /\ windowOpen \in [Orders -> BOOLEAN]
StockTypeOK ==
    /\ reservation \in [Orders -> ReservationStatuses]
    /\ held \in [Orders -> BOOLEAN]
    /\ sellable \in Nat
    /\ listed \in SUBSET Orders /\ givenBack \in SUBSET Orders
PaymentTypeOK ==
    /\ pay \in [Payments -> PaymentStatuses]
    /\ authority \in [Payments -> BOOLEAN]
    /\ recon \in [Payments -> BOOLEAN]
    /\ attempts \in [Payments -> 0..MaxReconcile]
    /\ manual \in [Payments -> BOOLEAN]
    /\ refund \in [Payments -> Reasons \cup {"none", "staff"}]
    /\ session \in [Payments -> Sessions]
LeaseTypeOK == lease \in [Payments -> Workers \cup {None}]
JobTypeOK ==
    /\ job \in [Workers -> Jobs]
    /\ \A w \in Workers : At(w, "idle") \/ Pay(w) \in Payments

\* Types of the order, inventory, payment, gateway and job state; a worker that is not
\* idle works for some payment.
TypeOK ==
    /\ OrderTypeOK /\ StockTypeOK /\ PaymentTypeOK /\ LeaseTypeOK /\ JobTypeOK
    /\ crashes \in Nat /\ requests \in Nat /\ staffOps \in Nat

\* An order keeps the money of one payment: the one that claimed it, and only with the
\* order confirmed (claimSettlement and confirmPaid, run by racing verifications).
SingleSettlement ==
    \A p \in Payments : pay[p] \in Kept =>
        settlement[OrderOf[p]] = p /\ orderStatus[OrderOf[p]] = "confirmed"

\* What is sold is in stock: an order is confirmed only with its unit converted, however
\* late the payment and whatever sweeps and staff released meanwhile, and nothing takes
\* that unit away but the staff's release of the commitment.
ConfirmedHoldsStock ==
    \A o \in Orders : orderStatus[o] = "confirmed" =>
        /\ reservation[o] = "converted" /\ settlement[o] # None
        /\ held[o] \/ o \in givenBack

\* The shop never keeps an order and gives its money back by itself: the settlement of a
\* confirmed order has no automatic refund.  (While leases outlive their jobs.)
NoRefundOfFulfilledOrder ==
    \A o \in Orders : orderStatus[o] = "confirmed" =>
        refund[settlement[o]] \notin Reasons

\* A payment the gateway captured is resolved, or somebody will look at it again: the
\* scheduler (due now or when the window closes) or a person.
CapturedNotForgotten ==
    \A p \in Payments : session[p] = "captured" =>
        \/ pay[p] \in Terminal \cup {"initiating", "pending"}
        \/ recon[p] \/ manual[p]

\* Terminal business decisions are not overwritten: a confirmed or cancelled order
\* stays so, and the payment that claimed an order is never replaced.
DecisionsAreFinal ==
    [][\A o \in Orders :
          /\ orderStatus[o] \in {"confirmed", "cancelled"} => orderStatus'[o] = orderStatus[o]
          /\ settlement[o] # None => settlement'[o] = settlement[o]]_vars

\* Money taken is eventually kept, given back or put before a person.
CapturedIsResolved ==
    \A p \in Payments :
        session[p] = "captured" ~> (pay[p] \in Terminal \/ manual[p])

\* The abstract deal this module implements while no job outlives its lease.
DealOutcome == [o \in Orders |->
    CASE orderStatus[o] = "confirmed" -> "sold"
      [] orderStatus[o] = "cancelled" -> "void"
      [] OTHER -> "open"]
DealBuyer == [o \in Orders |->
    IF orderStatus[o] = "confirmed" THEN settlement[o] ELSE None]
DealMoney == [p \in Payments |->
    CASE pay[p] \in Kept -> "kept"
      [] pay[p] = "refund_required" -> "owed"
      [] pay[p] = "refunded" -> IF refund[p] = "staff" THEN "returned" ELSE "owed"
      [] OTHER -> "none"]
Deal == INSTANCE OrderDeal
          WITH outcome <- DealOutcome, buyer <- DealBuyer, money <- DealMoney

\* Every step of the payment service is a step of the deal, or none of it: money an
\* order keeps leaves it only by the staff's refund.
ImplementsDeal == Deal!Spec
=============================================================================
