------------------------------ MODULE Refunds ------------------------------
(***************************************************************************)
(* Giving money back: the refund rows of one payment, the staff and the    *)
(* scheduler that drive them, the leases of the rows, and the gateway,     *)
(* which can only reverse a session as a whole.  Settlement leaves a       *)
(* payment here either kept ("paid") or owed back with an automatic        *)
(* refund; refunds of different payments share nothing but the gateway.    *)
(*                                                                         *)
(* Each transaction and each gateway call is one action; the job that runs *)
(* them has a pc, so other jobs, staff and crashes come in between.  Every *)
(* write of a refund row locks the payment first (trigger of migration     *)
(* 0013), so two transactions on refunds of the payment never interleave.  *)
(***************************************************************************)
EXTENDS Naturals, FiniteSets

CONSTANTS
    Refunds, Workers,
    None,           \* no refund, no holder
    Amount,         \* amount of the payment, in the smallest unit of the model
    MaxAttempts,    \* PAYMENT_RECONCILIATION_MAX_ATTEMPTS
    MaxReviews,     \* bound: staff start nothing more on a refund reviewed that often
    MaxCrashes      \* bound: processes lost

ASSUME RefundsAssumption == IsFiniteSet(Refunds)
ASSUME NoneAssumption == None \notin Refunds \cup Workers
ASSUME BoundsAssumption ==
    /\ Amount \in Nat \ {0}
    /\ MaxAttempts \in Nat \ {0}
    /\ MaxReviews \in Nat
    /\ MaxCrashes \in Nat

VARIABLES
    payment,        \* payments.status: kept ("paid"), owed back, or refunded
    settles,        \* the order's settlement_payment_id is this payment
    projection,     \* orders.payment_status, which follows a settling payment
    status, amount, byHand, recon, attempts, manual, lease,   \* payments.refunds (byHand: created_by)
    reference,      \* the row that holds the unique provider_reference, if any
    session,        \* the gateway's session: captured or reversed
    job,            \* running requests
    crashes,        \* bound
    raced           \* history: see ApplyFailed

paymentVars == <<payment, settles, projection>>
reviewVars  == <<recon, attempts, manual>>
rowVars     == <<amount, byHand>>
historyVars == <<crashes, raced>>
vars == <<paymentVars, status, rowVars, reviewVars, lease, reference, session,
          job, historyVars>>

PaymentStatuses == {"paid", "refund_required", "refunded"}
Projections == {"paid", "refund_required", "partially_refunded", "refunded"}
Submitted == {"processing", "unknown"}
Statuses == {"none", "requested", "approved", "failed", "succeeded", "rejected",
             "cancelled"} \cup Submitted
Amounts == 1..Amount
Results == {"none", "succeeded", "failed"}

Jobs == [pc : {"idle", "process", "lease", "call", "apply", "review"},
         refund : Refunds \cup {None},
         kind : {"none", "process", "reconcile"},
         result : Results]
Started(pc, r, kind) == [pc |-> pc, refund |-> r, kind |-> kind, result |-> "none"]
Idle == Started("idle", None, "none")

At(w, pc) == job[w].pc = pc
Ref(w) == job[w].refund
Holds(w, r) == Ref(w) = r /\ job[w].pc \in {"call", "apply", "review"}

\* The job is over; the finally of withRefundLease clears its own token only.
Finish(w) ==
    /\ job' = [job EXCEPT ![w] = Idle]
    /\ lease' = [r \in Refunds |->
                    IF Holds(w, r) /\ lease[r] = w THEN None ELSE lease[r]]

\* Mutant: the cap of migration 0012, which forgets refunds that failed.
CommittedBefore0013 == {"requested", "approved", "processing", "succeeded", "unknown"}
\* assert_refund_cap, checked again by a deferred trigger after every write of a row.
Committed == {"requested", "approved", "processing", "succeeded", "unknown", "failed"}
\* The sum is counted unit by unit: a row of amount 2 has the units <<r, 1>> and <<r, 2>>.
Units(st, am, statuses) == {u \in Refunds \X Amounts : st[u[1]] \in statuses /\ u[2] <= am[u[1]]}
Total(st, am, statuses) == Cardinality(Units(st, am, statuses))
\* A new row takes an id nobody used; which one does not matter.
Fresh == CHOOSE r \in Refunds : status[r] = "none"
Fits(st, am) == Total(st, am, Committed) <= Amount

Init ==
    /\ \/ /\ payment = "paid" /\ settles = TRUE
          /\ status = [r \in Refunds |-> "none"]
          /\ amount = [r \in Refunds |-> 0]
       \/ LET auto == CHOOSE r \in Refunds : TRUE IN
            /\ payment = "refund_required" /\ settles \in BOOLEAN
            /\ status = [r \in Refunds |-> IF r = auto THEN "approved" ELSE "none"]
            /\ amount = [r \in Refunds |-> IF r = auto THEN Amount ELSE 0]
    /\ projection = payment
    /\ byHand = [r \in Refunds |-> FALSE]
    /\ recon = [r \in Refunds |-> FALSE]
    /\ attempts = [r \in Refunds |-> 0]
    /\ manual = [r \in Refunds |-> FALSE]
    /\ lease = [r \in Refunds |-> None]
    /\ reference = None
    /\ session = "captured"
    /\ job = [w \in Workers |-> Idle]
    /\ crashes = 0
    /\ raced = FALSE
-----------------------------------------------------------------------------
(* The desk: what staff decide about a refund, one transaction each. *)

Insert(r, a) ==
    /\ status[r] = "none" /\ r = Fresh
    /\ status' = [status EXCEPT ![r] = "requested"]
    /\ amount' = [amount EXCEPT ![r] = a]
    /\ byHand' = [byHand EXCEPT ![r] = TRUE]
    /\ Fits(status', amount')
    /\ UNCHANGED <<paymentVars, reviewVars, lease, reference, session, job, historyVars>>

CreateRefund(r, a) ==
    /\ payment \in {"paid", "refund_required"}
    /\ Insert(r, a)

\* requestRefundInTransaction: a return or a warranty asks on behalf of the order.
RequestRefundInTransaction(r, a) ==
    /\ settles
    /\ payment \in {"paid", "refund_required", "refunded"}
    /\ a + Total(status, amount, Committed \ {"failed"}) <= Amount
    /\ Insert(r, a)

\* No more review; the count of attempts stays, so a retried refund is left to staff
\* the sooner.
Clear(r) ==
    /\ recon' = [recon EXCEPT ![r] = FALSE]
    /\ manual' = [manual EXCEPT ![r] = FALSE]
    /\ UNCHANGED attempts

Decide(r, from, to) ==
    /\ status[r] \in from
    /\ status' = [status EXCEPT ![r] = to]
    /\ UNCHANGED <<paymentVars, rowVars, lease, reference, session, historyVars>>

\* The author may not approve (REFUND_SEPARATION_OF_DUTIES): somebody else does.
ApproveRefund(r) ==
    /\ Decide(r, {"requested"}, "approved")
    /\ UNCHANGED <<reviewVars, job>>

\* Mutant: a refund whose submission is uncertain can be cancelled.
CancelUncertain(r, to) ==
    /\ Decide(r, IF to = "rejected" THEN {"requested"}
                                    ELSE {"requested", "approved", "failed", "unknown"}, to)
    /\ recon' = [recon EXCEPT ![r] = FALSE]
    /\ UNCHANGED <<attempts, manual, job>>
SetRefundTerminal(r, to) ==
    /\ Decide(r, IF to = "rejected" THEN {"requested"}
                                    ELSE {"requested", "approved", "failed"}, to)
    /\ recon' = [recon EXCEPT ![r] = FALSE]
    /\ UNCHANGED <<attempts, manual, job>>

\* Nothing in the code bounds the reviews that staff can cause; the model does.
StaffMayStart(r) == attempts[r] < MaxReviews

\* Mutant: a refund with an unknown outcome can be retried.
RetryUncertain(w, r) ==
    /\ At(w, "idle") /\ StaffMayStart(r)
    /\ Decide(r, {"failed", "unknown"}, "approved")
    /\ Clear(r)
    /\ job' = [job EXCEPT ![w] = Started("process", r, "none")]
\* retryRefund: a transaction of its own, then processRefund.
RetryRefund(w, r) ==
    /\ At(w, "idle") /\ StaffMayStart(r)
    /\ Decide(r, {"failed"}, "approved")
    /\ Clear(r)
    /\ job' = [job EXCEPT ![w] = Started("process", r, "none")]
-----------------------------------------------------------------------------
(* processRefund *)

Submit(w, r) ==
    /\ Fits(status, amount)
    /\ Decide(r, {"approved"}, "processing")
    /\ recon' = [recon EXCEPT ![r] = FALSE]
    /\ job' = [job EXCEPT ![w] = Started("lease", r, "process")]
    /\ UNCHANGED <<attempts, manual>>

ProcessRefund(w, r) == At(w, "idle") /\ Submit(w, r)
ProcessRetried(w) == At(w, "process") /\ Submit(w, Ref(w))

\* Someone else took or cancelled the refund since the retry.
RetryRefused(w) ==
    /\ At(w, "process") /\ status[Ref(w)] # "approved"
    /\ job' = [job EXCEPT ![w] = Idle]
    /\ UNCHANGED <<paymentVars, status, rowVars, reviewVars, lease, reference,
                   session, historyVars>>

\* What reconcileDue submits: approved refunds nobody asked for by hand.
Automatic(r) == ~byHand[r]
-----------------------------------------------------------------------------
(* reconcileRefund: the status is read before the lease is taken.  The scheduler starts
   it for a refund that is due, staff whenever they like. *)

Due(r) == recon[r] /\ ~manual[r]

ReconcileRefund(w, r) ==
    /\ At(w, "idle") /\ status[r] \in Submitted
    /\ Due(r) \/ StaffMayStart(r)
    /\ job' = [job EXCEPT ![w] = Started("lease", r, "reconcile")]
    /\ UNCHANGED <<paymentVars, status, rowVars, reviewVars, lease, reference,
                   session, historyVars>>
-----------------------------------------------------------------------------
(* The lease and the gateway. *)

TakeLease(w) ==
    LET r == Ref(w) IN
    /\ At(w, "lease") /\ lease[r] = None
    /\ lease' = [lease EXCEPT ![r] = w]
    /\ job' = [job EXCEPT ![w].pc = "call"]
    /\ UNCHANGED <<paymentVars, status, rowVars, reviewVars, reference, session,
                   historyVars>>

\* REFUND_PROVIDER_CHECK_IN_PROGRESS is thrown past the catch: no review is scheduled.
LeaseRefused(w) ==
    /\ At(w, "lease") /\ lease[Ref(w)] # None
    /\ job' = [job EXCEPT ![w] = Idle]
    /\ UNCHANGED <<paymentVars, status, rowVars, reviewVars, lease, reference,
                   session, historyVars>>

Answered(w, result) ==
    job' = [job EXCEPT ![w].pc = IF result = "unknown" THEN "review" ELSE "apply",
                       ![w].result = IF result = "unknown" THEN "none" ELSE result]

\* refund(): a partial amount, or a gateway that refuses, is a definite failure; a lost
\* request or answer is unknown, and the reversal may have been done all the same.
Refuse(w) ==
    /\ At(w, "call") /\ job[w].kind = "process"
    /\ Answered(w, "failed")
    /\ UNCHANGED <<paymentVars, status, rowVars, reviewVars, lease, reference, session,
                   historyVars>>
LoseRequest(w) ==
    /\ At(w, "call") /\ (job[w].kind = "process" => amount[Ref(w)] = Amount)
    /\ Answered(w, "unknown")
    /\ UNCHANGED <<paymentVars, status, rowVars, reviewVars, lease, reference, session,
                   historyVars>>
Reverse(w) ==
    /\ At(w, "call") /\ job[w].kind = "process" /\ amount[Ref(w)] = Amount
    /\ session = "captured"
    /\ session' = "reversed"
    /\ \E result \in {"succeeded", "unknown"} : Answered(w, result)
    /\ UNCHANGED <<paymentVars, status, rowVars, reviewVars, lease, reference, historyVars>>

\* Mutant: a session that is still verified is taken for a refund that went through.
InquireOptimistic(w) ==
    /\ At(w, "call") /\ job[w].kind = "reconcile"
    /\ Answered(w, "succeeded")
    /\ UNCHANGED <<paymentVars, status, rowVars, reviewVars, lease, reference, session,
                   historyVars>>
\* reconcileRefund of the provider: the state of the session decides, not the amount.
Inquire(w) ==
    /\ At(w, "call") /\ job[w].kind = "reconcile"
    /\ Answered(w, IF session = "reversed" THEN "succeeded" ELSE "failed")
    /\ UNCHANGED <<paymentVars, status, rowVars, reviewVars, lease, reference, session,
                   historyVars>>
-----------------------------------------------------------------------------
(* applyRefundResult and scheduleRefundReview; no status guards them. *)

\* The history records a failure applied under a job that has committed its
\* submission of the refund and has not called the gateway yet.
SubmissionPending(w, r) ==
    \E v \in Workers \ {w} : Ref(v) = r /\ At(v, "lease") /\ job[v].kind = "process"

ApplyFailed(w) ==
    LET r == Ref(w) IN
    /\ At(w, "apply") /\ job[w].result = "failed"
    /\ status' = [status EXCEPT ![r] = "failed"]
    /\ Fits(status', amount)
    /\ Clear(r)
    /\ raced' = (raced \/ SubmissionPending(w, r))
    /\ Finish(w)
    /\ UNCHANGED <<paymentVars, rowVars, reference, session, crashes>>

Returned(st) == Total(st, amount, {"succeeded"})

\* A reversal has one provider reference, so one row can record it.
ApplySucceeded(w) ==
    LET r == Ref(w) IN
    /\ At(w, "apply") /\ job[w].result = "succeeded"
    /\ reference \in {None, r}
    /\ reference' = r
    /\ status' = [status EXCEPT ![r] = "succeeded"]
    /\ Fits(status', amount)
    /\ IF Returned(status') >= Amount
         THEN /\ payment' = "refunded"
              /\ projection' = IF settles THEN "refunded" ELSE projection
         ELSE /\ projection' = IF ~settles THEN projection
                               ELSE IF payment = "refund_required" THEN payment
                               ELSE "partially_refunded"
              /\ UNCHANGED payment
    /\ Clear(r)
    /\ Finish(w)
    /\ UNCHANGED <<settles, rowVars, session, historyVars>>

\* The reference is taken or the cap is broken: the transaction aborts.
ApplyAborted(w) ==
    LET r == Ref(w) IN
    /\ At(w, "apply")
    /\ \/ job[w].result = "succeeded" /\ reference \notin {None, r}
       \/ ~Fits([status EXCEPT ![r] = job[w].result], amount)
    /\ Answered(w, "unknown")
    /\ UNCHANGED <<paymentVars, status, rowVars, reviewVars, lease, reference, session,
                   historyVars>>

Review(w, due, left) ==
    LET r == Ref(w) IN
    /\ At(w, "review")
    /\ status' = [status EXCEPT ![r] = IF @ = "processing" THEN "unknown" ELSE @]
    /\ attempts' = [attempts EXCEPT ![r] = @ + 1]
    /\ recon' = [recon EXCEPT ![r] = due]
    /\ manual' = [manual EXCEPT ![r] = left]
    /\ Finish(w)
    /\ UNCHANGED <<paymentVars, rowVars, reference, session, historyVars>>
\* Mutant: the review counts but does not mark the refund.
ReviewForgotten(w) == Review(w, recon[Ref(w)], manual[Ref(w)])
\* Mutant: the last attempt is neither due again nor left to staff.
ReviewGap(w) ==
    LET n == attempts[Ref(w)] + 1 IN Review(w, n < MaxAttempts, n > MaxAttempts)
\* The count goes on past the limit: from there on every review leaves the refund to staff.
ScheduleRefundReview(w) ==
    LET last == attempts[Ref(w)] + 1 >= MaxAttempts IN Review(w, ~last, last)
-----------------------------------------------------------------------------
(* Failures *)

Crash(w) ==
    /\ ~At(w, "idle") /\ crashes < MaxCrashes
    /\ crashes' = crashes + 1
    /\ job' = [job EXCEPT ![w] = Idle]
    /\ UNCHANGED <<paymentVars, status, rowVars, reviewVars, lease, reference, session,
                   raced>>

\* Two minutes outlast a call of ten seconds: only the lease of a lost job runs out.
LeaseExpire(r) ==
    /\ lease[r] # None /\ ~Holds(lease[r], r)
    /\ lease' = [lease EXCEPT ![r] = None]
    /\ UNCHANGED <<paymentVars, status, rowVars, reviewVars, reference, session, job,
                   historyVars>>
-----------------------------------------------------------------------------
DeskStep(r) ==
    \/ \E a \in Amounts :
          CreateRefund(r, a) \/ RequestRefundInTransaction(r, a)
    \/ ApproveRefund(r)
    \/ \E to \in {"rejected", "cancelled"} : SetRefundTerminal(r, to)

StartStep(w, r) == RetryRefund(w, r) \/ ProcessRefund(w, r) \/ ReconcileRefund(w, r)

JobStep(w) ==
    \/ ProcessRetried(w) \/ RetryRefused(w) \/ TakeLease(w) \/ LeaseRefused(w)
    \/ Refuse(w) \/ LoseRequest(w) \/ Reverse(w) \/ Inquire(w)
    \/ ApplyFailed(w) \/ ApplySucceeded(w) \/ ApplyAborted(w)
    \/ ScheduleRefundReview(w)

Next ==
    \/ \E r \in Refunds : DeskStep(r) \/ LeaseExpire(r)
    \/ \E w \in Workers, r \in Refunds : StartStep(w, r)
    \/ \E w \in Workers : JobStep(w) \/ Crash(w)

Spec == Init /\ [][Next]_vars

\* reconcileDue comes round every few seconds, skips nothing that is due and runs what
\* it starts; staff need not do anything.
ProcessDue(r) == \E w \in Workers : Automatic(r) /\ ProcessRefund(w, r)
ReconcileDue(r) == \E w \in Workers : Due(r) /\ ReconcileRefund(w, r)
Fairness ==
    /\ \A w \in Workers : WF_vars(JobStep(w))
    /\ \A r \in Refunds : SF_vars(ProcessDue(r)) /\ SF_vars(ReconcileDue(r))
    /\ \A r \in Refunds : WF_vars(LeaseExpire(r))

FairSpec == Spec /\ Fairness
-----------------------------------------------------------------------------
(* Properties *)

TypeOK ==
    /\ payment \in PaymentStatuses
    /\ settles \in BOOLEAN
    /\ projection \in Projections
    /\ status \in [Refunds -> Statuses]
    /\ amount \in [Refunds -> Amounts \cup {0}]
    /\ byHand \in [Refunds -> BOOLEAN]
    /\ recon \in [Refunds -> BOOLEAN]
    /\ attempts \in [Refunds -> Nat]
    /\ manual \in [Refunds -> BOOLEAN]
    /\ lease \in [Refunds -> Workers \cup {None}]
    /\ reference \in Refunds \cup {None}
    /\ session \in {"captured", "reversed"}
    /\ job \in [Workers -> Jobs]
    /\ crashes \in 0..MaxCrashes
    /\ raced \in BOOLEAN

\* A refund that has failed can always be retried: whatever was asked for since then
\* fits next to it.
RefundsWithinPayment ==
    Total(status, amount, Statuses \ {"none", "rejected", "cancelled"}) <= Amount

\* The books are never ahead of the gateway: no refund is recorded as paid out, and no
\* payment as refunded, before the gateway has reversed the session.
BooksFollowGateway ==
    (payment = "refunded" \/ \E r \in Refunds : status[r] = "succeeded")
        => session = "reversed"

\* Money that went back is accounted for by a refund of the whole amount that staff
\* cannot cancel, however the jobs, timeouts and crashes fall, unless a failure was
\* reported under a submission that had not reached the gateway yet.
ReversalIsAccounted ==
    session = "reversed" /\ ~raced =>
        \E r \in Refunds : amount[r] = Amount /\ status[r] \in Submitted \cup {"succeeded"}

\* Whoever has a submission on its way, the scheduler or staff will come back to it: the
\* job that ends without an answer, or without the lease, leaves the refund to a job that
\* works on it, to the next round or to staff, unless a process was lost.
SubmittedIsWatched ==
    \A r \in Refunds : status[r] \in Submitted =>
        \/ recon[r] \/ manual[r] \/ crashes > 0
        \/ \E w \in Workers : Ref(w) = r /\ job[w].pc \in {"lease", "call", "apply", "review"}

\* A completed refund stays completed, under the same exception.
SucceededIsFinal ==
    [][\A r \in Refunds : status[r] = "succeeded" /\ ~raced => status'[r] = "succeeded"]_vars

\* An automatic refund is decided or handed to staff; it gets stuck in processing,
\* where nothing looks for it, only after a crash.
Decided(r) == status[r] \in {"succeeded", "failed", "cancelled"} \/ manual[r]
Stranded(r) == crashes > 0 /\ status[r] = "processing" /\ ~recon[r]
AutomaticIsDecided ==
    \A r \in Refunds :
        (status[r] = "approved" /\ Automatic(r)) ~> (Decided(r) \/ Stranded(r))
=============================================================================
