-------------------------- MODULE SettlementProofs --------------------------
(***************************************************************************)
(* Theorems about Settlement, for any orders, payments and workers and any *)
(* bounds; the last ones, while no job outlives its lease.                 *)
(***************************************************************************)
EXTENDS Settlement, TLAPS

(* What the job primitives do to the types. *)

\* A started job is a well-formed one.
LEMMA StartedType ==
    ASSUME NEW pc \in Steps, NEW p \in Payments \cup {None}, NEW kind \in Kinds
    PROVE  Started(pc, p, kind) \in Jobs
<1>1. 0 \in 0..MaxReconcile
  BY BoundsAssumption
<1>. QED BY <1>1 DEF Started, Jobs

\* So is the idle one.
LEMMA IdleType == Idle \in Jobs /\ Idle.pc = "idle"
<1>1. Idle \in Jobs
  BY StartedType DEF Idle, Steps, Kinds
<1>. QED BY <1>1 DEF Idle, Started

\* Going to the next step keeps the jobs well-formed.
LEMMA GotoType ==
    ASSUME JobTypeOK, NEW w \in Workers, ~At(w, "idle"), NEW pc \in Steps, Goto(w, pc)
    PROVE  JobTypeOK'
BY DEF JobTypeOK, Goto, Jobs, At, Pay

\* So does ending the request, which gives back at most its own lease.
LEMMA FinishType ==
    ASSUME JobTypeOK, LeaseTypeOK,
           NEW w \in Workers, Finish(w)
    PROVE  JobTypeOK' /\ LeaseTypeOK'
BY IdleType DEF JobTypeOK, LeaseTypeOK, Finish, At, Pay

\* So does starting a request at an idle worker.
LEMMA StartType ==
    ASSUME JobTypeOK, NEW w \in Workers, NEW pc \in Steps, NEW p \in Payments,
           NEW kind \in Kinds, job' = [job EXCEPT ![w] = Started(pc, p, kind)]
    PROVE  JobTypeOK'
<1>1. Started(pc, p, kind) \in Jobs
  BY StartedType
<1>2. Started(pc, p, kind).pay = p
  BY DEF Started
<1>. QED BY <1>1, <1>2 DEF JobTypeOK, At, Pay

\* And so does turning an error into a review.
LEMMA ToReviewType ==
    ASSUME JobTypeOK, NEW w \in Workers, ~At(w, "idle"), NEW permanent \in BOOLEAN,
           ToReview(w, permanent)
    PROVE  JobTypeOK'
<1>. DEFINE r == [Started("review", Pay(w), "none") EXCEPT !.permanent = permanent]
<1>1. Pay(w) \in Payments
  BY DEF JobTypeOK
<1>2. r \in Jobs /\ r.pay = Pay(w)
  <2>1. Started("review", Pay(w), "none") \in Jobs
    BY <1>1, StartedType DEF Steps, Kinds
  <2>. QED BY <2>1 DEF Started, Jobs
<1>3. job' = [job EXCEPT ![w] = r]
  BY DEF ToReview, Pay, JobTypeOK
<1>. QED BY <1>1, <1>2, <1>3 DEF JobTypeOK, At, Pay
-----------------------------------------------------------------------------
(* Type correctness: one lemma per kind of state, one step per action. *)

USE DEF orderVars, stockVars, payVars, reviewVars, boundVars

\* Every step of a worker leaves the jobs and leases well-formed.
LEMMA WorkerJobType ==
    ASSUME TypeOK, NEW w \in Workers, WorkerStep(w)
    PROVE  JobTypeOK' /\ LeaseTypeOK'
<1>. USE DEF TypeOK
<1>1. CASE InitiateInsert(w)
  BY <1>1, GotoType, FinishType DEF InitiateInsert, LeaseTypeOK, At, Steps
<1>2. CASE InitiateCall(w)
  BY <1>2, GotoType, ToReviewType DEF InitiateCall, LeaseTypeOK, At, Steps
<1>3. CASE InitiateStore(w)
  BY <1>3, FinishType DEF InitiateStore, LeaseTypeOK, At
<1>4. CASE LeaseClaim(w)
  <2>1. JobTypeOK'
    BY <1>4, GotoType, IdleType DEF LeaseClaim, JobTypeOK, At, Pay, Steps
  <2>2. LeaseTypeOK'
    BY <1>4 DEF LeaseClaim, LeaseTypeOK
  <2>. QED BY <2>1, <2>2
<1>5. CASE Ask(w)
  <2>. DEFINE r == [Started("claim", Pay(w), "none")
                      EXCEPT !.seen = orderStatus[OrderOf[Pay(w)]]]
  <2>1. Pay(w) \in Payments /\ ~At(w, "idle")
    BY <1>5 DEF Ask, JobTypeOK, At
  <2>2. r \in Jobs /\ r.pay = Pay(w)
    <3>1. Started("claim", Pay(w), "none") \in Jobs
      BY <2>1, StartedType DEF Steps, Kinds
    <3>2. orderStatus[OrderOf[Pay(w)]] \in OrderStatuses
      BY <2>1, OrderOfAssumption DEF OrderTypeOK
    <3>. QED BY <3>1, <3>2 DEF Started, Jobs
  <2>3. CASE Finish(w)
    BY <2>3, FinishType
  <2>4. CASE UNCHANGED lease /\ Goto(w, "apply_pending")
    BY <2>1, <2>4, GotoType DEF LeaseTypeOK, Steps
  <2>5. CASE UNCHANGED lease /\ Goto(w, "apply_failed")
    BY <2>1, <2>5, GotoType DEF LeaseTypeOK, Steps
  <2>6. CASE UNCHANGED lease /\ job' = [job EXCEPT ![w] = r]
    BY <2>1, <2>2, <2>6 DEF LeaseTypeOK, JobTypeOK, At, Pay
  <2>7. CASE UNCHANGED lease /\ \E b \in BOOLEAN : ToReview(w, b)
    BY <2>1, <2>7, ToReviewType DEF LeaseTypeOK
  <2>8. r = [Started("claim", Pay(w), "none") EXCEPT !.seen = orderStatus[OrderOf[Pay(w)]]]
    OBVIOUS
  <2>. QED BY <1>5, <2>3, <2>4, <2>5, <2>6, <2>7 DEF Ask
<1>6. CASE ApplyPending(w)
  BY <1>6, FinishType, ToReviewType DEF ApplyPending, LeaseTypeOK, At
<1>7. CASE ApplyFailed(w)
  BY <1>7, FinishType DEF ApplyFailed, LeaseTypeOK, At
<1>8. CASE ClaimSettlement(w)
  BY <1>8, GotoType DEF ClaimSettlement, LeaseTypeOK, At, Steps
<1>9. CASE Compensate(w)
  BY <1>9, FinishType, ToReviewType DEF Compensate, LeaseTypeOK, At
<1>10. CASE Assess(w)
  <2>. DEFINE late == job[w].seen = "expired" \/ ~windowOpen[OrderOfJob(w)]
              r == [Started(IF late THEN "mark_late" ELSE "convert", Pay(w), "none")
                      EXCEPT !.late = late]
  <2>1. Pay(w) \in Payments
    BY <1>10 DEF Assess, JobTypeOK, At
  <2>2. r \in Jobs /\ r.pay = Pay(w)
    <3>1. Started(IF late THEN "mark_late" ELSE "convert", Pay(w), "none") \in Jobs
      BY <2>1, StartedType DEF Steps, Kinds
    <3>2. late \in BOOLEAN
      OBVIOUS
    <3>. QED BY <3>1, <3>2 DEF Started, Jobs
  <2>3. job' = [job EXCEPT ![w] = r]
    BY <1>10 DEF Assess, JobTypeOK, Pay
  <2>. QED BY <1>10, <2>1, <2>2, <2>3 DEF Assess, LeaseTypeOK, JobTypeOK, At, Pay
<1>11. CASE MarkLate(w)
  BY <1>11, GotoType, ToReviewType DEF MarkLate, LeaseTypeOK, At, Steps
<1>12. CASE Convert(w)
  BY <1>12, GotoType DEF Convert, LeaseTypeOK, At, Steps
<1>13. CASE StockRefund(w)
  BY <1>13, FinishType, ToReviewType DEF StockRefund, LeaseTypeOK, At
<1>14. CASE Confirm(w)
  BY <1>14, FinishType, ToReviewType DEF Confirm, LeaseTypeOK, At
<1>15. CASE ReviewRead(w)
  <2>1. CASE Finish(w)
    BY <2>1, FinishType
  <2>2. CASE ~Finish(w)
    <3>. DEFINE r == [job[w] EXCEPT !.pc = "review_write",
                        !.terminal = pay[Pay(w)] \in Terminal,
                        !.n = Saturated(attempts[Pay(w)] + 1)]
    <3>1. Pay(w) \in Payments
      BY <1>15 DEF ReviewRead, JobTypeOK, At
    <3>2. Saturated(attempts[Pay(w)] + 1) \in 0..MaxReconcile
      BY <3>1, BoundsAssumption DEF PaymentTypeOK, Saturated
    <3>3. r \in Jobs /\ r.pay = Pay(w)
      <4>1. job[w] \in Jobs
        BY DEF JobTypeOK
      <4>2. \A j \in Jobs, t \in BOOLEAN, n \in 0..MaxReconcile :
              LET k == [j EXCEPT !.pc = "review_write", !.terminal = t, !.n = n]
              IN  k \in Jobs /\ k.pay = j.pay
        BY ZenonT(60) DEF Jobs, Steps
      <4>3. (pay[Pay(w)] \in Terminal) \in BOOLEAN
        OBVIOUS
      <4>. QED BY <3>2, <4>1, <4>2, <4>3, Zenon DEF Pay
    <3>4. job' = [job EXCEPT ![w] = r] /\ UNCHANGED lease
      BY <1>15, <2>2 DEF ReviewRead, JobTypeOK
    <3>. QED BY <3>1, <3>3, <3>4 DEF LeaseTypeOK, JobTypeOK, At, Pay
  <2>. QED BY <2>1, <2>2
<1>16. CASE ReviewWrite(w)
  BY <1>16, FinishType DEF ReviewWrite, LeaseTypeOK, At
<1>. QED BY <1>1, <1>2, <1>3, <1>4, <1>5, <1>6, <1>7, <1>8, <1>9, <1>10, <1>11, <1>12,
    <1>13, <1>14, <1>15, <1>16 DEF WorkerStep

\* A worker that takes a step works for a payment, and that for an order.
LEMMA WorkerBusy ==
    ASSUME JobTypeOK, NEW w \in Workers, WorkerStep(w)
    PROVE  /\ ~At(w, "idle") /\ job[w] \in Jobs
           /\ Pay(w) \in Payments /\ OrderOfJob(w) \in Orders
<1>1. ~At(w, "idle")
  BY DEF WorkerStep, At, InitiateInsert, InitiateCall, InitiateStore, LeaseClaim, Ask,
     ApplyPending, ApplyFailed, ClaimSettlement, Compensate, Assess, MarkLate, Convert,
     StockRefund, Confirm, ReviewRead, ReviewWrite
<1>. QED BY <1>1, OrderOfAssumption DEF JobTypeOK, OrderOfJob, Pay

\* ... and its step leaves the order's columns well-formed,
LEMMA WorkerOrderType ==
    ASSUME TypeOK, NEW w \in Workers, WorkerStep(w)
    PROVE  OrderTypeOK'
<1>. USE DEF TypeOK, OrderTypeOK
<1>0. Pay(w) \in Payments /\ OrderOfJob(w) \in Orders /\ job[w] \in Jobs
  BY WorkerBusy
<1>1. CASE InitiateInsert(w)
  BY <1>0, <1>1 DEF InitiateInsert, MarkPaymentState, Projections
<1>2. CASE ApplyFailed(w)
  BY <1>0, <1>2 DEF ApplyFailed, MarkPaymentState, Projections
<1>3. CASE ClaimSettlement(w)
  BY <1>0, <1>3 DEF ClaimSettlement, MarkPaymentState, Projections
<1>4. CASE Compensate(w)
  BY <1>0, <1>4, ZenonT(60) DEF Compensate, MarkPaymentState, Projections
<1>5. CASE StockRefund(w)
  BY <1>0, <1>5, ZenonT(60) DEF StockRefund, MarkPaymentState, Projections
<1>6. CASE Confirm(w)
  <2>1. UNCHANGED <<settlement, windowOpen>>
    BY <1>6 DEF Confirm, stockVars
  <2>2. \/ UNCHANGED <<orderStatus, projection, projected>>
        \/ /\ orderStatus' = [orderStatus EXCEPT ![OrderOfJob(w)] = "confirmed"]
           /\ MarkPaymentState(OrderOfJob(w), "paid", Pay(w))
    BY <1>6, Zenon DEF Confirm
  <2>. QED BY <1>0, <2>1, <2>2 DEF MarkPaymentState, Projections, OrderStatuses
<1>7. CASE \/ InitiateCall(w) \/ InitiateStore(w) \/ LeaseClaim(w) \/ Ask(w)
           \/ ApplyPending(w) \/ Assess(w) \/ MarkLate(w) \/ Convert(w)
           \/ ReviewRead(w) \/ ReviewWrite(w)
  BY <1>7 DEF InitiateCall, InitiateStore, LeaseClaim, Ask, ApplyPending, Assess,
      MarkLate, Convert, ReviewRead, ReviewWrite
<1>. QED BY <1>1, <1>2, <1>3, <1>4, <1>5, <1>6, <1>7 DEF WorkerStep

\* A conversion takes stock back only where there is some.
LEMMA ConvertType ==
    ASSUME StockTypeOK, NEW o \in Orders, ConvertReservation(o),
           listed' \in SUBSET Orders, givenBack' \in SUBSET Orders
    PROVE  StockTypeOK'
<1>. USE DEF StockTypeOK
<1>1. reservation' \in [Orders -> ReservationStatuses]
  BY DEF ConvertReservation, ReservationStatuses
<1>2. sellable' \in Nat
  BY DEF ConvertReservation, Convertible, InStock
<1>3. held' \in [Orders -> BOOLEAN]
  <2>1. Reclaims(o) \in BOOLEAN /\ held[o] \in BOOLEAN
    BY DEF Reclaims
  <2>. QED BY <2>1 DEF ConvertReservation
<1>. QED BY <1>1, <1>2, <1>3

\* ... the reservations: stock is taken back only where there is some.
LEMMA WorkerStockType ==
    ASSUME TypeOK, NEW w \in Workers, WorkerStep(w)
    PROVE  StockTypeOK'
<1>. USE DEF TypeOK, StockTypeOK
<1>0. Pay(w) \in Payments /\ OrderOfJob(w) \in Orders /\ job[w] \in Jobs
  BY WorkerBusy
<1>1. CASE MarkLate(w)
  BY <1>0, <1>1 DEF MarkLate, MarkLatePaymentReview, ReservationStatuses
<1>2. CASE Convert(w)
  <2>1. CASE ConvertReservation(OrderOfJob(w))
    BY <1>0, <1>2, <2>1, ConvertType DEF Convert
  <2>2. CASE UNCHANGED <<reservation, held, sellable>>
    BY <1>2, <2>2 DEF Convert
  <2>. QED BY <1>2, <2>1, <2>2 DEF Convert
<1>3. CASE \/ InitiateInsert(w) \/ InitiateCall(w) \/ InitiateStore(w)
           \/ LeaseClaim(w) \/ Ask(w) \/ ApplyPending(w) \/ ApplyFailed(w)
           \/ ClaimSettlement(w) \/ Compensate(w) \/ Assess(w) \/ StockRefund(w)
           \/ Confirm(w) \/ ReviewRead(w) \/ ReviewWrite(w)
  BY <1>3 DEF InitiateInsert, InitiateCall, InitiateStore, LeaseClaim, Ask,
      ApplyPending, ApplyFailed, ClaimSettlement, Compensate, Assess, StockRefund,
      Confirm, ReviewRead, ReviewWrite
<1>. QED BY <1>1, <1>2, <1>3 DEF WorkerStep

\* ... and the payments.
LEMMA WorkerPaymentType ==
    ASSUME TypeOK, NEW w \in Workers, WorkerStep(w)
    PROVE  PaymentTypeOK'
<1>. USE DEF TypeOK, PaymentTypeOK
<1>0. Pay(w) \in Payments /\ OrderOfJob(w) \in Orders /\ job[w] \in Jobs
  BY WorkerBusy
<1>1. CASE InitiateInsert(w)
  BY <1>0, <1>1 DEF InitiateInsert, PaymentStatuses
<1>2. CASE InitiateCall(w)
  BY <1>0, <1>2 DEF InitiateCall, Sessions
<1>3. CASE InitiateStore(w)
  BY <1>0, <1>3 DEF InitiateStore, PaymentStatuses
<1>4. CASE Ask(w)
  BY <1>0, <1>4 DEF Ask
<1>5. CASE ApplyPending(w)
  BY <1>0, <1>5 DEF ApplyPending, PaymentStatuses
<1>6. CASE ApplyFailed(w)
  BY <1>0, <1>6 DEF ApplyFailed, AskAgain, PaymentStatuses
<1>7. CASE Compensate(w)
  BY <1>0, <1>7 DEF Compensate, CreateCompensatingRefund, PaymentStatuses, Reasons
<1>8. CASE StockRefund(w)
  BY <1>0, <1>8 DEF StockRefund, CreateCompensatingRefund, PaymentStatuses, Reasons
<1>9. CASE Confirm(w)
  BY <1>0, <1>9 DEF Confirm, PaymentStatuses
<1>10. CASE ReviewWrite(w)
  BY <1>0, <1>10 DEF ReviewWrite, PaymentStatuses, Jobs
<1>11. CASE \/ LeaseClaim(w) \/ ClaimSettlement(w) \/ Assess(w) \/ MarkLate(w)
           \/ Convert(w) \/ ReviewRead(w)
  BY <1>11 DEF LeaseClaim, ClaimSettlement, Assess, MarkLate, Convert, ReviewRead
<1>. QED BY <1>1, <1>2, <1>3, <1>4, <1>5, <1>6, <1>7, <1>8, <1>9, <1>10, <1>11 DEF
    WorkerStep

\* A request that begins work at a worker breaks no type.
LEMMA RequestType ==
    ASSUME TypeOK, NEW w \in Workers, NEW p \in Payments, RequestStep(w, p)
    PROVE  TypeOK'
<1>. USE DEF TypeOK, OrderTypeOK, StockTypeOK, PaymentTypeOK, LeaseTypeOK
<1>1. CASE InitiateCheck(w, p)
  <2>1. JobTypeOK'
    BY <1>1, StartType DEF InitiateCheck, Steps, Kinds
  <2>. QED BY <1>1, <2>1 DEF InitiateCheck
<1>2. CASE CheckRequested(w, p)
  <2>1. PICK kind \in {"verify", "reconcile"} :
           job' = [job EXCEPT ![w] = Started("lease", p, kind)]
    BY <1>2 DEF CheckRequested
  <2>2. JobTypeOK'
    BY <2>1, StartType DEF Steps, Kinds
  <2>. QED BY <1>2, <2>2 DEF CheckRequested
<1>3. CASE SchedulerReconcile(w, p)
  <2>1. JobTypeOK'
    BY <1>3, StartType DEF SchedulerReconcile, Steps, Kinds
  <2>. QED BY <1>3, <2>1 DEF SchedulerReconcile
<1>. QED BY <1>1, <1>2, <1>3 DEF RequestStep

\* Neither do refunds, the gateway and the clock of the leases.
LEMMA PaymentStepType ==
    ASSUME TypeOK, NEW p \in Payments, PaymentStep(p)
    PROVE  TypeOK'
<1>. USE OrderOfAssumption DEF TypeOK, OrderTypeOK, StockTypeOK, PaymentTypeOK,
         LeaseTypeOK, JobTypeOK, At, Pay
<1>1. CASE StaffRefund(p)
  BY <1>1 DEF StaffRefund
<1>2. CASE RefundCompleted(p)
  BY <1>2 DEF RefundCompleted, MarkPaymentState, Projections, Sessions, PaymentStatuses
<1>3. CASE Capture(p)
  BY <1>3 DEF Capture, Sessions
<1>4. CASE LeaseExpire(p)
  BY <1>4 DEF LeaseExpire
<1>. QED BY <1>1, <1>2, <1>3, <1>4 DEF PaymentStep

\* Releasing a reservation gives back what it held, and never takes.
LEMMA ReleaseType ==
    ASSUME StockTypeOK, NEW o \in Orders, NEW target \in ReservationStatuses,
           Release(o, target), listed' \in SUBSET Orders,
           givenBack' \in SUBSET Orders
    PROVE  StockTypeOK'
<1>1. CASE reservation[o] \in Releasable
  <2>1. sellable' \in Nat
    BY <1>1 DEF StockTypeOK, Release
  <2>. QED BY <1>1, <2>1 DEF StockTypeOK, Release
<1>2. CASE reservation[o] \notin Releasable
  BY <1>2 DEF StockTypeOK, Release
<1>. QED BY <1>1, <1>2

\* What staff do to a reservation.
LEMMA StaffType ==
    ASSUME StockTypeOK, NEW o \in Orders, listed' = listed,
           StaffRelease(o) \/ StaffLateReview(o) \/ StaffConvert(o) \/ ReleaseCommitment(o)
    PROVE  StockTypeOK'
<1>1. CASE StaffRelease(o)
  <2>1. PICK target \in {"released", "expired"} : Release(o, target)
    BY <1>1 DEF StaffRelease
  <2>2. target \in ReservationStatuses
    BY DEF ReservationStatuses
  <2>. QED BY <1>1, <2>1, <2>2, ReleaseType DEF StaffRelease, StockTypeOK
<1>2. CASE StaffLateReview(o)
  BY <1>2 DEF StaffLateReview, MarkLatePaymentReview, StockTypeOK, ReservationStatuses
<1>3. CASE StaffConvert(o)
  BY <1>3, ConvertType DEF StaffConvert, StockTypeOK
<1>4. CASE ReleaseCommitment(o)
  BY <1>4 DEF ReleaseCommitment, StockTypeOK
<1>. QED BY <1>1, <1>2, <1>3, <1>4

\* Nor do the customer, the sweeps and the staff.
LEMMA OrderStepType ==
    ASSUME TypeOK, NEW o \in Orders, OrderStep(o)
    PROVE  TypeOK'
<1>. USE DEF TypeOK, OrderTypeOK, PaymentTypeOK, LeaseTypeOK, JobTypeOK, At, Pay
<1>1. CASE CloseWindow(o)
  BY <1>1 DEF CloseWindow, StockTypeOK
<1>2. CASE CancelOrder(o)
  <2>1. StockTypeOK'
    BY <1>2, ReleaseType DEF CancelOrder, ReservationStatuses, StockTypeOK
  <2>. QED BY <1>2, <2>1 DEF CancelOrder, OrderStatuses
<1>3. CASE ExpireOrder(o)
  <2>1. StockTypeOK'
    BY <1>3, ReleaseType DEF ExpireOrder, ReservationStatuses, StockTypeOK
  <2>. QED BY <1>3, <2>1 DEF ExpireOrder, OrderStatuses
<1>4. CASE ListReservation(o)
  BY <1>4 DEF ListReservation, StockTypeOK
<1>5. CASE ExpireReservation(o)
  <2>1. StockTypeOK'
    BY <1>5, ReleaseType DEF ExpireReservation, ReservationStatuses, StockTypeOK
  <2>. QED BY <1>5, <2>1 DEF ExpireReservation
<1>6. CASE StaffStep(o)
  <2>1. StockTypeOK'
    BY <1>6, StaffType DEF StaffStep
  <2>. QED BY <1>6, <2>1 DEF StaffStep
<1>. QED BY <1>1, <1>2, <1>3, <1>4, <1>5, <1>6 DEF OrderStep

\* The initial state has the types.
LEMMA InitTypes == Init => TypeOK
<1>1. ASSUME Init PROVE JobTypeOK
  BY <1>1, IdleType DEF Init, JobTypeOK, At
<1>2. 0 \in 0..MaxReconcile
  BY BoundsAssumption
<1>. QED BY <1>1, <1>2 DEF Init, TypeOK, OrderTypeOK, StockTypeOK, PaymentTypeOK,
       LeaseTypeOK, OrderStatuses, Projections, ReservationStatuses,
       PaymentStatuses, Sessions

\* The state always has the types of TypeOK.
THEOREM TypeCorrect == Spec => []TypeOK
<1>1. Init => TypeOK
  BY InitTypes
<1>2. TypeOK /\ [Next]_vars => TypeOK'
  <2>. SUFFICES ASSUME TypeOK, [Next]_vars PROVE TypeOK'
    OBVIOUS
  <2>1. ASSUME NEW w \in Workers, WorkerStep(w) PROVE TypeOK'
    <3>1. UNCHANGED boundVars
      BY <2>1 DEF WorkerStep, InitiateInsert, InitiateCall, InitiateStore, LeaseClaim,
         Ask, ApplyPending, ApplyFailed, ClaimSettlement, Compensate, Assess, MarkLate,
         Convert, StockRefund, Confirm, ReviewRead, ReviewWrite
    <3>. QED BY <2>1, <3>1, WorkerJobType, WorkerOrderType, WorkerStockType,
           WorkerPaymentType DEF TypeOK
  <2>2. ASSUME NEW w \in Workers, Crash(w) PROVE TypeOK'
    BY <2>2, IdleType DEF Crash, TypeOK, OrderTypeOK, StockTypeOK, PaymentTypeOK,
       LeaseTypeOK, JobTypeOK, At, Pay
  <2>3. CASE SellElsewhere \/ Restock
    BY <2>3 DEF SellElsewhere, Restock, TypeOK, OrderTypeOK, StockTypeOK,
       PaymentTypeOK, LeaseTypeOK, JobTypeOK, At, Pay
  <2>4. CASE UNCHANGED vars
    BY <2>4 DEF vars, TypeOK, OrderTypeOK, StockTypeOK, PaymentTypeOK, LeaseTypeOK,
       JobTypeOK, At, Pay
  <2>. QED BY <2>1, <2>2, <2>3, <2>4, RequestType, PaymentStepType, OrderStepType
         DEF Next
<1>. QED BY <1>1, <1>2, PTL DEF Spec
-----------------------------------------------------------------------------
(* The inductive invariant behind the settlement properties. *)

\* A job that is past its claim works for the payment that owns the order.
Claimed == {"assess", "mark_late", "convert", "stock_refund", "confirm"}
ClaimedOwns ==
    \A w \in Workers : job[w].pc \in Claimed => settlement[OrderOfJob(w)] = Pay(w)

\* A job about to confirm has its reservation converted, and nothing unconverts it.
ConfirmConverted ==
    \A w \in Workers : At(w, "confirm") => reservation[OrderOfJob(w)] = "converted"

\* A reservation that is pending payment holds its unit, and so does a converted one until
\* staff give it back.
ConvertedHeld ==
    \A o \in Orders :
        /\ reservation[o] = "payment_pending" => held[o]
        /\ reservation[o] = "converted" => held[o] \/ o \in givenBack

SettlementInv ==
    /\ TypeOK /\ ClaimedOwns /\ ConfirmConverted /\ ConvertedHeld
    /\ SingleSettlement /\ ConfirmedHoldsStock

\* What a worker's step leaves of the jobs: other workers' jobs, and at its own worker
\* a job that is further on for the same payment, or none that has claimed an order.
JobMoves(w, pcs) ==
    /\ \A v \in Workers \ {w} : job'[v] = job[v]
    /\ \/ job'[w].pc \notin Claimed
       \/ job'[w].pay = job[w].pay /\ job'[w].pc \in pcs

\* The job primitives only move their own worker, along the given steps.
LEMMA JobMovesLemma ==
    ASSUME JobTypeOK, NEW w \in Workers, NEW pcs
    PROVE  /\ Finish(w) => JobMoves(w, pcs)
           /\ \A b : ToReview(w, b) => JobMoves(w, pcs)
           /\ \A pc : Goto(w, pc) /\ pc \in pcs => JobMoves(w, pcs)
           /\ \A pc : Goto(w, pc) /\ pc \notin Claimed => JobMoves(w, pcs)
           /\ \A r : job' = [job EXCEPT ![w] = r] /\ r.pc \notin Claimed
                    => JobMoves(w, pcs)
<1>1. Finish(w) => JobMoves(w, pcs)
  BY IdleType DEF Finish, JobMoves, JobTypeOK, Claimed
<1>2. ASSUME NEW b, ToReview(w, b) PROVE JobMoves(w, pcs)
  <2>1. [Started("review", job[w].pay, "none") EXCEPT !.permanent = b].pc = "review"
    BY DEF Started
  <2>. QED BY <1>2, <2>1 DEF ToReview, JobMoves, JobTypeOK, Claimed
<1>3. ASSUME NEW pc, Goto(w, pc), pc \in pcs \/ pc \notin Claimed
      PROVE  JobMoves(w, pcs)
  BY <1>3 DEF Goto, JobMoves, JobTypeOK, Jobs
<1>4. ASSUME NEW r, job' = [job EXCEPT ![w] = r], r.pc \notin Claimed
      PROVE  JobMoves(w, pcs)
  BY <1>4 DEF JobMoves, JobTypeOK
<1>. QED BY <1>1, <1>2, <1>3, <1>4

\* A step that leaves the orders, the stock and the kept payments alone, and starts no
\* claimed job, keeps the invariant.
Quiet(w) ==
    /\ UNCHANGED <<orderStatus, settlement, reservation, held, givenBack>>
    /\ \A p \in Payments : pay'[p] \in Kept => pay[p] \in Kept
    /\ JobMoves(w, {})

\* A quiet step keeps the inductive invariant.
LEMMA QuietKeepsInv ==
    ASSUME SettlementInv, TypeOK', NEW w \in Workers, Quiet(w)
    PROVE  SettlementInv'
<1>. USE DEF SettlementInv, Quiet
<1>1. ClaimedOwns' /\ ConfirmConverted'
  BY DEF JobMoves, ClaimedOwns, ConfirmConverted, At, Pay, OrderOfJob, Claimed
<1>2. ConvertedHeld' /\ ConfirmedHoldsStock'
  BY DEF ConvertedHeld, ConfirmedHoldsStock
<1>3. SingleSettlement'
  BY DEF SingleSettlement
<1>. QED BY <1>1, <1>2, <1>3

\* Most of the worker's steps are quiet.
LEMMA QuietSteps ==
    ASSUME TypeOK, NEW w \in Workers,
           \/ InitiateInsert(w) \/ InitiateCall(w) \/ InitiateStore(w)
           \/ LeaseClaim(w) \/ Ask(w) \/ ApplyPending(w) \/ ApplyFailed(w)
           \/ Compensate(w) \/ StockRefund(w) \/ ReviewRead(w) \/ ReviewWrite(w)
    PROVE  Quiet(w)
<1>. USE DEF TypeOK, PaymentTypeOK, Kept
<1>0. JobTypeOK
  OBVIOUS
<1>1. CASE InitiateInsert(w)
  <2>1. JobMoves(w, {})
    BY <1>0, <1>1, JobMovesLemma DEF InitiateInsert, Claimed
  <2>. QED BY <1>1, <2>1 DEF InitiateInsert, Quiet
<1>2. CASE InitiateCall(w)
  <2>1. JobMoves(w, {})
    BY <1>0, <1>2, JobMovesLemma DEF InitiateCall, Claimed
  <2>. QED BY <1>2, <2>1 DEF InitiateCall, Quiet
<1>3. CASE InitiateStore(w)
  <2>1. JobMoves(w, {})
    BY <1>0, <1>3, JobMovesLemma DEF InitiateStore, Claimed
  <2>. QED BY <1>3, <2>1 DEF InitiateStore, Quiet
<1>4. CASE LeaseClaim(w)
  <2>1. JobMoves(w, {})
    BY <1>0, <1>4, JobMovesLemma, IdleType DEF LeaseClaim, Claimed
  <2>. QED BY <1>4, <2>1 DEF LeaseClaim, Quiet
<1>5. CASE Ask(w)
  <2>1. CASE Finish(w) \/ (\E b : ToReview(w, b))
                \/ Goto(w, "apply_pending") \/ Goto(w, "apply_failed")
    <3>1. JobMoves(w, {})
      BY <1>0, <2>1, JobMovesLemma DEF Claimed
    <3>. QED BY <1>5, <3>1 DEF Ask, Quiet
  <2>2. CASE job' = [job EXCEPT ![w] = [Started("claim", Pay(w), "none")
                       EXCEPT !.seen = orderStatus[OrderOf[Pay(w)]]]]
    <3>1. [Started("claim", Pay(w), "none")
             EXCEPT !.seen = orderStatus[OrderOf[Pay(w)]]].pc = "claim"
      BY DEF Started
    <3>2. JobMoves(w, {})
      BY <1>0, <2>2, <3>1, JobMovesLemma DEF Claimed
    <3>. QED BY <1>5, <3>2 DEF Ask, Quiet
  <2>. QED BY <1>5, <2>1, <2>2 DEF Ask
<1>6. CASE ApplyPending(w)
  <2>1. JobMoves(w, {})
    BY <1>0, <1>6, JobMovesLemma DEF ApplyPending, Claimed
  <2>. QED BY <1>6, <2>1 DEF ApplyPending, Quiet
<1>7. CASE ApplyFailed(w)
  <2>1. JobMoves(w, {})
    BY <1>0, <1>7, JobMovesLemma DEF ApplyFailed, Claimed
  <2>. QED BY <1>7, <2>1 DEF ApplyFailed, Quiet
<1>8. CASE Compensate(w)
  <2>1. JobMoves(w, {})
    BY <1>0, <1>8, JobMovesLemma DEF Compensate, Claimed
  <2>. QED BY <1>8, <2>1 DEF Compensate, Quiet
<1>9. CASE StockRefund(w)
  <2>1. JobMoves(w, {})
    BY <1>0, <1>9, JobMovesLemma DEF StockRefund, Claimed
  <2>. QED BY <1>9, <2>1 DEF StockRefund, Quiet
<1>10. CASE ReviewRead(w)
  <2>1. CASE Finish(w)
    BY <1>0, <1>10, <2>1, JobMovesLemma DEF ReviewRead, Quiet
  <2>2. CASE ~Finish(w)
    <3>1. PICK t, n : job' = [job EXCEPT ![w] = [job[w] EXCEPT !.pc = "review_write",
                                                    !.terminal = t, !.n = n]]
      BY <1>10, <2>2 DEF ReviewRead, JobTypeOK
    <3>2. [job[w] EXCEPT !.pc = "review_write", !.terminal = t, !.n = n].pc
             = "review_write"
      BY DEF JobTypeOK, Jobs
    <3>3. JobMoves(w, {})
      BY <1>0, <3>1, <3>2, JobMovesLemma DEF Claimed
    <3>. QED BY <1>10, <3>3 DEF ReviewRead, Quiet
  <2>. QED BY <2>1, <2>2
<1>11. CASE ReviewWrite(w)
  <2>1. JobMoves(w, {})
    BY <1>0, <1>11, JobMovesLemma DEF ReviewWrite, Claimed
  <2>. QED BY <1>11, <2>1 DEF ReviewWrite, Quiet
<1>. QED BY <1>1, <1>2, <1>3, <1>4, <1>5, <1>6, <1>7, <1>8, <1>9, <1>10, <1>11

\* What a conversion leaves: every other reservation as it was, and its own with its unit,
\* or with none because staff gave it back before.
Backed(o) ==
    /\ reservation'[o] = "converted"
    /\ held'[o] \/ o \in givenBack
    /\ \A q \in Orders \ {o} : reservation'[q] = reservation[q] /\ held'[q] = held[q]
LEMMA ConvertBacks ==
    ASSUME StockTypeOK, ConvertedHeld, NEW o \in Orders, ConvertReservation(o)
    PROVE  Backed(o)
<1>1. held[o] \/ o \in givenBack \/ Reclaims(o)
  BY DEF ConvertReservation, Convertible, ConvertedHeld, Reclaims, Releasable
<1>2. held' = [held EXCEPT ![o] = held[o] \/ Reclaims(o)]
  BY DEF ConvertReservation
<1>3. held'[o] = (held[o] \/ Reclaims(o)) /\ \A q \in Orders \ {o} : held'[q] = held[q]
  BY <1>2 DEF StockTypeOK
<1>. QED BY <1>1, <1>3 DEF ConvertReservation, Backed, StockTypeOK

\* The five steps that settle an order.
LEMMA SettlingSteps ==
    ASSUME SettlementInv, TypeOK', NEW w \in Workers,
           \/ ClaimSettlement(w) \/ Assess(w) \/ MarkLate(w) \/ Convert(w) \/ Confirm(w)
    PROVE  SettlementInv'
<1>. USE DEF SettlementInv, TypeOK, OrderTypeOK, StockTypeOK, PaymentTypeOK
<1>0. /\ JobTypeOK
      /\ Pay(w) \in Payments /\ OrderOfJob(w) \in Orders
  <2>1. ~At(w, "idle")
    BY DEF At, ClaimSettlement, Assess, MarkLate, Convert, Confirm
  <2>. QED BY <2>1, OrderOfAssumption DEF JobTypeOK, OrderOfJob, Pay
<1>1. CASE ClaimSettlement(w)
  \* An order without a settlement is claimed; any other claim changes nothing.
  <2>. DEFINE o == OrderOfJob(w)
  <2>1. CASE settlement[o] \in {None, Pay(w)} /\ Goto(w, "assess")
                /\ settlement' = [settlement EXCEPT ![o] = Pay(w)]
    <3>1. JobMoves(w, {"assess"})
      BY <1>0, <2>1, JobMovesLemma
    <3>2. \A v \in Workers : job[v].pc \in Claimed => Pay(v) \in Payments
      BY <1>0 DEF JobTypeOK, At, Claimed
    <3>3. None \notin Payments
      BY NoneAssumption
    <3>4. ClaimedOwns'
      BY <1>0, <2>1, <3>1, <3>2, <3>3
         DEF ClaimedOwns, JobMoves, OrderOfJob, Pay, Claimed
    <3>5. ConfirmConverted'
      BY <1>1, <3>1 DEF ClaimSettlement, ConfirmConverted, JobMoves, OrderOfJob, Pay,
         At, Claimed
    <3>6. ConvertedHeld' /\ ConfirmedHoldsStock'
      BY <1>0, <1>1, <2>1, <3>3 DEF ClaimSettlement, ConvertedHeld, ConfirmedHoldsStock
    <3>7. SingleSettlement'
      BY <1>0, <1>1, <2>1, <3>3 DEF ClaimSettlement, SingleSettlement
    <3>. QED BY <3>4, <3>5, <3>6, <3>7
  <2>2. CASE UNCHANGED settlement /\ Goto(w, "compensate")
    <3>1. Quiet(w)
      BY <1>0, <1>1, <2>2, JobMovesLemma DEF ClaimSettlement, Quiet, Claimed
    <3>. QED BY <3>1, QuietKeepsInv
  <2>. QED BY <1>1, <2>1, <2>2 DEF ClaimSettlement, MayClaim
<1>2. CASE Assess(w)
  <2>. DEFINE late == job[w].seen = "expired" \/ ~windowOpen[OrderOfJob(w)]
              r == [Started(IF late THEN "mark_late" ELSE "convert", Pay(w), "none")
                      EXCEPT !.late = late]
  <2>1. job' = [job EXCEPT ![w] = r]
    BY <1>0, <1>2 DEF Assess, JobTypeOK, Pay
  <2>2. r.pay = Pay(w) /\ r.pc \in {"mark_late", "convert"}
    BY DEF Started
  <2>3. JobMoves(w, {"mark_late", "convert"})
    BY <1>0, <2>1, <2>2 DEF JobMoves, JobTypeOK, Pay
  <2>4. ClaimedOwns' /\ ConfirmConverted'
    <3>1. UNCHANGED <<settlement, reservation>>
      BY <1>2 DEF Assess
    <3>2. job[w].pc = "assess"
      BY <1>2 DEF Assess, At
    <3>. HIDE DEF late, r
    <3>. QED BY <2>3, <3>1, <3>2, SMTT(30) DEF ClaimedOwns, ConfirmConverted, JobMoves,
           OrderOfJob, Pay, At, Claimed
  <2>5. ConvertedHeld' /\ ConfirmedHoldsStock' /\ SingleSettlement'
    BY <1>2 DEF Assess, ConvertedHeld, ConfirmedHoldsStock, SingleSettlement
  <2>. QED BY <2>4, <2>5
<1>3. CASE MarkLate(w)
  <2>1. JobMoves(w, {"convert"})
    BY <1>0, <1>3, JobMovesLemma DEF MarkLate
  <2>2. \A q \in Orders :
           /\ reservation[q] = "converted" => reservation'[q] = "converted"
           /\ reservation'[q] = "converted" => reservation[q] = "converted"
           /\ reservation'[q] = "payment_pending" => reservation[q] = "payment_pending"
    BY <1>0, <1>3 DEF MarkLate, MarkLatePaymentReview, Reviewable
  <2>3. ClaimedOwns'
    BY <1>3, <2>1 DEF MarkLate, ClaimedOwns, JobMoves, OrderOfJob, Pay, At, Claimed
  <2>4. ConfirmConverted'
    <3>1. \A v \in Workers : At(v, "confirm") => OrderOfJob(v) \in Orders
      BY <1>0, OrderOfAssumption DEF JobTypeOK, OrderOfJob, Pay, At
    <3>2. SUFFICES ASSUME NEW v \in Workers, job'[v].pc = "confirm"
                   PROVE  reservation'[OrderOf[job'[v].pay]] = "converted"
      BY DEF ConfirmConverted, OrderOfJob, Pay, At
    <3>3. job'[v] = job[v]
      BY <2>1, <3>2 DEF JobMoves, Claimed
    <3>. QED BY <2>2, <3>1, <3>2, <3>3 DEF ConfirmConverted, OrderOfJob, Pay, At
  <2>5. ConvertedHeld' /\ ConfirmedHoldsStock' /\ SingleSettlement'
    <3>1. UNCHANGED <<orderStatus, settlement, held, givenBack, pay>>
      BY <1>3 DEF MarkLate
    <3>2. ConvertedHeld'
      BY <2>2, <3>1 DEF ConvertedHeld
    <3>3. ConfirmedHoldsStock'
      BY <2>2, <3>1 DEF ConfirmedHoldsStock
    <3>4. SingleSettlement'
      BY <3>1 DEF SingleSettlement
    <3>. QED BY <3>2, <3>3, <3>4
  <2>. QED BY <2>3, <2>4, <2>5
<1>4. CASE Convert(w)
  <2>. DEFINE o == OrderOfJob(w)
  <2>1. CASE /\ reservation' = [reservation EXCEPT ![o] = "converted"]
             /\ held'[o] \/ o \in givenBack
             /\ \A q \in Orders \ {o} : held'[q] = held[q]
             /\ Goto(w, "confirm")
    <3>1. JobMoves(w, {"confirm"})
      BY <1>0, <2>1, JobMovesLemma
    <3>2. ClaimedOwns'
      <4>1. job[w].pc \in Claimed /\ settlement' = settlement
        BY <1>4 DEF Convert, At, Claimed, orderVars
      <4>2. ASSUME NEW v \in Workers, job'[v].pc \in Claimed
            PROVE  job[v].pc \in Claimed /\ job'[v].pay = job[v].pay
        BY <3>1, <4>1, <4>2 DEF JobMoves
      <4>. QED BY <4>1, <4>2 DEF ClaimedOwns, OrderOfJob, Pay
    <3>3. ConfirmConverted'
      <4>1. \A v \in Workers : At(v, "confirm") => OrderOfJob(v) \in Orders
        BY <1>0, OrderOfAssumption DEF JobTypeOK, OrderOfJob, Pay, At
      <4>. QED BY <1>0, <2>1, <3>1, <4>1
             DEF ConfirmConverted, JobMoves, OrderOfJob, Pay, At, Claimed
    <3>4. ConvertedHeld' /\ ConfirmedHoldsStock' /\ SingleSettlement'
      BY <1>0, <1>4, <2>1
         DEF Convert, ConvertedHeld, ConfirmedHoldsStock, SingleSettlement
    <3>. QED BY <3>2, <3>3, <3>4
  <2>2. CASE UNCHANGED <<reservation, held>> /\ Goto(w, "stock_refund")
    <3>1. JobMoves(w, {"stock_refund"})
      BY <1>0, <2>2, JobMovesLemma
    <3>a. /\ job[w].pc \in Claimed /\ settlement' = settlement /\ reservation' = reservation
      BY <1>4, <2>2 DEF Convert, At, Claimed, orderVars
    <3>2. ASSUME NEW v \in Workers, job'[v].pc \in Claimed
          PROVE  /\ job[v].pc \in Claimed /\ job'[v].pay = job[v].pay
                 /\ job'[v].pc = "confirm" => job[v].pc = "confirm"
      BY <3>1, <3>2, <3>a DEF JobMoves
    <3>b. ClaimedOwns'
      BY <3>2, <3>a DEF ClaimedOwns, OrderOfJob, Pay
    <3>c. ConfirmConverted'
      BY <3>2, <3>a DEF ConfirmConverted, OrderOfJob, Pay, At, Claimed
    <3>3. ConvertedHeld' /\ ConfirmedHoldsStock' /\ SingleSettlement'
      BY <1>4, <2>2 DEF Convert, ConvertedHeld, ConfirmedHoldsStock, SingleSettlement
    <3>. QED BY <3>b, <3>c, <3>3
  <2>3. CASE ConvertReservation(o) /\ Goto(w, "confirm")
    <3>1. Backed(o)
      BY <1>0, <2>3, ConvertBacks
    <3>. QED BY <1>0, <2>1, <2>3, <3>1 DEF ConvertReservation, Backed
  <2>4. CASE UNCHANGED <<reservation, held, sellable>> /\ Goto(w, "stock_refund")
    BY <2>2, <2>4
  <2>. QED BY <1>4, <2>3, <2>4 DEF Convert
<1>5. CASE Confirm(w)
  <2>. DEFINE o == OrderOfJob(w)
  <2>1. JobMoves(w, {})
    BY <1>0, <1>5, JobMovesLemma DEF Confirm, Claimed
  <2>2. ClaimedOwns' /\ ConfirmConverted'
    BY <1>5, <2>1 DEF Confirm, ClaimedOwns, ConfirmConverted, JobMoves, OrderOfJob,
       Pay, At, Claimed
  <2>3. /\ settlement[o] = Pay(w) /\ reservation[o] = "converted"
        /\ held[o] \/ o \in givenBack
    BY <1>0, <1>5 DEF Confirm, ClaimedOwns, ConfirmConverted, ConvertedHeld, At, Claimed
  <2>4. \A q \in Orders \ {o} : orderStatus'[q] = orderStatus[q]
    <3>1. \/ UNCHANGED orderStatus
          \/ orderStatus' = [orderStatus EXCEPT ![o] = "confirmed"]
      BY <1>5 DEF Confirm
    <3>. QED BY <1>0, <3>1
  <2>5. orderStatus'[o] = "confirmed" \/ UNCHANGED <<orderStatus, pay>>
    <3>1. \/ UNCHANGED <<orderStatus, pay>>
          \/ orderStatus[o] = "confirmed" /\ UNCHANGED orderStatus
          \/ orderStatus' = [orderStatus EXCEPT ![o] = "confirmed"]
      BY <1>5 DEF Confirm
    <3>. QED BY <1>0, <3>1
  <2>6. \A p \in Payments : p # Pay(w) => pay'[p] = pay[p]
    <3>1. pay' = pay \/ \E s : pay' = [pay EXCEPT ![Pay(w)] = s]
      BY <1>5 DEF Confirm
    <3>. QED BY <1>0, <3>1
  <2>7. UNCHANGED <<settlement, reservation, held, givenBack>>
    BY <1>5 DEF Confirm
  <2>8. ConvertedHeld'
    BY <2>7 DEF ConvertedHeld
  <2>9. ConfirmedHoldsStock'
    BY <1>0, <2>3, <2>4, <2>5, <2>7, NoneAssumption DEF ConfirmedHoldsStock
  <2>10. SingleSettlement'
    <3>1. \A p \in Payments : OrderOf[p] \in Orders
      BY OrderOfAssumption
    <3>. QED BY <1>0, <2>3, <2>4, <2>5, <2>6, <2>7, <3>1
           DEF SingleSettlement, OrderOfJob, Pay
  <2>. QED BY <2>2, <2>8, <2>9, <2>10
<1>. QED BY <1>1, <1>2, <1>3, <1>4, <1>5

\* Requests begin no claimed job, and crashes end them.
LEMMA OtherJobSteps ==
    ASSUME SettlementInv, NEW w \in Workers, TypeOK',
           Crash(w) \/ \E p \in Payments : RequestStep(w, p)
    PROVE  SettlementInv'
<1>. USE DEF SettlementInv, TypeOK
<1>0. JobTypeOK
  OBVIOUS
<1>1. CASE Crash(w)
  <2>1. JobMoves(w, {})
    BY <1>0, <1>1, JobMovesLemma, IdleType DEF Crash, Claimed
  <2>. QED BY <1>1, <2>1, QuietKeepsInv DEF Crash, Quiet
<1>2. ASSUME NEW p \in Payments, RequestStep(w, p) PROVE SettlementInv'
  <2>1. PICK pc \in {"insert", "lease"}, kind \in Kinds :
           job' = [job EXCEPT ![w] = Started(pc, p, kind)]
    BY <1>2 DEF RequestStep, InitiateCheck, CheckRequested, SchedulerReconcile, Kinds
  <2>2. Started(pc, p, kind).pc = pc
    BY DEF Started
  <2>3. JobMoves(w, {})
    BY <1>0, <2>1, <2>2, JobMovesLemma DEF Claimed
  <2>4. UNCHANGED <<orderStatus, settlement, reservation, held, givenBack, pay>>
    BY <1>2 DEF RequestStep, InitiateCheck, CheckRequested, SchedulerReconcile
  <2>. QED BY <2>3, <2>4, QuietKeepsInv DEF Quiet
<1>. QED BY <1>1, <1>2

\* Steps outside the jobs: what they may do to orders, stock and payments.
Outside ==
    /\ UNCHANGED <<job, settlement>>
    /\ \A o \in Orders :
          /\ reservation[o] = "converted" => reservation'[o] = "converted"
          /\ reservation'[o] = "payment_pending" => held'[o]
          /\ reservation'[o] = "converted" => held'[o] \/ o \in givenBack'
          /\ orderStatus[o] = "confirmed" <=> orderStatus'[o] = "confirmed"
    /\ \A p \in Payments : pay'[p] \in Kept => pay[p] \in Kept

\* A step outside the jobs keeps the inductive invariant.
LEMMA OutsideKeepsInv ==
    ASSUME SettlementInv, TypeOK', Outside
    PROVE  SettlementInv'
<1>. USE DEF SettlementInv, Outside
<1>0. \A w \in Workers : At(w, "confirm") => OrderOfJob(w) \in Orders
  BY OrderOfAssumption DEF TypeOK, JobTypeOK, OrderOfJob, Pay, At
<1>1. ClaimedOwns'
  BY DEF ClaimedOwns, OrderOfJob, Pay
<1>2. ConfirmConverted'
  BY <1>0 DEF ConfirmConverted, OrderOfJob, Pay, At
<1>3. ConvertedHeld' /\ ConfirmedHoldsStock'
  BY DEF ConvertedHeld, ConfirmedHoldsStock
<1>4. SingleSettlement'
  BY OrderOfAssumption DEF SingleSettlement
<1>. QED BY <1>1, <1>2, <1>3, <1>4

\* A step that leaves the reservations and their units alone is such a step.
LEMMA StillOutside ==
    ASSUME ConvertedHeld, UNCHANGED <<reservation, held, givenBack>>
    PROVE  \A q \in Orders :
              /\ reservation[q] = "converted" => reservation'[q] = "converted"
              /\ reservation'[q] = "payment_pending" => held'[q]
              /\ reservation'[q] = "converted" => held'[q] \/ q \in givenBack'
BY DEF ConvertedHeld

\* A release never touches a converted reservation: its status guard is what protects
\* a paid order from the sweeps, and from the staff's release and expire.
LEMMA ReleaseOutside ==
    ASSUME StockTypeOK, ConvertedHeld, NEW o \in Orders, givenBack' = givenBack,
           NEW target \in {"cancelled", "expired", "released"}, Release(o, target)
    PROVE  \A q \in Orders :
              /\ reservation[q] = "converted" => reservation'[q] = "converted"
              /\ reservation'[q] = "payment_pending" => held'[q]
              /\ reservation'[q] = "converted" => held'[q] \/ q \in givenBack'
BY DEF StockTypeOK, ConvertedHeld, Release, Releasable

\* Neither do the staff's other operations; what they give back they are known to have.
LEMMA StaffOutside ==
    ASSUME StockTypeOK, ConvertedHeld, NEW o \in Orders,
           StaffRelease(o) \/ StaffLateReview(o) \/ StaffConvert(o) \/ ReleaseCommitment(o)
    PROVE  \A q \in Orders :
              /\ reservation[q] = "converted" => reservation'[q] = "converted"
              /\ reservation'[q] = "payment_pending" => held'[q]
              /\ reservation'[q] = "converted" => held'[q] \/ q \in givenBack'
<1>1. CASE StaffRelease(o)
  BY <1>1, ReleaseOutside DEF StaffRelease
<1>2. CASE StaffLateReview(o)
  BY <1>2 DEF StaffLateReview, MarkLatePaymentReview, Reviewable, StockTypeOK, ConvertedHeld
<1>3. CASE StaffConvert(o)
  <2>1. Backed(o) /\ givenBack' = givenBack
    BY <1>3, ConvertBacks DEF StaffConvert
  <2>. QED BY <2>1 DEF Backed, ConvertedHeld
<1>4. CASE ReleaseCommitment(o)
  BY <1>4 DEF ReleaseCommitment, StockTypeOK, ConvertedHeld
<1>. QED BY <1>1, <1>2, <1>3, <1>4

\* Refunds, the gateway, customers, sweeps and other sales are all such steps.
LEMMA OutsideSteps ==
    ASSUME TypeOK, ConvertedHeld,
           \/ \E p \in Payments : PaymentStep(p)
           \/ \E o \in Orders : OrderStep(o)
           \/ SellElsewhere \/ Restock \/ UNCHANGED vars
    PROVE  Outside
<1>. USE DEF TypeOK, OrderTypeOK, PaymentTypeOK, Outside
<1>1. ASSUME NEW p \in Payments, PaymentStep(p) PROVE Outside
  <2>1. CASE StaffRefund(p)
    BY <2>1, StillOutside DEF StaffRefund
  <2>2. CASE RefundCompleted(p)
    BY <2>2, StillOutside DEF RefundCompleted, Kept
  <2>3. CASE Capture(p)
    BY <2>3, StillOutside DEF Capture
  <2>4. CASE LeaseExpire(p)
    BY <2>4, StillOutside DEF LeaseExpire
  <2>. QED BY <1>1, <2>1, <2>2, <2>3, <2>4 DEF PaymentStep
<1>2. ASSUME NEW o \in Orders, OrderStep(o) PROVE Outside
  <2>1. CASE CloseWindow(o)
    BY <2>1, StillOutside DEF CloseWindow
  <2>2. CASE CancelOrder(o)
    BY <2>2, ReleaseOutside DEF CancelOrder
  <2>3. CASE ExpireOrder(o)
    BY <2>3, ReleaseOutside DEF ExpireOrder
  <2>4. CASE ListReservation(o)
    BY <2>4, StillOutside DEF ListReservation
  <2>5. CASE ExpireReservation(o)
    BY <2>5, ReleaseOutside DEF ExpireReservation
  <2>6. CASE StaffStep(o)
    BY <2>6, StaffOutside DEF StaffStep
  <2>. QED BY <1>2, <2>1, <2>2, <2>3, <2>4, <2>5, <2>6 DEF OrderStep
<1>3. CASE SellElsewhere \/ Restock
  BY <1>3, StillOutside DEF SellElsewhere, Restock
<1>4. CASE UNCHANGED vars
  BY <1>4, StillOutside DEF vars
<1>. QED BY <1>1, <1>2, <1>3, <1>4
-----------------------------------------------------------------------------
(* The theorems. *)

\* The inductive invariant holds of every run.
THEOREM SettlementInvariant == Spec => []SettlementInv
<1>1. Init => SettlementInv
  <2>. SUFFICES ASSUME Init PROVE SettlementInv
    OBVIOUS
  <2>1. TypeOK
    BY InitTypes
  <2>2. \A w \in Workers : job[w].pc = "idle"
    BY IdleType DEF Init
  <2>. QED BY <2>1, <2>2 DEF Init, SettlementInv, ClaimedOwns, Claimed, ConfirmConverted,
         At, ConvertedHeld, SingleSettlement, ConfirmedHoldsStock, Kept
<1>2. SettlementInv /\ TypeOK' /\ [Next]_vars => SettlementInv'
  <2>. SUFFICES ASSUME SettlementInv, TypeOK', [Next]_vars PROVE SettlementInv'
    OBVIOUS
  <2>0. TypeOK
    BY DEF SettlementInv
  <2>1. ASSUME NEW w \in Workers, WorkerStep(w) PROVE SettlementInv'
    BY <2>0, <2>1, QuietSteps, QuietKeepsInv, SettlingSteps DEF WorkerStep
  <2>2. ASSUME NEW w \in Workers, Crash(w) \/ \E p \in Payments : RequestStep(w, p)
        PROVE  SettlementInv'
    BY <2>2, OtherJobSteps
  <2>3. ASSUME \/ \E p \in Payments : PaymentStep(p)
               \/ \E o \in Orders : OrderStep(o)
               \/ SellElsewhere \/ Restock \/ UNCHANGED vars
        PROVE  SettlementInv'
    BY <2>0, <2>3, OutsideSteps, OutsideKeepsInv DEF SettlementInv
  <2>. QED BY <2>1, <2>2, <2>3 DEF Next
<1>. QED BY <1>1, <1>2, TypeCorrect, PTL DEF Spec

\* An order keeps the money of one payment, the one that claimed it.
THEOREM SettlementIsSingle == Spec => []SingleSettlement
<1>1. SettlementInv => SingleSettlement
  BY DEF SettlementInv
<1>. QED BY <1>1, SettlementInvariant, PTL

\* A confirmed order has its stock converted, and held unless staff gave it back.
THEOREM StockBacksOrders == Spec => []ConfirmedHoldsStock
<1>1. SettlementInv => ConfirmedHoldsStock
  BY DEF SettlementInv
<1>. QED BY <1>1, SettlementInvariant, PTL

\* The step relation of DecisionsAreFinal.
Final ==
    \A o \in Orders :
        /\ orderStatus[o] \in {"confirmed", "cancelled"} => orderStatus'[o] = orderStatus[o]
        /\ settlement[o] # None => settlement'[o] = settlement[o]

\* Confirmed and cancelled orders stay so, and a claimed settlement is never replaced,
\* in every step of every run.
THEOREM DecisionsStand == Spec => DecisionsAreFinal
<1>1. TypeOK /\ [Next]_vars => [Final]_vars
  <2>. SUFFICES ASSUME TypeOK, Next PROVE Final
    BY DEF vars, Final
  <2>. USE DEF TypeOK, OrderTypeOK, Final
  <2>1. ASSUME NEW w \in Workers, WorkerStep(w) PROVE Final
    <3>1. CASE ClaimSettlement(w)
      BY <3>1 DEF ClaimSettlement, MayClaim, OrderOfJob, Pay
    <3>2. CASE Confirm(w)
      BY <3>2 DEF Confirm, Refused
    <3>3. ASSUME ~ClaimSettlement(w), ~Confirm(w)
          PROVE  UNCHANGED <<orderStatus, settlement>>
      BY <2>1, <3>3 DEF WorkerStep, InitiateInsert, InitiateCall, InitiateStore,
         LeaseClaim, Ask, ApplyPending, ApplyFailed, Compensate, Assess, MarkLate,
         Convert, StockRefund, ReviewRead, ReviewWrite
    <3>. QED BY <3>1, <3>2, <3>3
  <2>2. ASSUME NEW w \in Workers, Crash(w) PROVE Final
    BY <2>2 DEF Crash
  <2>3. ASSUME NEW w \in Workers, NEW p \in Payments, RequestStep(w, p) PROVE Final
    BY <2>3 DEF RequestStep, InitiateCheck, CheckRequested, SchedulerReconcile
  <2>4. ASSUME NEW p \in Payments, PaymentStep(p) PROVE Final
    BY <2>4 DEF PaymentStep, StaffRefund, RefundCompleted, Capture, LeaseExpire
  <2>5. ASSUME NEW o \in Orders, OrderStep(o) PROVE Final
    BY <2>5 DEF OrderStep, CloseWindow, CancelOrder, ExpireOrder, ListReservation,
       ExpireReservation, StaffStep
  <2>6. CASE SellElsewhere \/ Restock
    BY <2>6 DEF SellElsewhere, Restock
  <2>. QED BY <2>1, <2>2, <2>3, <2>4, <2>5, <2>6 DEF Next
<1>. QED BY <1>1, TypeCorrect, PTL DEF Spec, DecisionsAreFinal, Final
-----------------------------------------------------------------------------
(* What is begun and watched, whether or not jobs outlive their leases.                *)

\* Only a fresh payment is inserted, by one job and with no other at work for it; other jobs
\* and reconciliations are of payments that were inserted.
Fresh(w) == At(w, "insert") => /\ pay[Pay(w)] = "none"
                               /\ \A v \in Workers \ {w} : Pay(v) # Pay(w)
Begun ==
    /\ \A w \in Workers : Fresh(w)
    /\ \A w \in Workers : ~At(w, "idle") /\ ~At(w, "insert") => pay[Pay(w)] # "none"
    /\ \A p \in Payments : recon[p] \/ refund[p] # "none" => pay[p] # "none"

\* The gateway is called once for a payment, before it has a session.
Uncalled(w) == job[w].pc \in {"insert", "call"} =>
    /\ session[Pay(w)] = "none"
    /\ \A v \in Workers \ {w} : job[v].pc \in {"insert", "call"} => Pay(v) # Pay(w)
Called ==
    /\ \A w \in Workers : Uncalled(w)
    /\ \A p \in Payments : pay[p] = "none" => session[p] = "none"

\* A failure is final only if the session is over; a review that found a payment resolved
\* still finds it so.
Over == {"closed", "reversed"}
Watched ==
    /\ \A p \in Payments : pay[p] \in {"unknown", "failed"} =>
          recon[p] \/ manual[p] \/ session[p] \in Over
    /\ \A w \in Workers :
          /\ At(w, "apply_failed") /\ ~AskAgain(w) => session[Pay(w)] \in Over
          /\ At(w, "review_write") /\ job[w].terminal => pay[Pay(w)] \in Terminal

WatchInv == TypeOK /\ Begun /\ Called /\ Watched

\* What the job primitives make of a job.
LEMMA JobPrimitives ==
    ASSUME JobTypeOK, NEW w \in Workers
    PROVE  /\ Finish(w) => job'[w] = Idle /\ \A v \in Workers \ {w} : job'[v] = job[v]
           /\ \A b : ToReview(w, b) =>
                 /\ job'[w].pc = "review" /\ job'[w].pay = Pay(w)
                 /\ \A v \in Workers \ {w} : job'[v] = job[v]
           /\ \A pc : Goto(w, pc) =>
                 /\ job'[w].pc = pc /\ job'[w].pay = Pay(w)
                 /\ job'[w].kind = job[w].kind /\ job'[w].seen = job[w].seen
                 /\ \A v \in Workers \ {w} : job'[v] = job[v]
<1>1. Finish(w) => job'[w] = Idle /\ \A v \in Workers \ {w} : job'[v] = job[v]
  BY DEF Finish, JobTypeOK
<1>2. ASSUME NEW b, ToReview(w, b)
      PROVE  /\ job'[w].pc = "review" /\ job'[w].pay = Pay(w)
             /\ \A v \in Workers \ {w} : job'[v] = job[v]
  <2>1. PICK r : r = [Started("review", Pay(w), "none") EXCEPT !.permanent = b]
    OBVIOUS
  <2>2. r.pc = "review" /\ r.pay = Pay(w)
    BY <2>1 DEF Started
  <2>3. job' = [job EXCEPT ![w] = r]
    BY <1>2, <2>1 DEF ToReview, Pay, JobTypeOK
  <2>. QED BY <2>2, <2>3 DEF JobTypeOK
<1>3. ASSUME NEW pc, Goto(w, pc)
      PROVE  /\ job'[w].pc = pc /\ job'[w].pay = Pay(w)
             /\ job'[w].kind = job[w].kind /\ job'[w].seen = job[w].seen
             /\ \A v \in Workers \ {w} : job'[v] = job[v]
  BY <1>3 DEF Goto, JobTypeOK, Jobs, Pay
<1>. QED BY <1>1, <1>2, <1>3

\* A worker's step moves its own job only, which keeps its payment or ends, and it changes
\* no other payment.
Frame(w) ==
    /\ \A v \in Workers \ {w} : job'[v] = job[v]
    /\ job'[w] = Idle \/ job'[w].pay = Pay(w)
    /\ \A q \in Payments \ {Pay(w)} :
          /\ pay'[q] = pay[q] /\ recon'[q] = recon[q] /\ manual'[q] = manual[q]
          /\ refund'[q] = refund[q] /\ session'[q] = session[q]
          /\ lease'[q] = lease[q]
    /\ lease'[Pay(w)] = lease[Pay(w)] \/ lease[Pay(w)] \in {None, w}

\* Every step of a worker is framed so.
LEMMA WorkerFrame ==
    ASSUME TypeOK, NEW w \in Workers, WorkerStep(w)
    PROVE  Frame(w)
<1>. USE DEF Frame, TypeOK, PaymentTypeOK, LeaseTypeOK
<1>0. JobTypeOK /\ Pay(w) \in Payments
  BY WorkerBusy
<1>f. Finish(w) => /\ job'[w] = Idle /\ \A v \in Workers \ {w} : job'[v] = job[v]
                   /\ \A q \in Payments \ {Pay(w)} : lease'[q] = lease[q]
                   /\ lease'[Pay(w)] = lease[Pay(w)] \/ lease[Pay(w)] = w
  <2>1. Finish(w) => job'[w] = Idle /\ \A v \in Workers \ {w} : job'[v] = job[v]
    BY <1>0, JobPrimitives
  <2>2. Finish(w) => /\ \A q \in Payments \ {Pay(w)} : lease'[q] = lease[q]
                     /\ lease'[Pay(w)] = lease[Pay(w)] \/ lease[Pay(w)] = w
    BY <1>0 DEF Finish, Pay
  <2>. QED BY <2>1, <2>2
<1>g. \A pc : Goto(w, pc) => /\ job'[w].pay = Pay(w)
                             /\ \A v \in Workers \ {w} : job'[v] = job[v]
  BY <1>0, JobPrimitives
<1>r. \A b : ToReview(w, b) => /\ job'[w].pay = Pay(w)
                               /\ \A v \in Workers \ {w} : job'[v] = job[v]
  BY <1>0, JobPrimitives
<1>1. CASE InitiateInsert(w)
  BY <1>0, <1>1, <1>f, <1>g DEF InitiateInsert
<1>2. CASE InitiateCall(w)
  BY <1>0, <1>2, <1>r, <1>g DEF InitiateCall
<1>3. CASE InitiateStore(w)
  BY <1>0, <1>3, <1>f DEF InitiateStore
<1>4. CASE LeaseClaim(w)
  <2>1. CASE LeaseFree(Pay(w)) /\ Goto(w, "ask")
    BY <1>0, <1>4, <2>1, <1>g DEF LeaseClaim, LeaseFree
  <2>2. CASE job' = [job EXCEPT ![w] = Idle] /\ UNCHANGED lease
    BY <1>0, <1>4, <2>2 DEF LeaseClaim, JobTypeOK
  <2>. QED BY <1>4, <2>1, <2>2 DEF LeaseClaim
<1>5. CASE Ask(w)
  <2>1. CASE Finish(w)
    BY <1>0, <1>5, <2>1, <1>f DEF Ask
  <2>2. CASE UNCHANGED lease /\ ((\E b : ToReview(w, b))
                                   \/ Goto(w, "apply_pending") \/ Goto(w, "apply_failed"))
    BY <1>0, <1>5, <2>2, <1>g, <1>r DEF Ask
  <2>3. CASE UNCHANGED lease
             /\ job' = [job EXCEPT ![w] = [Started("claim", Pay(w), "none")
                          EXCEPT !.seen = orderStatus[OrderOf[Pay(w)]]]]
    <3>1. PICK r : r = [Started("claim", Pay(w), "none")
                          EXCEPT !.seen = orderStatus[OrderOf[Pay(w)]]]
      OBVIOUS
    <3>2. r.pay = Pay(w)
      BY <3>1 DEF Started
    <3>3. job' = [job EXCEPT ![w] = r]
      BY <2>3, <3>1
    <3>. QED BY <1>0, <1>5, <2>3, <3>2, <3>3 DEF Ask, JobTypeOK
  <2>. QED BY <1>5, <2>1, <2>2, <2>3 DEF Ask
<1>6. CASE ApplyPending(w)
  BY <1>0, <1>6, <1>f, <1>r DEF ApplyPending
<1>7. CASE ApplyFailed(w)
  BY <1>0, <1>7, <1>f DEF ApplyFailed
<1>8. CASE ClaimSettlement(w)
  BY <1>0, <1>8, <1>g DEF ClaimSettlement
<1>9. CASE Compensate(w)
  BY <1>0, <1>9, <1>f, <1>r DEF Compensate, CreateCompensatingRefund
<1>10. CASE Assess(w)
  <2>1. PICK late \in BOOLEAN, pc \in Steps :
           job' = [job EXCEPT ![w] = [Started(pc, Pay(w), "none") EXCEPT !.late = late]]
    BY <1>0, <1>10 DEF Assess, JobTypeOK, Pay, Steps
  <2>2. PICK r : r = [Started(pc, Pay(w), "none") EXCEPT !.late = late]
    OBVIOUS
  <2>3. r.pay = Pay(w)
    BY <2>2 DEF Started
  <2>. QED BY <1>0, <1>10, <2>1, <2>2, <2>3 DEF Assess, JobTypeOK
<1>11. CASE MarkLate(w)
  BY <1>0, <1>11, <1>g, <1>r DEF MarkLate
<1>12. CASE Convert(w)
  BY <1>0, <1>12, <1>g DEF Convert
<1>13. CASE StockRefund(w)
  BY <1>0, <1>13, <1>f, <1>r DEF StockRefund, CreateCompensatingRefund
<1>14. CASE Confirm(w)
  BY <1>0, <1>14, <1>f, <1>r DEF Confirm
<1>15. CASE ReviewRead(w)
  <2>1. CASE Finish(w)
    BY <1>15, <2>1, <1>f DEF ReviewRead
  <2>2. CASE ~Finish(w)
    <3>1. PICK t, n : job' = [job EXCEPT ![w] = [job[w] EXCEPT !.pc = "review_write",
                                                    !.terminal = t, !.n = n]]
      BY <1>0, <1>15, <2>2 DEF ReviewRead, JobTypeOK
    <3>2. PICK r : r = [job[w] EXCEPT !.pc = "review_write", !.terminal = t, !.n = n]
      OBVIOUS
    <3>3. r.pay = Pay(w)
      BY <1>0, <3>2 DEF JobTypeOK, Jobs, Pay
    <3>. QED BY <1>0, <1>15, <2>2, <3>1, <3>2, <3>3 DEF ReviewRead, JobTypeOK
  <2>. QED BY <2>1, <2>2
<1>16. CASE ReviewWrite(w)
  BY <1>0, <1>16, <1>f DEF ReviewWrite
<1>. QED BY <1>1, <1>2, <1>3, <1>4, <1>5, <1>6, <1>7, <1>8, <1>9, <1>10, <1>11, <1>12,
       <1>13, <1>14, <1>15, <1>16 DEF WorkerStep

\* What a worker's step makes of its own payment and job, for what is begun and watched.
Watches(w) ==
    LET p == Pay(w) IN
    /\ pay'[p] # "none" \/ UNCHANGED <<pay, recon, refund>>
    /\ pay[p] \in Terminal => pay'[p] \in Terminal
    /\ pay'[p] \in {"unknown", "failed"} => recon'[p] \/ manual'[p] \/ session'[p] \in Over
    /\ session[p] \in Over => session'[p] \in Over
    /\ At(w, "call") \/ session' = session
    /\ job'[w].pc # "insert"
    /\ job'[w].pc = "call" => At(w, "insert")
    /\ job'[w].pc # "idle" => pay'[p] # "none"
    /\ job'[w].pc = "apply_failed" /\ ~AskAgain(w)' => session'[p] \in Over
    /\ job'[w].pc = "review_write" /\ job'[w].terminal => pay'[p] \in Terminal

\* A framed step of that kind keeps what is begun, called and watched.
LEMMA WatchesKeepInv ==
    ASSUME WatchInv, TypeOK', NEW w \in Workers, Pay(w) \in Payments, ~At(w, "idle"),
           Frame(w), Watches(w)
    PROVE  WatchInv'
<1>. USE DEF WatchInv
<1>1. JobTypeOK /\ Idle.pc = "idle" /\ Idle.pay = None /\ None \notin Payments
  BY IdleType, NoneAssumption DEF TypeOK, Idle, Started
<1>2. Begun'
  <2>1. ASSUME NEW v \in Workers, job'[v].pc = "insert"
        PROVE  /\ pay'[Pay(v)'] = "none"
               /\ \A u \in Workers \ {v} : Pay(u)' # Pay(v)'
    <3>1. v # w /\ job'[v] = job[v] /\ Pay(v) \in Payments
      BY <1>1, <2>1 DEF Frame, Watches, JobTypeOK, At, Pay
    <3>2. pay[Pay(v)] = "none" /\ \A u \in Workers \ {v} : Pay(u) # Pay(v)
      BY <2>1, <3>1 DEF Begun, Fresh, At, Pay
    <3>3. pay'[Pay(v)] = "none"
      BY <3>1, <3>2 DEF Frame
    <3>4. ASSUME NEW u \in Workers \ {v} PROVE Pay(u)' # Pay(v)'
      <4>1. job'[u] = job[u] \/ job'[u] = Idle \/ job'[u].pay = Pay(u)
        BY DEF Frame
      <4>. QED BY <1>1, <3>1, <3>2, <4>1 DEF Pay
    <3>. QED BY <3>1, <3>3, <3>4 DEF Pay
  <2>2. ASSUME NEW v \in Workers, job'[v].pc # "idle", job'[v].pc # "insert"
        PROVE  pay'[Pay(v)'] # "none"
    <3>1. CASE v = w
      BY <1>1, <2>2, <3>1 DEF Frame, Watches, Pay
    <3>2. CASE v # w
      <4>1. job'[v] = job[v] /\ Pay(v) \in Payments
        BY <1>1, <2>2, <3>2 DEF Frame, JobTypeOK, At, Pay
      <4>2. pay[Pay(v)] # "none"
        BY <2>2, <4>1 DEF Begun, At
      <4>. QED BY <4>1, <4>2 DEF Frame, Watches, Pay
    <3>. QED BY <3>1, <3>2
  <2>3. ASSUME NEW p \in Payments, recon'[p] \/ refund'[p] # "none"
        PROVE  pay'[p] # "none"
    BY <2>3 DEF Frame, Watches, Begun
  <2>. QED BY <2>1, <2>2, <2>3 DEF Begun, Fresh, At
<1>3. Called'
  <2>1. ASSUME NEW v \in Workers, job'[v].pc \in {"insert", "call"}
        PROVE  /\ session'[Pay(v)'] = "none"
               /\ \A u \in Workers \ {v} :
                     job'[u].pc \in {"insert", "call"} => Pay(u)' # Pay(v)'
    <3>1. \A u \in Workers : job'[u].pc \in {"insert", "call"} =>
            job[u].pc \in {"insert", "call"} /\ job'[u].pay = Pay(u) /\ Pay(u) \in Payments
      BY <1>1 DEF Frame, Watches, JobTypeOK, At, Pay
    <3>2. session[Pay(v)] = "none"
          /\ \A u \in Workers \ {v} : job[u].pc \in {"insert", "call"} => Pay(u) # Pay(v)
      BY <2>1, <3>1 DEF Called, Uncalled
    <3>3. session'[Pay(v)] = "none"
      <4>1. CASE session' = session
        BY <3>2, <4>1
      <4>2. CASE At(w, "call")
        <5>1. v # w
          BY <2>1, <4>2 DEF Watches, At
        <5>2. Pay(w) # Pay(v)
          BY <3>2, <4>2, <5>1 DEF At
        <5>. QED BY <2>1, <3>1, <3>2, <5>2 DEF Frame
      <4>. QED BY <4>1, <4>2 DEF Watches
    <3>. QED BY <2>1, <3>1, <3>2, <3>3 DEF Pay
  <2>2. ASSUME NEW p \in Payments, pay'[p] = "none" PROVE session'[p] = "none"
    <3>1. pay[p] = "none"
      BY <2>2 DEF Frame, Watches
    <3>2. At(w, "call") => p # Pay(w)
      BY <3>1 DEF Begun, At
    <3>. QED BY <3>1, <3>2 DEF Frame, Watches, Called
  <2>. QED BY <2>1, <2>2 DEF Called, Uncalled
<1>4. Watched'
  <2>1. ASSUME NEW p \in Payments, pay'[p] \in {"unknown", "failed"}
        PROVE  recon'[p] \/ manual'[p] \/ session'[p] \in Over
    BY <2>1 DEF Watched, Frame, Watches
  <2>2. ASSUME NEW v \in Workers, job'[v].pc = "apply_failed", ~AskAgain(v)'
        PROVE  session'[Pay(v)'] \in Over
    <3>1. CASE v = w
      BY <1>1, <2>2, <3>1 DEF Frame, Watches, Pay
    <3>2. CASE v # w
      <4>1. job'[v] = job[v] /\ Pay(v) \in Payments
        BY <1>1, <2>2, <3>2 DEF Frame, JobTypeOK, At, Pay
      <4>2. session[Pay(v)] \in Over
        BY <2>2, <4>1 DEF Watched, At, AskAgain
      <4>. QED BY <4>1, <4>2 DEF Frame, Watches, Pay
    <3>. QED BY <3>1, <3>2
  <2>3. ASSUME NEW v \in Workers, job'[v].pc = "review_write", job'[v].terminal
        PROVE  pay'[Pay(v)'] \in Terminal
    <3>1. CASE v = w
      BY <1>1, <2>3, <3>1 DEF Frame, Watches, Pay
    <3>2. CASE v # w
      <4>1. job'[v] = job[v] /\ Pay(v) \in Payments
        BY <1>1, <2>3, <3>2 DEF Frame, JobTypeOK, At, Pay
      <4>2. pay[Pay(v)] \in Terminal
        BY <2>3, <4>1 DEF Watched, At
      <4>. QED BY <4>1, <4>2 DEF Frame, Watches, Pay
    <3>. QED BY <3>1, <3>2
  <2>. QED BY <2>1, <2>2, <2>3 DEF Watched, At
<1>. QED BY <1>2, <1>3, <1>4

\* Every step of a worker is of that kind.
LEMMA WorkerWatches ==
    ASSUME WatchInv, NEW w \in Workers, WorkerStep(w)
    PROVE  Watches(w)
<1>. USE DEF Watches
<1>0. /\ JobTypeOK /\ PaymentTypeOK /\ Pay(w) \in Payments /\ ~At(w, "idle")
      /\ job[w] \in Jobs /\ Idle.pc = "idle" /\ OrderOfJob(w) \in Orders
  BY WorkerBusy, IdleType DEF WatchInv, TypeOK
<1>b. /\ ~At(w, "insert") => pay[Pay(w)] # "none"
      /\ pay[Pay(w)] \in {"unknown", "failed"} =>
            recon[Pay(w)] \/ manual[Pay(w)] \/ session[Pay(w)] \in Over
      /\ At(w, "apply_failed") /\ ~AskAgain(w) => session[Pay(w)] \in Over
      /\ At(w, "review_write") /\ job[w].terminal => pay[Pay(w)] \in Terminal
      /\ At(w, "insert") => pay[Pay(w)] = "none"
      /\ At(w, "call") => session[Pay(w)] = "none"
  BY <1>0 DEF WatchInv, Begun, Fresh, Called, Uncalled, Watched, At
<1>f. Finish(w) => job'[w].pc = "idle"
  BY <1>0, JobPrimitives
<1>g. \A pc : Goto(w, pc) => job'[w].pc = pc /\ job'[w].kind = job[w].kind
  BY <1>0, JobPrimitives
<1>r. \A b : ToReview(w, b) => job'[w].pc = "review"
  BY <1>0, JobPrimitives
<1>. USE DEF Terminal, Kept, Unsettled, InFlight, PaymentTypeOK
<1>1. CASE InitiateInsert(w)
  BY <1>0, <1>1, <1>b, <1>f, <1>g DEF InitiateInsert, At
<1>2. CASE InitiateCall(w)
  <2>1. job'[w].pc \in {"store", "review"}
    BY <1>2, <1>g, <1>r DEF InitiateCall
  <2>. QED BY <1>0, <1>2, <1>b, <2>1 DEF InitiateCall, At, Over
<1>3. CASE InitiateStore(w)
  BY <1>0, <1>3, <1>b, <1>f DEF InitiateStore, At
<1>4. CASE LeaseClaim(w)
  <2>1. job'[w].pc \in {"ask", "idle"}
    BY <1>0, <1>4, <1>g DEF LeaseClaim, JobTypeOK
  <2>. QED BY <1>4, <1>b, <2>1 DEF LeaseClaim, At
<1>5. CASE Ask(w)
  <2>1. UNCHANGED <<pay, reviewVars, refund, session>> /\ pay[Pay(w)] # "none"
    BY <1>5, <1>b DEF Ask, At
  <2>2. \/ job'[w].pc \in {"idle", "apply_pending", "review", "claim"}
        \/ /\ job'[w].pc = "apply_failed" /\ job'[w].kind = job[w].kind
           /\ "failed" \in Answers(Pay(w), job[w].kind)
    <3>1. CASE job' = [job EXCEPT ![w] = [Started("claim", Pay(w), "none")
                         EXCEPT !.seen = orderStatus[OrderOf[Pay(w)]]]]
      <4>1. [Started("claim", Pay(w), "none")
               EXCEPT !.seen = orderStatus[OrderOf[Pay(w)]]].pc = "claim"
        BY DEF Started
      <4>. QED BY <1>0, <3>1, <4>1 DEF JobTypeOK
    <3>2. CASE Finish(w) \/ (\E b : ToReview(w, b)) \/ Goto(w, "apply_pending")
      BY <1>f, <1>g, <1>r, <3>2
    <3>3. CASE Goto(w, "apply_failed") /\ "failed" \in Answers(Pay(w), job[w].kind)
      BY <1>g, <3>3
    <3>. QED BY <1>5, <3>1, <3>2, <3>3 DEF Ask
  <2>3. "failed" \in Answers(Pay(w), "reconcile") => session[Pay(w)] \in Over
    BY DEF Answers, Over
  <2>. QED BY <1>b, <2>1, <2>2, <2>3 DEF AskAgain, At
<1>6. CASE ApplyPending(w)
  BY <1>0, <1>6, <1>b, <1>f, <1>r DEF ApplyPending, At
<1>7. CASE ApplyFailed(w)
  BY <1>0, <1>7, <1>b, <1>f DEF ApplyFailed, At
<1>8. CASE ClaimSettlement(w)
  BY <1>0, <1>8, <1>b, <1>g DEF ClaimSettlement, At
<1>9. CASE Compensate(w)
  BY <1>0, <1>9, <1>b, <1>f, <1>r DEF Compensate, At
<1>10. CASE Assess(w)
  <2>1. PICK late \in BOOLEAN, pc \in {"mark_late", "convert"} :
           job' = [job EXCEPT ![w] = [Started(pc, Pay(w), "none") EXCEPT !.late = late]]
    BY <1>0, <1>10 DEF Assess, JobTypeOK, Pay
  <2>2. [Started(pc, Pay(w), "none") EXCEPT !.late = late].pc = pc
    BY DEF Started
  <2>3. job'[w].pc = pc
    BY <1>0, <2>1, <2>2 DEF JobTypeOK
  <2>. QED BY <1>10, <1>b, <2>3 DEF Assess, At
<1>11. CASE MarkLate(w)
  <2>1. job'[w].pc \in {"convert", "review"}
    BY <1>11, <1>g, <1>r DEF MarkLate
  <2>. QED BY <1>11, <1>b, <2>1 DEF MarkLate, At
<1>12. CASE Convert(w)
  BY <1>0, <1>12, <1>b, <1>g DEF Convert, At
<1>13. CASE StockRefund(w)
  BY <1>0, <1>13, <1>b, <1>f, <1>r DEF StockRefund, At
<1>14. CASE Confirm(w)
  BY <1>0, <1>14, <1>b, <1>f, <1>r DEF Confirm, At
<1>15. CASE ReviewRead(w)
  <2>1. CASE Finish(w)
    BY <1>15, <2>1, <1>b, <1>f DEF ReviewRead, At
  <2>2. CASE ~Finish(w)
    <3>1. PICK t, n :
             /\ job' = [job EXCEPT ![w] = [job[w] EXCEPT !.pc = "review_write",
                                                    !.terminal = t, !.n = n]]
             /\ t = (pay[Pay(w)] \in Terminal)
      BY <1>0, <1>15, <2>2 DEF ReviewRead, JobTypeOK
    <3>2. PICK r : r = [job[w] EXCEPT !.pc = "review_write", !.terminal = t, !.n = n]
      OBVIOUS
    <3>3. r.pc = "review_write" /\ r.terminal = t
      BY <1>0, <3>2 DEF Jobs
    <3>4. job'[w] = r
      BY <1>0, <3>1, <3>2 DEF JobTypeOK
    <3>. QED BY <1>15, <1>b, <3>1, <3>3, <3>4 DEF ReviewRead, At
  <2>. QED BY <2>1, <2>2
<1>16. CASE ReviewWrite(w)
  <2>1. /\ job'[w].pc = "idle" /\ UNCHANGED <<refund, session>>
        /\ pay'[Pay(w)] = IF pay[Pay(w)] \in {"initiating", "pending"} THEN "unknown"
                                                                     ELSE pay[Pay(w)]
    BY <1>0, <1>16, <1>f DEF ReviewWrite
  <2>2. PICK m \in BOOLEAN : m <=> job[w].permanent \/ job[w].n = MaxReconcile
    OBVIOUS
  <2>3. recon'[Pay(w)] = (~job[w].terminal /\ ~m) /\ manual'[Pay(w)] = m
    BY <1>0, <1>16, <2>2 DEF ReviewWrite
  <2>4. At(w, "review_write") /\ job[w].terminal \in BOOLEAN
    BY <1>0, <1>16 DEF ReviewWrite, Jobs
  <2>. QED BY <1>b, <2>1, <2>3, <2>4 DEF At
<1>. QED BY <1>1, <1>2, <1>3, <1>4, <1>5, <1>6, <1>7, <1>8, <1>9, <1>10, <1>11, <1>12,
       <1>13, <1>14, <1>15, <1>16 DEF WorkerStep

\* A request begins work for a fresh payment or for one that was inserted; a crash ends it.
LEMMA RequestsKeepWatch ==
    ASSUME WatchInv, TypeOK', NEW w \in Workers,
           Crash(w) \/ \E p \in Payments : RequestStep(w, p)
    PROVE  WatchInv'
<1>. USE DEF WatchInv
<1>0. JobTypeOK /\ Idle.pc = "idle" /\ Idle.pay = None /\ None \notin Payments
  BY IdleType, NoneAssumption DEF TypeOK, Idle, Started
<1>1. PICK r :
         /\ job' = [job EXCEPT ![w] = r]
         /\ \/ r = Idle
            \/ /\ r.pc = "insert" /\ r.pay \in Payments /\ pay[r.pay] = "none"
               /\ \A v \in Workers : Pay(v) # r.pay
            \/ r.pc = "lease" /\ r.pay \in Payments /\ pay[r.pay] # "none"
  <2>1. CASE Crash(w)
    BY <2>1 DEF Crash
  <2>2. ASSUME NEW p \in Payments, InitiateCheck(w, p)
        PROVE  /\ job' = [job EXCEPT ![w] = Started("insert", p, "none")]
               /\ pay[p] = "none" /\ \A v \in Workers : Pay(v) # p
    BY <2>2 DEF InitiateCheck
  <2>3. ASSUME NEW p \in Payments, CheckRequested(w, p)
        PROVE  \E kind : /\ job' = [job EXCEPT ![w] = Started("lease", p, kind)]
                         /\ pay[p] # "none"
    BY <2>3 DEF CheckRequested
  <2>4. ASSUME NEW p \in Payments, SchedulerReconcile(w, p)
        PROVE  /\ job' = [job EXCEPT ![w] = Started("lease", p, "reconcile")]
               /\ pay[p] # "none"
    BY <2>4 DEF SchedulerReconcile, Due, Begun
  <2>5. \A pc, p, kind : Started(pc, p, kind).pc = pc /\ Started(pc, p, kind).pay = p
    BY DEF Started
  <2>. QED BY <2>1, <2>2, <2>3, <2>4, <2>5 DEF RequestStep
<1>2. UNCHANGED <<pay, recon, manual, refund, session>>
  BY DEF Crash, RequestStep, InitiateCheck, CheckRequested, SchedulerReconcile
<1>3. job'[w] = r /\ \A v \in Workers \ {w} : job'[v] = job[v]
  BY <1>0, <1>1 DEF JobTypeOK
<1>4. Begun'
  <2>1. ASSUME NEW v \in Workers, job'[v].pc = "insert"
        PROVE  /\ pay[job'[v].pay] = "none" /\ job'[v].pay \in Payments
               /\ \A u \in Workers \ {v} : job'[u].pay # job'[v].pay
    <3>1. CASE v = w
      BY <1>0, <1>1, <1>3, <2>1, <3>1 DEF Pay
    <3>2. CASE v # w
      <4>1. /\ job'[v] = job[v] /\ pay[job[v].pay] = "none" /\ job[v].pay \in Payments
            /\ \A u \in Workers \ {v} : job[u].pay # job[v].pay
        BY <1>0, <1>3, <2>1, <3>2 DEF Begun, Fresh, At, Pay, JobTypeOK
      <4>2. r.pay # job[v].pay
        BY <1>0, <1>1, <4>1 DEF Pay
      <4>. QED BY <1>3, <4>1, <4>2
    <3>. QED BY <3>1, <3>2
  <2>2. ASSUME NEW v \in Workers, job'[v].pc # "idle", job'[v].pc # "insert"
        PROVE  pay[job'[v].pay] # "none"
    BY <1>0, <1>1, <1>3, <2>2 DEF Begun, At, Pay
  <2>. QED BY <1>2, <2>1, <2>2 DEF Begun, Fresh, At, Pay
<1>5. Called'
  <2>1. ASSUME NEW v \in Workers, job'[v].pc \in {"insert", "call"}
        PROVE  /\ session[job'[v].pay] = "none"
               /\ \A u \in Workers \ {v} :
                     job'[u].pc \in {"insert", "call"} => job'[u].pay # job'[v].pay
    <3>1. CASE v = w
      BY <1>0, <1>1, <1>3, <2>1, <3>1 DEF Called, Pay
    <3>2. CASE v # w
      <4>1. /\ job'[v] = job[v] /\ session[job[v].pay] = "none"
            /\ \A u \in Workers \ {v} :
                  job[u].pc \in {"insert", "call"} => job[u].pay # job[v].pay
        BY <1>3, <2>1, <3>2 DEF Called, Uncalled, Pay
      <4>2. r.pc \in {"insert", "call"} => r.pay # job[v].pay
        BY <1>0, <1>1 DEF Pay
      <4>. QED BY <1>3, <4>1, <4>2
    <3>. QED BY <3>1, <3>2
  <2>. QED BY <1>2, <2>1 DEF Called, Uncalled, Pay
<1>6. Watched'
  <2>1. ASSUME NEW v \in Workers, job'[v].pc \in {"apply_failed", "review_write"}
        PROVE  job'[v] = job[v]
    BY <1>0, <1>1, <1>3, <2>1
  <2>. QED BY <1>2, <2>1 DEF Watched, At, Pay, AskAgain
<1>. QED BY <1>4, <1>5, <1>6

\* Nothing else begins work; a reversed session is over, and its payment refunded.
LEMMA OthersKeepWatch ==
    ASSUME WatchInv, TypeOK',
           \/ \E p \in Payments : PaymentStep(p)
           \/ \E o \in Orders : OrderStep(o)
           \/ SellElsewhere \/ Restock \/ UNCHANGED vars
    PROVE  WatchInv'
<1>. USE DEF WatchInv
<1>0. PaymentTypeOK /\ JobTypeOK
  BY DEF TypeOK
<1>1. UNCHANGED <<job, recon, manual>>
  BY DEF PaymentStep, StaffRefund, RefundCompleted, Capture, LeaseExpire, OrderStep,
     CloseWindow, CancelOrder, ExpireOrder, ListReservation, ExpireReservation, StaffStep,
     SellElsewhere, Restock, vars
<1>. DEFINE Goes(q) ==
         /\ pay'[q] = pay[q] \/ (pay[q] # "none" /\ pay'[q] = "refunded")
         /\ refund'[q] # refund[q] => pay[q] # "none"
         /\ session[q] = "none" => session'[q] = "none"
         /\ session[q] \in Over => session'[q] \in Over
<1>2. \A q \in Payments : Goes(q)
  <2>1. ASSUME NEW p \in Payments, StaffRefund(p) PROVE \A q \in Payments : Goes(q)
    BY <1>0, <2>1 DEF StaffRefund, Kept, PaymentTypeOK
  <2>2. ASSUME NEW p \in Payments, RefundCompleted(p) PROVE \A q \in Payments : Goes(q)
    BY <1>0, <2>2 DEF RefundCompleted, Begun, Over, PaymentTypeOK
  <2>3. ASSUME NEW p \in Payments, Capture(p) PROVE \A q \in Payments : Goes(q)
    BY <1>0, <2>3 DEF Capture, Over, PaymentTypeOK
  <2>4. CASE UNCHANGED <<pay, refund, session>>
    BY <2>4
  <2>. QED BY <2>1, <2>2, <2>3, <2>4 DEF PaymentStep, LeaseExpire, OrderStep,
         CloseWindow, CancelOrder, ExpireOrder, ListReservation, ExpireReservation, StaffStep,
         SellElsewhere, Restock, vars
<1>3. \A w \in Workers : ~At(w, "idle") => Pay(w) \in Payments
  BY <1>0 DEF JobTypeOK
<1>4. Begun'
  BY <1>1, <1>2, <1>3 DEF Begun, Fresh, At, Pay
<1>5. Called'
  BY <1>1, <1>2, <1>3 DEF Called, Uncalled, At, Pay
<1>6. Watched'
  BY <1>1, <1>2, <1>3 DEF Watched, At, Pay, AskAgain, Terminal
<1>. QED BY <1>4, <1>5, <1>6

\* What is begun, called and watched stays so in every run, however slow the workers.
THEOREM WatchInvariant == Spec => []WatchInv
<1>1. Init => WatchInv
  <2>. SUFFICES ASSUME Init PROVE WatchInv
    OBVIOUS
  <2>1. TypeOK
    BY InitTypes
  <2>2. \A w \in Workers : job[w].pc = "idle"
    BY IdleType DEF Init
  <2>. QED BY <2>1, <2>2 DEF Init, WatchInv, Begun, Fresh, Called, Uncalled, Watched, At
<1>2. WatchInv /\ TypeOK' /\ [Next]_vars => WatchInv'
  <2>. SUFFICES ASSUME WatchInv, TypeOK', [Next]_vars PROVE WatchInv'
    OBVIOUS
  <2>1. ASSUME NEW w \in Workers, WorkerStep(w) PROVE WatchInv'
    <3>1. TypeOK /\ JobTypeOK
      BY DEF WatchInv, TypeOK
    <3>. QED BY <2>1, <3>1, WorkerBusy, WorkerFrame, WorkerWatches, WatchesKeepInv
  <2>2. ASSUME NEW w \in Workers, Crash(w) \/ \E p \in Payments : RequestStep(w, p)
        PROVE  WatchInv'
    BY <2>2, RequestsKeepWatch
  <2>3. ASSUME \/ \E p \in Payments : PaymentStep(p)
               \/ \E o \in Orders : OrderStep(o)
               \/ SellElsewhere \/ Restock \/ UNCHANGED vars
        PROVE  WatchInv'
    BY <2>3, OthersKeepWatch
  <2>. QED BY <2>1, <2>2, <2>3 DEF Next
<1>. QED BY <1>1, <1>2, TypeCorrect, PTL DEF Spec

\* A captured payment is resolved, or is due to be looked at again: by the scheduler, now
\* or when the window closes, or by a person.
THEOREM Remembered == Spec => []CapturedNotForgotten
<1>1. WatchInv => CapturedNotForgotten
  <2>. SUFFICES ASSUME WatchInv, NEW p \in Payments, session[p] = "captured"
                PROVE  \/ pay[p] \in Terminal \cup {"initiating", "pending"}
                       \/ recon[p] \/ manual[p]
    BY DEF CapturedNotForgotten
  <2>1. pay[p] # "none" /\ session[p] \notin Over
    BY DEF WatchInv, Called, Over
  <2>. QED BY <2>1 DEF WatchInv, Watched, TypeOK, PaymentTypeOK, PaymentStatuses,
         Terminal, Kept
<1>. QED BY <1>1, WatchInvariant, PTL
-----------------------------------------------------------------------------
(* What holds while no job outlives its lease.                                         *)

\* From "ask" on a job of checkProvider works under the lease of its payment.
Leased == {"ask", "apply_pending", "apply_failed", "claim", "compensate", "assess",
           "mark_late", "convert", "stock_refund", "confirm"}
Leases == \A w \in Workers : job[w].pc \in Leased => lease[Pay(w)] = w

\* Who gives money back by itself has seen the order cancelled, or it belongs to another
\* payment, or is not confirmed and nobody else can confirm it.
Compensated ==
    \A w \in Workers :
       /\ job[w].pc \in {"claim", "compensate"} /\ job[w].seen = "cancelled" =>
             orderStatus[OrderOfJob(w)] = "cancelled"
       /\ At(w, "compensate") /\ job[w].seen # "cancelled" =>
             settlement[OrderOfJob(w)] \notin {None, Pay(w)}
       /\ At(w, "stock_refund") => orderStatus[OrderOfJob(w)] # "confirmed"

\* Which refund a payment has tells where its money is, and which payments may have one.
MoneyOf(p) ==
    /\ refund[p] \in Reasons => pay[p] \in {"refund_required", "refunded"}
    /\ refund[p] = "staff" =>
          /\ pay[p] \in Kept \cup {"refunded"}
          /\ orderStatus[OrderOf[p]] = "confirmed" /\ settlement[OrderOf[p]] = p
    /\ pay[p] = "refund_required" => refund[p] \in Reasons
    /\ pay[p] = "refunded" => refund[p] # "none"
Monies == \A p \in Payments : MoneyOf(p)

\* The payment of a confirmed order has been kept, and only its staff return it.
ConfirmedPaid ==
    \A o \in Orders : orderStatus[o] = "confirmed" =>
       pay[settlement[o]] \in Kept \cup {"refunded"}

\* An order is settled by a payment of its own.
SettlesOwn ==
    \A o \in Orders : settlement[o] # None => OrderOf[settlement[o]] = o

LeasedInv ==
    /\ SettlementInv /\ WatchInv /\ Leases /\ Compensated /\ Monies /\ ConfirmedPaid
    /\ SettlesOwn /\ NoRefundOfFulfilledOrder

\* What a worker's step makes of its own order and payment: it confirms the order with the
\* payment, compensates the payment, or leaves its money alone.
MoneyStays(w) ==
    LET p == Pay(w) IN
    /\ refund'[p] = refund[p]
    /\ \/ pay'[p] = pay[p]
       \/ pay[p] \in Unsettled \cup {"none"} /\ pay'[p] \in Unsettled
MoneyKept(w) ==
    LET p == Pay(w) IN
    /\ At(w, "confirm")
    /\ pay[p] \in Unsettled /\ pay'[p] \in Kept /\ refund'[p] = refund[p]
    /\ orderStatus'[OrderOfJob(w)] = "confirmed" /\ orderStatus[OrderOfJob(w)] # "cancelled"
MoneyOwed(w) ==
    LET p == Pay(w) IN
    /\ \/ At(w, "compensate") /\ pay[p] \in Unsettled \cup {"refund_required"}
       \/ At(w, "stock_refund")
    /\ pay'[p] = "refund_required"
    /\ refund'[p] \in Reasons /\ refund[p] \in {"none", refund'[p]}

Settles(w) ==
    LET o == OrderOfJob(w) IN
    /\ \A q \in Orders \ {o} : orderStatus'[q] = orderStatus[q] /\ settlement'[q] = settlement[q]
    /\ orderStatus'[o] = orderStatus[o] \/ MoneyKept(w)
    /\ settlement'[o] = settlement[o] \/ (settlement[o] = None /\ settlement'[o] = Pay(w))
    /\ MoneyStays(w) \/ MoneyKept(w) \/ MoneyOwed(w)

\* How a job comes to the places where it works under the lease or gives money back.
Proceeds(w) ==
    LET o == OrderOfJob(w) IN
    /\ job'[w].pc \in Leased =>
          lease'[Pay(w)] = w \/ (lease' = lease /\ job[w].pc \in Leased)
    /\ job'[w].pc = "claim" /\ job'[w].seen = "cancelled" => orderStatus'[o] = "cancelled"
    /\ job'[w].pc = "compensate" =>
          /\ At(w, "claim") /\ job'[w].seen = job[w].seen
          /\ job[w].seen # "cancelled" => settlement'[o] \notin {None, Pay(w)}
    /\ job'[w].pc = "stock_refund" => orderStatus'[o] # "confirmed"

\* Every step of a worker settles so.
LEMMA WorkerSettles ==
    ASSUME WatchInv, NEW w \in Workers, WorkerStep(w)
    PROVE  Settles(w)
<1>. DEFINE p == Pay(w)  o == OrderOfJob(w)
<1>0. /\ PaymentTypeOK /\ OrderTypeOK
      /\ p \in Payments /\ o \in Orders
  BY WorkerBusy DEF WatchInv, TypeOK
<1>s. UNCHANGED <<orderStatus, settlement>> /\ (MoneyStays(w) \/ MoneyOwed(w)) => Settles(w)
  BY DEF Settles
<1>m. refund' = refund
        /\ (pay' = pay \/ \E s \in Unsettled : /\ pay[p] \in Unsettled \cup {"none"}
                                               /\ pay' = [pay EXCEPT ![p] = s])
      => MoneyStays(w)
  BY <1>0 DEF MoneyStays, PaymentTypeOK
<1>. HIDE DEF p, o
<1>1. CASE InitiateInsert(w)
  <2>1. UNCHANGED <<orderStatus, settlement, refund>>
    BY <1>1 DEF InitiateInsert
  <2>2. pay' = pay \/ pay' = [pay EXCEPT ![p] = "initiating"]
    BY <1>1 DEF InitiateInsert, p
  <2>3. pay[p] = "none"
    BY <1>1 DEF InitiateInsert, WatchInv, Begun, Fresh, p
  <2>. QED BY <1>s, <1>m, <2>1, <2>2, <2>3 DEF Unsettled, InFlight
<1>2. CASE InitiateStore(w)
  <2>1. UNCHANGED <<orderStatus, settlement, refund>>
    BY <1>2 DEF InitiateStore
  <2>2. \/ pay' = pay
        \/ pay[p] = "initiating" /\ pay' = [pay EXCEPT ![p] = "pending"]
    BY <1>2 DEF InitiateStore, p
  <2>. QED BY <1>s, <1>m, <2>1, <2>2 DEF Unsettled, InFlight
<1>3. CASE ApplyPending(w)
  <2>1. UNCHANGED <<orderStatus, settlement, refund>>
    BY <1>3 DEF ApplyPending
  <2>2. \/ pay' = pay
        \/ pay[p] \in Unsettled /\ pay' = [pay EXCEPT ![p] = "pending"]
    BY <1>3 DEF ApplyPending, p
  <2>. QED BY <1>s, <1>m, <2>1, <2>2 DEF Unsettled, InFlight
<1>4. CASE ApplyFailed(w)
  <2>1. UNCHANGED <<orderStatus, settlement, refund>>
    BY <1>4 DEF ApplyFailed
  <2>2. \/ pay' = pay
        \/ pay[p] \in Unsettled /\ pay' = [pay EXCEPT ![p] = "failed"]
    BY <1>4 DEF ApplyFailed, p
  <2>. QED BY <1>s, <1>m, <2>1, <2>2 DEF Unsettled
<1>5. CASE ReviewWrite(w)
  <2>1. UNCHANGED <<orderStatus, settlement, refund>>
    BY <1>5 DEF ReviewWrite
  <2>2. pay' = [pay EXCEPT ![p] = IF pay[p] \in {"initiating", "pending"} THEN "unknown"
                                                                      ELSE pay[p]]
    BY <1>0, <1>5 DEF ReviewWrite, p, PaymentTypeOK
  <2>3. CASE pay[p] \in {"initiating", "pending"}
    BY <1>s, <1>m, <2>1, <2>2, <2>3 DEF Unsettled, InFlight
  <2>4. CASE pay[p] \notin {"initiating", "pending"}
    <3>1. pay' = pay
      BY <1>0, <2>2, <2>4 DEF PaymentTypeOK
    <3>. QED BY <1>s, <1>m, <2>1, <3>1
  <2>. QED BY <2>3, <2>4
<1>6. CASE ClaimSettlement(w)
  <2>1. UNCHANGED <<orderStatus, pay, refund>>
    BY <1>6 DEF ClaimSettlement
  <2>2. \/ settlement' = settlement
        \/ settlement[o] \in {None, p} /\ settlement' = [settlement EXCEPT ![o] = p]
    BY <1>6 DEF ClaimSettlement, MayClaim, o, p
  <2>3. MoneyStays(w)
    BY <1>m, <2>1
  <2>. QED BY <1>0, <2>1, <2>2, <2>3 DEF Settles, OrderTypeOK, o, p
<1>7. CASE Compensate(w)
  <2>1. UNCHANGED <<orderStatus, settlement>> /\ At(w, "compensate")
    BY <1>7 DEF Compensate
  <2>2. \/ UNCHANGED <<pay, refund>>
        \/ \E reason \in {"cancelled_order_payment", "duplicate_order_payment"} :
              /\ pay[p] \in Unsettled \cup {"refund_required"}
              /\ refund[p] \in {"none", reason} /\ refund' = [refund EXCEPT ![p] = reason]
              /\ pay' = [pay EXCEPT ![p] = "refund_required"]
    BY <1>7 DEF Compensate, RefundFits, CreateCompensatingRefund, p
  <2>3. CASE UNCHANGED <<pay, refund>>
    BY <1>s, <1>m, <2>1, <2>3
  <2>4. CASE \E reason \in {"cancelled_order_payment", "duplicate_order_payment"} :
              /\ pay[p] \in Unsettled \cup {"refund_required"}
              /\ refund[p] \in {"none", reason} /\ refund' = [refund EXCEPT ![p] = reason]
              /\ pay' = [pay EXCEPT ![p] = "refund_required"]
    <3>1. MoneyOwed(w)
      BY <1>0, <2>1, <2>4 DEF MoneyOwed, PaymentTypeOK, Reasons, p
    <3>. QED BY <1>s, <2>1, <3>1
  <2>. QED BY <2>2, <2>3, <2>4
<1>8. CASE StockRefund(w)
  <2>1. UNCHANGED <<orderStatus, settlement>> /\ At(w, "stock_refund")
    BY <1>8 DEF StockRefund
  <2>2. PICK reason \in Reasons :
           \/ UNCHANGED <<pay, refund>>
           \/ /\ refund[p] \in {"none", reason} /\ refund' = [refund EXCEPT ![p] = reason]
              /\ pay' = [pay EXCEPT ![p] = "refund_required"]
    BY <1>8 DEF StockRefund, RefundFits, CreateCompensatingRefund, Reasons, p
  <2>3. CASE UNCHANGED <<pay, refund>>
    BY <1>s, <1>m, <2>1, <2>3
  <2>4. CASE /\ refund[p] \in {"none", reason} /\ refund' = [refund EXCEPT ![p] = reason]
             /\ pay' = [pay EXCEPT ![p] = "refund_required"]
    <3>1. MoneyOwed(w)
      BY <1>0, <2>1, <2>4 DEF MoneyOwed, PaymentTypeOK, p
    <3>. QED BY <1>s, <2>1, <3>1
  <2>. QED BY <2>2, <2>3, <2>4
<1>9. CASE Confirm(w)
  <2>1. UNCHANGED <<settlement, refund>> /\ At(w, "confirm")
    BY <1>9 DEF Confirm
  <2>2. \/ UNCHANGED <<orderStatus, pay>>
        \/ /\ pay[p] \in Unsettled /\ orderStatus[o] # "cancelled"
           /\ \E s \in Kept : pay' = [pay EXCEPT ![p] = s]
           /\ \/ orderStatus[o] = "confirmed" /\ orderStatus' = orderStatus
              \/ orderStatus' = [orderStatus EXCEPT ![o] = "confirmed"]
    BY <1>9 DEF Confirm, Refused, Kept, o, p
  <2>3. CASE UNCHANGED <<orderStatus, pay>>
    BY <1>s, <1>m, <2>1, <2>3
  <2>4. CASE /\ pay[p] \in Unsettled /\ orderStatus[o] # "cancelled"
             /\ \E s \in Kept : pay' = [pay EXCEPT ![p] = s]
             /\ \/ orderStatus[o] = "confirmed" /\ orderStatus' = orderStatus
                \/ orderStatus' = [orderStatus EXCEPT ![o] = "confirmed"]
    <3>1. pay'[p] \in Kept /\ orderStatus'[o] = "confirmed"
          /\ \A q \in Orders \ {o} : orderStatus'[q] = orderStatus[q]
      BY <1>0, <2>4 DEF PaymentTypeOK, OrderTypeOK
    <3>2. MoneyKept(w)
      BY <2>1, <2>4, <3>1 DEF MoneyKept, o, p
    <3>. QED BY <2>1, <3>1, <3>2 DEF Settles, o, p
  <2>. QED BY <2>2, <2>3, <2>4
<1>10. CASE \/ InitiateCall(w) \/ LeaseClaim(w) \/ Ask(w) \/ Assess(w) \/ MarkLate(w)
            \/ Convert(w) \/ ReviewRead(w)
  <2>1. UNCHANGED <<orderStatus, settlement, pay, refund>>
    BY <1>10 DEF InitiateCall, LeaseClaim, Ask, Assess, MarkLate, Convert, ReviewRead
  <2>. QED BY <1>s, <1>m, <2>1
<1>. QED BY <1>1, <1>2, <1>3, <1>4, <1>5, <1>6, <1>7, <1>8, <1>9, <1>10 DEF WorkerStep

\* ... and proceeds so: a conversion fails only for an order that is not confirmed.
LEMMA WorkerProceeds ==
    ASSUME SettlementInv, NEW w \in Workers, WorkerStep(w)
    PROVE  Proceeds(w)
<1>. USE DEF Proceeds
<1>0. /\ JobTypeOK /\ LeaseTypeOK /\ StockTypeOK /\ Pay(w) \in Payments
      /\ OrderOfJob(w) \in Orders /\ Idle.pc = "idle"
  BY WorkerBusy, IdleType DEF SettlementInv, TypeOK
<1>f. Finish(w) => job'[w].pc = "idle"
  BY <1>0, JobPrimitives
<1>g. \A pc : Goto(w, pc) => job'[w].pc = pc /\ job'[w].seen = job[w].seen
  BY <1>0, JobPrimitives
<1>r. \A b : ToReview(w, b) => job'[w].pc = "review"
  BY <1>0, JobPrimitives
<1>1. CASE LeaseClaim(w)
  BY <1>0, <1>1, <1>g DEF LeaseClaim, Leased, JobTypeOK, LeaseTypeOK
<1>2. CASE Ask(w)
  <2>1. CASE Finish(w) \/ (\E b : ToReview(w, b))
    <3>1. job'[w].pc \in {"idle", "review"}
      BY <1>f, <1>r, <2>1
    <3>. QED BY <3>1 DEF Leased
  <2>2. CASE UNCHANGED lease /\ (Goto(w, "apply_pending") \/ Goto(w, "apply_failed"))
    <3>1. job'[w].pc \in {"apply_pending", "apply_failed"} /\ job[w].pc = "ask"
      BY <1>2, <1>g, <2>2 DEF Ask, At
    <3>. QED BY <2>2, <3>1 DEF Leased
  <2>3. CASE UNCHANGED lease
             /\ job' = [job EXCEPT ![w] = [Started("claim", Pay(w), "none")
                          EXCEPT !.seen = orderStatus[OrderOf[Pay(w)]]]]
    <3>1. PICK r : r = [Started("claim", Pay(w), "none")
                          EXCEPT !.seen = orderStatus[OrderOf[Pay(w)]]]
      OBVIOUS
    <3>2. r.pc = "claim" /\ r.seen = orderStatus[OrderOf[Pay(w)]]
      BY <3>1 DEF Started
    <3>3. job'[w] = r
      BY <1>0, <2>3, <3>1 DEF JobTypeOK
    <3>4. job[w].pc = "ask" /\ orderStatus' = orderStatus
      BY <1>2 DEF Ask, At
    <3>. QED BY <2>3, <3>2, <3>3, <3>4 DEF Leased, OrderOfJob, Pay
  <2>. QED BY <1>2, <2>1, <2>2, <2>3 DEF Ask
<1>3. CASE ClaimSettlement(w)
  <2>1. job'[w].pc \in {"assess", "compensate"} /\ job'[w].seen = job[w].seen
    BY <1>3, <1>g DEF ClaimSettlement
  <2>2. job'[w].pc = "compensate" => ~MayClaim(w) /\ UNCHANGED settlement
    BY <1>3, <1>g DEF ClaimSettlement
  <2>3. At(w, "claim") /\ UNCHANGED lease
    BY <1>3 DEF ClaimSettlement
  <2>. QED BY <2>1, <2>2, <2>3 DEF MayClaim, Leased, At
<1>4. CASE Assess(w)
  <2>1. PICK late \in BOOLEAN, pc \in {"mark_late", "convert"} :
           job' = [job EXCEPT ![w] = [Started(pc, Pay(w), "none") EXCEPT !.late = late]]
    BY <1>0, <1>4 DEF Assess, JobTypeOK, Pay
  <2>2. [Started(pc, Pay(w), "none") EXCEPT !.late = late].pc = pc
    BY DEF Started
  <2>3. job'[w].pc = pc
    BY <1>0, <2>1, <2>2 DEF JobTypeOK
  <2>. QED BY <1>4, <2>3 DEF Assess, At, Leased
<1>5. CASE MarkLate(w)
  <2>1. job'[w].pc \in {"convert", "review"}
    BY <1>5, <1>g, <1>r DEF MarkLate
  <2>. QED BY <1>5, <2>1 DEF MarkLate, At, Leased
<1>6. CASE Convert(w)
  <2>1. job'[w].pc \in {"confirm", "stock_refund"}
    BY <1>6, <1>g DEF Convert
  <2>2. orderStatus[OrderOfJob(w)] = "confirmed" => job'[w].pc = "confirm"
    <3>1. orderStatus[OrderOfJob(w)] = "confirmed" =>
            reservation[OrderOfJob(w)] = "converted"
      BY <1>0 DEF SettlementInv, ConfirmedHoldsStock
    <3>. QED BY <1>6, <1>g, <3>1 DEF Convert, Convertible, Reclaims
  <2>. QED BY <1>6, <2>1, <2>2 DEF Convert, At, Leased
<1>7. CASE \/ InitiateInsert(w) \/ InitiateCall(w) \/ InitiateStore(w) \/ ApplyPending(w)
           \/ ApplyFailed(w) \/ Compensate(w) \/ StockRefund(w) \/ Confirm(w)
           \/ ReviewWrite(w)
  <2>1. job'[w].pc \in {"idle", "call", "store", "review"}
    BY <1>7, <1>f, <1>g, <1>r DEF InitiateInsert, InitiateCall, InitiateStore, ApplyPending,
       ApplyFailed, Compensate, StockRefund, Confirm, ReviewWrite
  <2>. QED BY <2>1 DEF Leased
<1>8. CASE ReviewRead(w)
  <2>1. CASE ~Finish(w)
    <3>1. PICK t, n : job' = [job EXCEPT ![w] = [job[w] EXCEPT !.pc = "review_write",
                                                    !.terminal = t, !.n = n]]
      BY <1>0, <1>8, <2>1 DEF ReviewRead, JobTypeOK
    <3>2. PICK r : r = [job[w] EXCEPT !.pc = "review_write", !.terminal = t, !.n = n]
      OBVIOUS
    <3>3. r.pc = "review_write"
      BY <1>0, <3>2 DEF JobTypeOK, Jobs
    <3>4. job'[w] = r
      BY <1>0, <3>1, <3>2 DEF JobTypeOK
    <3>. QED BY <3>3, <3>4 DEF Leased
  <2>. QED BY <1>f, <2>1 DEF Leased
<1>. QED BY <1>1, <1>2, <1>3, <1>4, <1>5, <1>6, <1>7, <1>8 DEF WorkerStep

\* Two jobs at work under the lease of one payment are one job.
LEMMA OneJobAtWork ==
    ASSUME Leases, NEW v \in Workers, NEW w \in Workers,
           job[v].pc \in Leased, job[w].pc \in Leased, Pay(v) = Pay(w)
    PROVE  v = w
BY DEF Leases

\* A worker's step keeps the leases and the reasons of compensation: an order somebody is
\* about to compensate for want of stock can only be confirmed by the same payment's job.
LEMMA WorkerKeepsLeases ==
    ASSUME LeasedInv, NEW w \in Workers, Pay(w) \in Payments, OrderOfJob(w) \in Orders,
           Frame(w), Settles(w), Proceeds(w)
    PROVE  Leases' /\ Compensated'
<1>. USE DEF LeasedInv
<1>0. /\ Idle.pc = "idle" /\ None \notin Workers
      /\ \A v \in Workers : ~At(v, "idle") => Pay(v) \in Payments /\ OrderOfJob(v) \in Orders
  BY IdleType, NoneAssumption, OrderOfAssumption
     DEF SettlementInv, TypeOK, JobTypeOK, OrderOfJob, Pay
<1>1. Leases'
  <2>1. ASSUME NEW v \in Workers, job'[v].pc \in Leased PROVE lease'[job'[v].pay] = v
    <3>1. CASE v = w
      <4>1. job'[w].pay = Pay(w)
        BY <1>0, <2>1, <3>1 DEF Frame, Leased
      <4>. QED BY <2>1, <3>1, <4>1 DEF Proceeds, Leases
    <3>2. CASE v # w
      <4>1. job'[v] = job[v] /\ lease[Pay(v)] = v /\ Pay(v) \in Payments
        BY <1>0, <2>1, <3>2 DEF Frame, Leases, Leased, At
      <4>. QED BY <1>0, <3>2, <4>1 DEF Frame, Pay
    <3>. QED BY <3>1, <3>2
  <2>. QED BY <2>1 DEF Leases, Pay
<1>2. Compensated'
  <2>1. ASSUME NEW v \in Workers, job'[v].pc \in {"claim", "compensate", "stock_refund"}
        PROVE  OrderOfJob(v)' = OrderOfJob(v)
    BY <1>0, <2>1 DEF Frame, OrderOfJob, Pay
  <2>2. ASSUME NEW o \in Orders
        PROVE  /\ orderStatus[o] = "cancelled" => orderStatus'[o] = "cancelled"
               /\ settlement[o] # None => settlement'[o] = settlement[o]
    BY DEF Settles, MoneyKept
  <2>3. ASSUME NEW v \in Workers, job'[v].pc \in {"claim", "compensate"},
               job'[v].seen = "cancelled"
        PROVE  orderStatus'[OrderOfJob(v)] = "cancelled"
    <3>1. CASE v # w
      <4>1. job'[v] = job[v]
        BY <3>1 DEF Frame
      <4>. QED BY <1>0, <2>2, <2>3, <4>1 DEF Compensated, At
    <3>2. CASE v = w
      BY <2>2, <2>3, <3>2 DEF Proceeds, Compensated, At
    <3>. QED BY <3>1, <3>2
  <2>4. ASSUME NEW v \in Workers, job'[v].pc = "compensate", job'[v].seen # "cancelled"
        PROVE  settlement'[OrderOfJob(v)] \notin {None, Pay(v)}
    <3>1. CASE v # w
      <4>1. job'[v] = job[v]
        BY <3>1 DEF Frame
      <4>. QED BY <1>0, <2>2, <2>4, <4>1 DEF Compensated, At
    <3>2. CASE v = w
      BY <2>4, <3>2 DEF Proceeds
    <3>. QED BY <3>1, <3>2
  <2>5. ASSUME NEW v \in Workers, job'[v].pc = "stock_refund"
        PROVE  orderStatus'[OrderOfJob(v)] # "confirmed"
    <3>1. CASE v # w
      <4>1. job'[v] = job[v] /\ job[v].pc = "stock_refund" /\ OrderOfJob(v) \in Orders
        BY <1>0, <2>5, <3>1 DEF Frame, At
      <4>2. orderStatus[OrderOfJob(v)] # "confirmed" /\ settlement[OrderOfJob(v)] = Pay(v)
        BY <4>1 DEF Compensated, At, SettlementInv, ClaimedOwns, Claimed
      <4>3. ~(At(w, "confirm") /\ OrderOfJob(w) = OrderOfJob(v))
        <5>1. SUFFICES ASSUME At(w, "confirm"), OrderOfJob(w) = OrderOfJob(v) PROVE FALSE
          OBVIOUS
        <5>2. settlement[OrderOfJob(w)] = Pay(w)
          BY <5>1 DEF SettlementInv, ClaimedOwns, Claimed, At
        <5>3. job[v].pc \in Leased /\ job[w].pc \in Leased
          BY <4>1, <5>1 DEF Leased, At
        <5>. QED BY <3>1, <4>2, <5>1, <5>2, <5>3, OneJobAtWork
      <4>. QED BY <4>1, <4>2, <4>3 DEF Settles, MoneyKept
    <3>2. CASE v = w
      BY <2>5, <3>2 DEF Proceeds
    <3>. QED BY <3>1, <3>2
  <2>6. \A v \in Workers : job'[v].pc = "compensate" => Pay(v)' = Pay(v)
    BY <1>0 DEF Frame, Pay
  <2>. QED BY <2>1, <2>3, <2>4, <2>5, <2>6 DEF Compensated, At
<1>. QED BY <1>1, <1>2

\* A worker's step keeps the money where the refunds say it is, and never compensates the
\* payment of a confirmed order.
LEMMA WorkerKeepsMoney ==
    ASSUME LeasedInv, NEW w \in Workers, Pay(w) \in Payments, OrderOfJob(w) \in Orders,
           Frame(w), Settles(w)
    PROVE  Monies' /\ ConfirmedPaid' /\ SettlesOwn' /\ NoRefundOfFulfilledOrder'
<1>p. PICK p \in Payments : p = Pay(w)
  OBVIOUS
<1>o. PICK o \in Orders : o = OrderOfJob(w)
  OBVIOUS
<1>0. /\ None \notin Payments /\ settlement \in [Orders -> Payments \cup {None}]
      /\ OrderOf \in [Payments -> Orders] /\ OrderOf[p] = o
  BY <1>p, <1>o, NoneAssumption, OrderOfAssumption
     DEF LeasedInv, SettlementInv, TypeOK, OrderTypeOK, OrderOfJob, Pay
<1>1. /\ \A q \in Payments \ {p} : pay'[q] = pay[q] /\ refund'[q] = refund[q]
      /\ \A q \in Orders \ {o} :
            orderStatus'[q] = orderStatus[q] /\ settlement'[q] = settlement[q]
      /\ settlement'[o] = settlement[o] \/ (settlement[o] = None /\ settlement'[o] = p)
      /\ orderStatus'[o] = orderStatus[o] \/ MoneyKept(w)
      /\ MoneyStays(w) \/ MoneyKept(w) \/ MoneyOwed(w)
  BY <1>p, <1>o DEF Frame, Settles
<1>2. /\ MoneyOf(p)
      /\ orderStatus[o] = "confirmed" =>
            /\ settlement[o] \in Payments
            /\ settlement[o] = p => pay[p] \in Kept \cup {"refunded"} /\ refund[p] \notin Reasons
  BY <1>0 DEF LeasedInv, Monies, ConfirmedPaid, NoRefundOfFulfilledOrder, SettlementInv,
     ConfirmedHoldsStock
<1>3. MoneyKept(w) => settlement[o] = p /\ settlement'[o] = p
  <2>1. At(w, "confirm") => settlement[o] = p
    BY <1>p, <1>o DEF LeasedInv, SettlementInv, ClaimedOwns, Claimed, At
  <2>. QED BY <1>0, <1>1, <2>1 DEF MoneyKept
\* Compensation is never for the payment of a confirmed order.
<1>4. MoneyOwed(w) => /\ orderStatus'[o] = orderStatus[o]
                      /\ orderStatus[o] = "confirmed" => settlement[o] # p
  <2>1. ~(MoneyOwed(w) /\ MoneyKept(w))
    BY DEF MoneyOwed, MoneyKept, At
  <2>2. At(w, "compensate") => orderStatus[o] = "cancelled" \/ settlement[o] # p
    BY <1>p, <1>o DEF LeasedInv, Compensated, At
  <2>3. At(w, "stock_refund") => orderStatus[o] # "confirmed"
    BY <1>o DEF LeasedInv, Compensated
  <2>. QED BY <1>1, <2>1, <2>2, <2>3 DEF MoneyOwed
<1>5. /\ \A q \in Orders : orderStatus[q] = "confirmed" => orderStatus'[q] = "confirmed"
      /\ \A q \in Orders : settlement[q] # None => settlement'[q] = settlement[q]
  BY <1>1, <1>p, <1>o DEF MoneyKept
<1>6. MoneyOf(p)'
  <2>1. CASE MoneyStays(w)
    <3>1. CASE pay'[p] = pay[p]
      BY <1>p, <1>0, <1>1, <1>2, <1>5, <2>1, <3>1 DEF MoneyStays, MoneyOf
    <3>2. CASE pay[p] \in Unsettled \cup {"none"} /\ pay'[p] \in Unsettled
      <4>1. refund[p] \notin Reasons \cup {"staff"} /\ refund'[p] = refund[p]
        BY <1>p, <1>2, <2>1, <3>2 DEF MoneyStays, MoneyOf, Unsettled, InFlight, Kept
      <4>. QED BY <3>2, <4>1 DEF MoneyOf, Unsettled, InFlight
    <3>. QED BY <1>p, <2>1, <3>1, <3>2 DEF MoneyStays
  <2>2. CASE MoneyKept(w)
    <3>1. refund[p] \notin Reasons \cup {"staff"} /\ refund'[p] = refund[p] /\ pay'[p] \in Kept
      BY <1>p, <1>2, <2>2 DEF MoneyKept, MoneyOf, Unsettled, InFlight, Kept
    <3>. QED BY <3>1 DEF MoneyOf, Kept
  <2>3. CASE MoneyOwed(w)
    BY <1>p, <2>3 DEF MoneyOwed, MoneyOf, Reasons
  <2>. QED BY <1>1, <2>1, <2>2, <2>3
<1>7. Monies'
  <2>1. ASSUME NEW q \in Payments, q # p PROVE MoneyOf(q)'
    <3>1. MoneyOf(q)
      BY DEF LeasedInv, Monies
    <3>2. orderStatus[OrderOf[q]] = "confirmed" /\ settlement[OrderOf[q]] = q =>
             orderStatus'[OrderOf[q]] = "confirmed" /\ settlement'[OrderOf[q]] = q
      BY <1>0, <1>5
    <3>. QED BY <1>1, <2>1, <3>1, <3>2 DEF MoneyOf
  <2>. QED BY <1>6, <2>1 DEF Monies
\* The payment of an order other than this one is another payment.
<1>8. ASSUME NEW q \in Orders, orderStatus'[q] = "confirmed"
      PROVE  /\ pay'[settlement'[q]] \in Kept \cup {"refunded"}
             /\ refund'[settlement'[q]] \notin Reasons
  <2>1. CASE orderStatus[q] = "confirmed"
    <3>1. /\ settlement[q] \in Payments /\ OrderOf[settlement[q]] = q
          /\ settlement'[q] = settlement[q]
          /\ pay[settlement[q]] \in Kept \cup {"refunded"}
          /\ refund[settlement[q]] \notin Reasons
      BY <1>0, <1>5, <2>1 DEF LeasedInv, SettlesOwn, ConfirmedPaid, SettlementInv,
         ConfirmedHoldsStock, NoRefundOfFulfilledOrder
    <3>2. CASE settlement[q] # p
      BY <1>1, <3>1, <3>2
    <3>3. CASE settlement[q] = p
      <4>1. q = o
        BY <1>0, <3>1, <3>3
      <4>2. ~MoneyOwed(w)
        BY <1>4, <2>1, <3>3, <4>1
      <4>3. pay[p] \notin Unsettled \cup {"none"}
        BY <3>1, <3>3 DEF Kept, Unsettled, InFlight
      <4>. QED BY <1>p, <1>1, <3>1, <3>3, <4>2, <4>3 DEF MoneyStays, MoneyKept
    <3>. QED BY <3>2, <3>3
  <2>2. CASE orderStatus[q] # "confirmed"
    <3>1. q = o /\ MoneyKept(w)
      BY <1>1, <1>8, <2>2
    <3>2. pay'[p] \in Kept /\ refund'[p] = refund[p] /\ pay[p] \in Unsettled
      BY <1>p, <3>1 DEF MoneyKept
    <3>3. refund[p] \notin Reasons
      BY <1>2, <3>2 DEF MoneyOf, Unsettled, InFlight
    <3>. QED BY <1>3, <3>1, <3>2, <3>3
  <2>. QED BY <2>1, <2>2
<1>9. SettlesOwn'
  BY <1>0, <1>1 DEF LeasedInv, SettlesOwn
<1>. QED BY <1>7, <1>8, <1>9 DEF ConfirmedPaid, NoRefundOfFulfilledOrder

\* The parts of LeasedInv that are not invariants whatever the leases do.
LeasedPart ==
    Leases /\ Compensated /\ Monies /\ ConfirmedPaid /\ SettlesOwn /\ NoRefundOfFulfilledOrder

\* A request or a crash leaves its worker with no work under a lease.
LEMMA RequestsKeepLeased ==
    ASSUME LeasedInv, NEW w \in Workers, Crash(w) \/ \E p \in Payments : RequestStep(w, p)
    PROVE  LeasedPart'
<1>. USE DEF LeasedInv
<1>1. /\ UNCHANGED <<orderStatus, settlement, pay, refund, lease>>
      /\ \E r : job' = [job EXCEPT ![w] = r] /\ r.pc \in {"idle", "insert", "lease"}
  <2>1. CASE Crash(w)
    BY <2>1, IdleType DEF Crash
  <2>2. ASSUME NEW p \in Payments, RequestStep(w, p)
        PROVE  /\ UNCHANGED <<orderStatus, settlement, pay, refund, lease>>
               /\ \E pc \in {"insert", "lease"}, kind \in Kinds :
                     job' = [job EXCEPT ![w] = Started(pc, p, kind)]
    BY <2>2 DEF RequestStep, InitiateCheck, CheckRequested, SchedulerReconcile, Kinds
  <2>3. \A pc, p, kind : Started(pc, p, kind).pc = pc
    BY DEF Started
  <2>. QED BY <2>1, <2>2, <2>3
<1>2. \A v \in Workers : job'[v] = job[v] \/ job'[v].pc \in {"idle", "insert", "lease"}
  BY <1>1 DEF SettlementInv, TypeOK, JobTypeOK
<1>3. \A v \in Workers : job'[v].pc \in Leased => job'[v] = job[v]
  BY <1>2 DEF Leased
<1>4. Leases'
  BY <1>1, <1>3 DEF Leases, Pay
<1>5. Compensated'
  <2>1. \A v \in Workers : job'[v].pc \in {"claim", "compensate", "stock_refund"}
           => job'[v] = job[v]
    BY <1>3 DEF Leased
  <2>. QED BY <1>1, <2>1 DEF Compensated, OrderOfJob, At, Pay
<1>6. Monies' /\ ConfirmedPaid' /\ SettlesOwn' /\ NoRefundOfFulfilledOrder'
  BY <1>1 DEF Monies, MoneyOf, ConfirmedPaid, SettlesOwn, NoRefundOfFulfilledOrder
<1>. QED BY <1>4, <1>5, <1>6 DEF LeasedPart

\* What the other steps do to money: staff open a refund of kept money, a refund arrives.
Returns(p) ==
    \/ pay'[p] = pay[p] /\ refund'[p] = refund[p]
    \/ /\ pay'[p] = pay[p] /\ pay[p] \in Kept /\ refund'[p] = "staff"
    \/ /\ refund'[p] = refund[p] /\ refund[p] # "none" /\ pay'[p] = "refunded"

\* No lease is taken from a job that works under it, unless workers are slow.
LEMMA OthersEffect ==
    ASSUME LeasedInv, ~SlowWorkers,
           \/ \E p \in Payments : PaymentStep(p)
           \/ \E o \in Orders : OrderStep(o)
           \/ SellElsewhere \/ Restock \/ UNCHANGED vars
    PROVE  /\ UNCHANGED <<job, settlement>>
           /\ \A p \in Payments : Returns(p)
           /\ \A p \in Payments : lease'[p] = lease[p] \/ ~Holds(lease[p], p)
           /\ \A o \in Orders :
                 \/ orderStatus'[o] = orderStatus[o]
                 \/ orderStatus[o] = "pending_confirmation" /\ orderStatus'[o] = "cancelled"
                 \/ orderStatus[o] = "pending_confirmation" /\ orderStatus'[o] = "expired"
<1>. USE DEF Returns
<1>0. PaymentTypeOK /\ OrderTypeOK /\ LeaseTypeOK
  BY DEF LeasedInv, SettlementInv, TypeOK
<1>1. ASSUME NEW p \in Payments, PaymentStep(p)
      PROVE  /\ UNCHANGED <<job, settlement, orderStatus>>
             /\ \A q \in Payments : Returns(q)
             /\ \A q \in Payments : lease'[q] = lease[q] \/ ~Holds(lease[q], q)
  <2>1. CASE StaffRefund(p)
    <3>1. pay[p] = "refund_required" => refund[p] \in Reasons
      BY DEF LeasedInv, Monies, MoneyOf
    <3>2. refund[p] \in {"none", "staff"} /\ pay[p] \in Kept \cup {"refund_required"}
          /\ refund' = [refund EXCEPT ![p] = "staff"]
      BY <2>1 DEF StaffRefund, RefundFits
    <3>3. pay[p] \in Kept
      BY <3>1, <3>2 DEF Reasons
    <3>. QED BY <1>0, <2>1, <3>2, <3>3 DEF StaffRefund, PaymentTypeOK
  <2>2. CASE RefundCompleted(p)
    BY <1>0, <2>2 DEF RefundCompleted, PaymentTypeOK
  <2>3. CASE Capture(p)
    BY <2>3 DEF Capture
  <2>4. CASE LeaseExpire(p)
    BY <1>0, <2>4 DEF LeaseExpire, LeaseTypeOK
  <2>. QED BY <1>1, <2>1, <2>2, <2>3, <2>4 DEF PaymentStep
<1>2. ASSUME NEW o \in Orders, OrderStep(o)
      PROVE  /\ UNCHANGED <<job, settlement, pay, refund, lease>>
             /\ \/ UNCHANGED orderStatus
                \/ /\ orderStatus[o] = "pending_confirmation"
                   /\ \E s \in {"cancelled", "expired"} :
                         orderStatus' = [orderStatus EXCEPT ![o] = s]
  BY <1>2 DEF OrderStep, CloseWindow, CancelOrder, ExpireOrder, ListReservation,
     ExpireReservation, StaffStep
<1>3. CASE SellElsewhere \/ Restock \/ UNCHANGED vars
  BY <1>3 DEF SellElsewhere, Restock, vars
<1>4. CASE \E o \in Orders : OrderStep(o)
  BY <1>0, <1>2, <1>4 DEF OrderTypeOK
<1>. QED BY <1>1, <1>3, <1>4

\* The other steps keep the rest: what staff return was kept, and stays returned.
LEMMA OthersKeepLeased ==
    ASSUME LeasedInv, ~SlowWorkers,
           \/ \E p \in Payments : PaymentStep(p)
           \/ \E o \in Orders : OrderStep(o)
           \/ SellElsewhere \/ Restock \/ UNCHANGED vars
    PROVE  LeasedPart'
<1>1. /\ UNCHANGED <<job, settlement>>
      /\ \A p \in Payments : Returns(p)
      /\ \A p \in Payments : lease'[p] = lease[p] \/ ~Holds(lease[p], p)
      /\ \A o \in Orders :
            /\ orderStatus[o] = "confirmed" <=> orderStatus'[o] = "confirmed"
            /\ orderStatus[o] = "cancelled" => orderStatus'[o] = "cancelled"
  BY OthersEffect
<1>. USE DEF LeasedInv
<1>2. /\ \A w \in Workers : ~At(w, "idle") => Pay(w) \in Payments /\ OrderOfJob(w) \in Orders
      /\ \A p \in Payments : OrderOf[p] \in Orders
      /\ \A o \in Orders : settlement[o] \in Payments \cup {None}
  BY OrderOfAssumption DEF SettlementInv, TypeOK, OrderTypeOK, JobTypeOK, OrderOfJob, Pay
<1>3. Leases'
  <2>1. ASSUME NEW w \in Workers, job[w].pc \in Leased PROVE lease'[Pay(w)] = w
    BY <1>1, <1>2, <2>1 DEF Leases, Leased, Holds, At
  <2>. QED BY <1>1, <2>1 DEF Leases, Pay
<1>4. Compensated'
  BY <1>1, <1>2 DEF Compensated, At, OrderOfJob, Pay
<1>5. Monies'
  <2>1. ASSUME NEW p \in Payments PROVE MoneyOf(p)'
    <3>1. /\ MoneyOf(p) /\ Returns(p)
          /\ orderStatus[OrderOf[p]] = "confirmed" <=> orderStatus'[OrderOf[p]] = "confirmed"
          /\ pay[p] \in Kept =>
                orderStatus[OrderOf[p]] = "confirmed" /\ settlement[OrderOf[p]] = p
      BY <1>1, <1>2 DEF Monies, SettlementInv, SingleSettlement
    <3>2. CASE pay'[p] = pay[p] /\ refund'[p] = refund[p]
      BY <1>1, <3>1, <3>2 DEF MoneyOf
    <3>3. CASE pay'[p] = pay[p] /\ pay[p] \in Kept /\ refund'[p] = "staff"
      BY <1>1, <3>1, <3>3 DEF MoneyOf, Kept, Reasons
    <3>4. CASE refund'[p] = refund[p] /\ refund[p] # "none" /\ pay'[p] = "refunded"
      BY <1>1, <3>1, <3>4 DEF MoneyOf
    <3>. QED BY <3>1, <3>2, <3>3, <3>4 DEF Returns
  <2>. QED BY <2>1 DEF Monies
<1>6. ASSUME NEW o \in Orders, orderStatus'[o] = "confirmed"
      PROVE  /\ pay'[settlement[o]] \in Kept \cup {"refunded"}
             /\ refund'[settlement[o]] \notin Reasons
  <2>1. /\ settlement[o] \in Payments
        /\ pay[settlement[o]] \in Kept \cup {"refunded"}
        /\ refund[settlement[o]] \notin Reasons
    BY <1>1, <1>2, <1>6 DEF ConfirmedPaid, NoRefundOfFulfilledOrder, SettlementInv,
       ConfirmedHoldsStock
  <2>. QED BY <1>1, <2>1 DEF Returns, Kept, Reasons
<1>7. SettlesOwn'
  BY <1>1 DEF SettlesOwn
<1>. QED BY <1>1, <1>3, <1>4, <1>5, <1>6, <1>7
       DEF LeasedPart, ConfirmedPaid, NoRefundOfFulfilledOrder

\* While no job outlives its lease, one job at a time decides about a payment: the
\* invariant behind the two theorems below.
THEOREM LeasedInvariant == ~SlowWorkers /\ Spec => []LeasedInv
<1>. SUFFICES ASSUME ~SlowWorkers PROVE Spec => []LeasedInv
  OBVIOUS
<1>1. Init => LeasedPart
  <2>. SUFFICES ASSUME Init PROVE LeasedPart
    OBVIOUS
  <2>2. \A w \in Workers : job[w].pc = "idle"
    BY IdleType DEF Init
  <2>. QED BY <2>2 DEF Init, LeasedPart, Leases, Leased, Compensated, At, Monies, MoneyOf,
         Reasons, ConfirmedPaid, SettlesOwn, NoRefundOfFulfilledOrder
<1>2. LeasedInv /\ [Next]_vars => LeasedPart'
  <2>. SUFFICES ASSUME LeasedInv, [Next]_vars PROVE LeasedPart'
    OBVIOUS
  <2>1. ASSUME NEW w \in Workers, WorkerStep(w) PROVE LeasedPart'
    <3>1. SettlementInv /\ WatchInv /\ TypeOK /\ JobTypeOK
      BY DEF LeasedInv, SettlementInv, TypeOK
    <3>2. Pay(w) \in Payments /\ OrderOfJob(w) \in Orders /\ Frame(w)
      BY <2>1, <3>1, WorkerBusy, WorkerFrame
    <3>3. Settles(w) /\ Proceeds(w)
      BY <2>1, <3>1, WorkerSettles, WorkerProceeds
    <3>. QED BY <3>2, <3>3, WorkerKeepsLeases, WorkerKeepsMoney DEF LeasedPart
  <2>2. ASSUME NEW w \in Workers, Crash(w) \/ \E p \in Payments : RequestStep(w, p)
        PROVE  LeasedPart'
    BY <2>2, RequestsKeepLeased
  <2>3. ASSUME \/ \E p \in Payments : PaymentStep(p)
               \/ \E o \in Orders : OrderStep(o)
               \/ SellElsewhere \/ Restock \/ UNCHANGED vars
        PROVE  LeasedPart'
    BY <2>3, OthersKeepLeased
  <2>. QED BY <2>1, <2>2, <2>3 DEF Next
<1>3. LeasedInv <=> SettlementInv /\ WatchInv /\ LeasedPart
  BY DEF LeasedInv, LeasedPart
<1>. QED BY <1>1, <1>2, <1>3, SettlementInvariant, WatchInvariant, PTL DEF Spec

\* The shop never keeps an order and by itself gives its money back, while no job outlives
\* its lease.
THEOREM FulfilledIsNotRefunded == ~SlowWorkers /\ Spec => []NoRefundOfFulfilledOrder
<1>. SUFFICES ASSUME ~SlowWorkers PROVE Spec => []NoRefundOfFulfilledOrder
  OBVIOUS
<1>1. LeasedInv => NoRefundOfFulfilledOrder
  BY DEF LeasedInv
<1>. QED BY <1>1, LeasedInvariant, PTL
-----------------------------------------------------------------------------
(* The refinement: what the payment service does is a deal.                            *)

\* The deal read off the state, an order and a payment at a time.
DealSays ==
    /\ DealOutcome = [o \in Orders |-> DealOutcome[o]]
    /\ DealBuyer = [o \in Orders |-> DealBuyer[o]]
    /\ DealMoney = [p \in Payments |-> DealMoney[p]]
    /\ \A o \in Orders :
          /\ orderStatus[o] = "confirmed" =>
                DealOutcome[o] = "sold" /\ DealBuyer[o] = settlement[o]
          /\ orderStatus[o] # "confirmed" => DealBuyer[o] = None
          /\ orderStatus[o] = "cancelled" => DealOutcome[o] = "void"
          /\ orderStatus[o] \notin {"confirmed", "cancelled"} => DealOutcome[o] = "open"
    /\ \A p \in Payments :
          /\ pay[p] \in Kept => DealMoney[p] = "kept"
          /\ pay[p] = "refund_required" => DealMoney[p] = "owed"
          /\ pay[p] = "refunded" /\ refund[p] = "staff" => DealMoney[p] = "returned"
          /\ pay[p] = "refunded" /\ refund[p] # "staff" => DealMoney[p] = "owed"
          /\ pay[p] \notin Kept \cup {"refund_required", "refunded"} => DealMoney[p] = "none"

\* It says so in every state, and so before and after every step.
LEMMA DealSaid == DealSays
<1>1. /\ DealOutcome = [o \in Orders |-> DealOutcome[o]]
      /\ DealBuyer = [o \in Orders |-> DealBuyer[o]]
      /\ DealMoney = [p \in Payments |-> DealMoney[p]]
  BY DEF DealOutcome, DealBuyer, DealMoney
<1>2. ASSUME NEW o \in Orders
      PROVE  /\ orderStatus[o] = "confirmed" =>
                   DealOutcome[o] = "sold" /\ DealBuyer[o] = settlement[o]
             /\ orderStatus[o] # "confirmed" => DealBuyer[o] = None
             /\ orderStatus[o] = "cancelled" => DealOutcome[o] = "void"
             /\ orderStatus[o] \notin {"confirmed", "cancelled"} => DealOutcome[o] = "open"
  BY DEF DealOutcome, DealBuyer
<1>3. ASSUME NEW p \in Payments
      PROVE  /\ pay[p] \in Kept => DealMoney[p] = "kept"
             /\ pay[p] = "refund_required" => DealMoney[p] = "owed"
             /\ pay[p] = "refunded" /\ refund[p] = "staff" => DealMoney[p] = "returned"
             /\ pay[p] = "refunded" /\ refund[p] # "staff" => DealMoney[p] = "owed"
             /\ pay[p] \notin Kept \cup {"refund_required", "refunded"}
                  => DealMoney[p] = "none"
  BY DEF DealMoney, Kept
<1>. QED BY <1>1, <1>2, <1>3 DEF DealSays

\* Two functions on one set that differ at most at one point.
LEMMA Pointwise ==
    ASSUME NEW S, NEW f, f = [x \in S |-> f[x]], NEW g, g = [x \in S |-> g[x]],
           NEW k \in S, \A x \in S \ {k} : g[x] = f[x]
    PROVE  g = [f EXCEPT ![k] = g[k]] /\ (g[k] = f[k] => g = f)
OBVIOUS

\* A step that moves the money of one payment is a step of the deal, or none of it.
LEMMA DealOfMoney ==
    ASSUME DealSays, DealSays', NEW p \in Payments,
           DealOutcome' = DealOutcome, DealBuyer' = DealBuyer,
           \A q \in Payments \ {p} : DealMoney'[q] = DealMoney[q],
           \/ DealMoney'[p] = DealMoney[p]
           \/ DealMoney[p] = "none" /\ DealMoney'[p] = "owed"
           \/ DealMoney[p] = "kept" /\ DealMoney'[p] = "returned"
    PROVE  [Deal!Next]_(Deal!deal)
<1>1. /\ DealMoney' = [DealMoney EXCEPT ![p] = DealMoney'[p]]
      /\ DealMoney'[p] = DealMoney[p] => DealMoney' = DealMoney
  <2>1. DealMoney = [q \in Payments |-> DealMoney[q]]
        /\ DealMoney' = [q \in Payments |-> DealMoney'[q]]
    BY DEF DealSays
  <2>. QED BY <2>1, Pointwise
<1>2. CASE DealMoney'[p] = DealMoney[p]
  BY <1>1, <1>2 DEF Deal!deal
<1>3. CASE DealMoney[p] = "none" /\ DealMoney'[p] = "owed"
  BY <1>1, <1>3 DEF Deal!Next, Deal!Owe
<1>4. CASE DealMoney[p] = "kept" /\ DealMoney'[p] = "returned"
  BY <1>1, <1>4 DEF Deal!Next, Deal!Return
<1>. QED BY <1>2, <1>3, <1>4

\* A step that confirms an open order with a payment keeps its money: a sale.
LEMMA DealOfSale ==
    ASSUME DealSays, DealSays', NEW p \in Payments, NEW o \in Orders, o = OrderOf[p],
           \A q \in Orders \ {o} :
              DealOutcome'[q] = DealOutcome[q] /\ DealBuyer'[q] = DealBuyer[q],
           \A q \in Payments \ {p} : DealMoney'[q] = DealMoney[q],
           DealOutcome[o] = "open", DealMoney[p] = "none",
           DealOutcome'[o] = "sold", DealBuyer'[o] = p, DealMoney'[p] = "kept"
    PROVE  [Deal!Next]_(Deal!deal)
<1>1. /\ DealMoney = [q \in Payments |-> DealMoney[q]]
      /\ DealMoney' = [q \in Payments |-> DealMoney'[q]]
      /\ DealOutcome = [q \in Orders |-> DealOutcome[q]]
      /\ DealOutcome' = [q \in Orders |-> DealOutcome'[q]]
      /\ DealBuyer = [q \in Orders |-> DealBuyer[q]]
      /\ DealBuyer' = [q \in Orders |-> DealBuyer'[q]]
  BY DEF DealSays
<1>2. DealMoney' = [DealMoney EXCEPT ![p] = "kept"]
  BY <1>1, Pointwise
<1>3. DealOutcome' = [DealOutcome EXCEPT ![o] = "sold"]
  BY <1>1, Pointwise
<1>4. DealBuyer' = [DealBuyer EXCEPT ![o] = p]
  BY <1>1, Pointwise
<1>. QED BY <1>2, <1>3, <1>4 DEF Deal!Next, Deal!Sell

\* A worker's step sells an order, owes a customer his money, or is not seen.
LEMMA WorkerDeals ==
    ASSUME LeasedInv, LeasedInv', DealSays, DealSays', NEW w \in Workers,
           Pay(w) \in Payments, OrderOfJob(w) \in Orders, Frame(w), Settles(w)
    PROVE  [Deal!Next]_(Deal!deal)
<1>p. PICK p \in Payments : p = Pay(w)
  OBVIOUS
<1>o. PICK o \in Orders : o = OrderOfJob(w)
  OBVIOUS
<1>0. /\ o = OrderOf[p]
      /\ \A q \in Payments : q # p => pay'[q] = pay[q] /\ refund'[q] = refund[q]
      /\ \A q \in Orders : q # o => orderStatus'[q] = orderStatus[q]
                                    /\ settlement'[q] = settlement[q]
      /\ settlement'[o] = settlement[o] \/ settlement[o] = None
      /\ orderStatus'[o] = orderStatus[o] \/ MoneyKept(w)
      /\ MoneyStays(w) \/ MoneyKept(w) \/ MoneyOwed(w)
  BY <1>p, <1>o DEF Frame, Settles, OrderOfJob, Pay
<1>1. \A q \in Orders : orderStatus[q] = "confirmed" => settlement[q] # None
  BY DEF LeasedInv, SettlementInv, ConfirmedHoldsStock
<1>2. \A q \in Payments \ {p} : DealMoney'[q] = DealMoney[q]
  <2>1. ASSUME NEW q \in Payments, q # p PROVE DealMoney'[q] = DealMoney[q]
    <3>1. pay'[q] = pay[q] /\ refund'[q] = refund[q]
      BY <1>0, <2>1
    <3>2. CASE pay[q] = "refunded"
      BY <3>1, <3>2 DEF DealSays
    <3>3. CASE pay[q] # "refunded"
      BY <3>1, <3>3 DEF DealSays
    <3>. QED BY <3>2, <3>3
  <2>. QED BY <2>1
<1>3. ASSUME NEW q \in Orders, orderStatus'[q] = orderStatus[q]
      PROVE  DealOutcome'[q] = DealOutcome[q] /\ DealBuyer'[q] = DealBuyer[q]
  <2>1. orderStatus[q] = "confirmed" => settlement'[q] = settlement[q]
    BY <1>0, <1>1
  <2>2. CASE orderStatus[q] = "confirmed"
    BY <1>3, <2>1, <2>2 DEF DealSays
  <2>3. CASE orderStatus[q] # "confirmed"
    BY <1>3, <2>3 DEF DealSays
  <2>. QED BY <2>2, <2>3
<1>4. CASE MoneyKept(w)
  <2>1. /\ pay[p] \in Unsettled /\ pay'[p] \in Kept
        /\ orderStatus'[o] = "confirmed" /\ orderStatus[o] # "cancelled"
        /\ settlement[o] = p
    BY <1>p, <1>o, <1>4 DEF MoneyKept, LeasedInv, SettlementInv, ClaimedOwns, Claimed, At
  <2>2. orderStatus[o] # "confirmed" /\ settlement'[o] = p
    <3>1. orderStatus[o] = "confirmed" => pay[p] \in Kept \cup {"refunded"}
      BY <2>1 DEF LeasedInv, ConfirmedPaid
    <3>2. p # None
      BY NoneAssumption
    <3>. QED BY <1>0, <2>1, <3>1, <3>2 DEF Unsettled, InFlight, Kept
  <2>3. DealOutcome[o] = "open" /\ DealMoney[p] = "none"
    BY <2>1, <2>2 DEF DealSays, Unsettled, InFlight, Kept
  <2>4. DealOutcome'[o] = "sold" /\ DealBuyer'[o] = p /\ DealMoney'[p] = "kept"
    BY <2>1, <2>2 DEF DealSays
  <2>5. \A q \in Orders \ {o} :
           DealOutcome'[q] = DealOutcome[q] /\ DealBuyer'[q] = DealBuyer[q]
    BY <1>0, <1>3
  <2>. QED BY <1>0, <1>2, <2>3, <2>4, <2>5, DealOfSale
<1>5. CASE ~MoneyKept(w)
  <2>1. DealOutcome' = DealOutcome /\ DealBuyer' = DealBuyer
    <3>1. \A q \in Orders : orderStatus'[q] = orderStatus[q]
      BY <1>0, <1>5
    <3>2. \A q \in Orders : DealOutcome'[q] = DealOutcome[q] /\ DealBuyer'[q] = DealBuyer[q]
      BY <1>3, <3>1
    <3>3. /\ DealOutcome = [q \in Orders |-> DealOutcome[q]]
          /\ DealOutcome' = [q \in Orders |-> DealOutcome'[q]]
          /\ DealBuyer = [q \in Orders |-> DealBuyer[q]]
          /\ DealBuyer' = [q \in Orders |-> DealBuyer'[q]]
      BY DEF DealSays
    <3>4. DealOutcome' = DealOutcome
      BY <3>2, <3>3, Pointwise
    <3>5. DealBuyer' = DealBuyer
      BY <3>2, <3>3, Pointwise
    <3>. QED BY <3>4, <3>5
  <2>2. \/ DealMoney'[p] = DealMoney[p]
        \/ DealMoney[p] = "none" /\ DealMoney'[p] = "owed"
    <3>1. CASE MoneyStays(w)
      <4>1. refund'[p] = refund[p]
            /\ (\/ pay'[p] = pay[p]
                \/ pay[p] \in Unsettled \cup {"none"} /\ pay'[p] \in Unsettled)
        BY <1>p, <3>1 DEF MoneyStays
      <4>2. CASE pay'[p] = pay[p] /\ pay[p] = "refunded"
        BY <4>1, <4>2 DEF DealSays
      <4>3. CASE pay'[p] = pay[p] /\ pay[p] # "refunded"
        BY <4>3 DEF DealSays
      <4>4. CASE pay[p] \in Unsettled \cup {"none"} /\ pay'[p] \in Unsettled
        BY <4>4 DEF DealSays, Unsettled, InFlight, Kept
      <4>. QED BY <4>1, <4>2, <4>3, <4>4
    <3>2. CASE MoneyOwed(w)
      <4>1. /\ pay'[p] = "refund_required" /\ refund[p] \in Reasons \cup {"none"}
            /\ At(w, "stock_refund") \/ pay[p] \in Unsettled \cup {"refund_required"}
        BY <1>p, <3>2 DEF MoneyOwed
      <4>2. pay[p] \notin Kept
        <5>1. At(w, "stock_refund") => orderStatus[o] # "confirmed"
          BY <1>o DEF LeasedInv, Compensated
        <5>2. pay[p] \in Kept => orderStatus[o] = "confirmed"
          BY <1>0 DEF LeasedInv, SettlementInv, SingleSettlement
        <5>. QED BY <4>1, <5>1, <5>2 DEF Unsettled, InFlight, Kept
      <4>3. refund[p] # "staff"
        BY <4>1 DEF Reasons
      <4>4. DealMoney'[p] = "owed"
        BY <4>1 DEF DealSays
      <4>5. DealMoney[p] \in {"none", "owed"}
        BY <4>2, <4>3 DEF DealSays
      <4>. QED BY <4>4, <4>5
    <3>. QED BY <1>0, <1>5, <3>1, <3>2
  <2>. QED BY <1>2, <2>1, <2>2, DealOfMoney
<1>. QED BY <1>4, <1>5

\* What else happens to a payment is the staff's return of kept money, or is not seen.
LEMMA PaymentDeals ==
    ASSUME LeasedInv, DealSays, DealSays', NEW p \in Payments, Returns(p),
           \A q \in Payments \ {p} : pay'[q] = pay[q] /\ refund'[q] = refund[q],
           UNCHANGED <<orderStatus, settlement>>
    PROVE  [Deal!Next]_(Deal!deal)
<1>1. \A q \in Payments \ {p} : DealMoney'[q] = DealMoney[q]
  <2>1. ASSUME NEW q \in Payments, q # p PROVE DealMoney'[q] = DealMoney[q]
    <3>1. pay'[q] = pay[q] /\ refund'[q] = refund[q]
      BY <2>1
    <3>2. CASE pay[q] = "refunded"
      BY <3>1, <3>2 DEF DealSays
    <3>3. CASE pay[q] # "refunded"
      BY <3>1, <3>3 DEF DealSays
    <3>. QED BY <3>2, <3>3
  <2>. QED BY <2>1
<1>2. DealOutcome' = DealOutcome /\ DealBuyer' = DealBuyer
  BY DEF DealOutcome, DealBuyer
<1>3. \/ DealMoney'[p] = DealMoney[p]
      \/ DealMoney[p] = "none" /\ DealMoney'[p] = "owed"
      \/ DealMoney[p] = "kept" /\ DealMoney'[p] = "returned"
  <2>1. CASE pay'[p] = pay[p] /\ refund'[p] = refund[p]
    <3>1. CASE pay[p] = "refunded"
      BY <2>1, <3>1 DEF DealSays
    <3>2. CASE pay[p] # "refunded"
      BY <2>1, <3>2 DEF DealSays
    <3>. QED BY <3>1, <3>2
  <2>2. CASE pay'[p] = pay[p] /\ pay[p] \in Kept /\ refund'[p] = "staff"
    BY <2>2 DEF DealSays
  <2>3. CASE refund'[p] = refund[p] /\ refund[p] # "none" /\ pay'[p] = "refunded"
    <3>1. MoneyOf(p) /\ refund[p] \in Reasons \cup {"staff"}
      BY <2>3 DEF LeasedInv, Monies, SettlementInv, TypeOK, PaymentTypeOK
    <3>2. CASE refund[p] = "staff"
      BY <2>3, <3>1, <3>2 DEF DealSays, MoneyOf
    <3>3. CASE refund[p] \in Reasons
      <4>1. refund[p] # "staff" /\ pay[p] \in {"refund_required", "refunded"}
        BY <3>1, <3>3 DEF MoneyOf, Reasons
      <4>. QED BY <2>3, <4>1 DEF DealSays
    <3>. QED BY <3>1, <3>2, <3>3
  <2>. QED BY <2>1, <2>2, <2>3 DEF Returns
<1>. QED BY <1>1, <1>2, <1>3, DealOfMoney

\* A cancelled order is called off; an expired one is still open.
LEMMA OrderDeals ==
    ASSUME LeasedInv, DealSays, DealSays', NEW o \in Orders, OrderStep(o)
    PROVE  [Deal!Next]_(Deal!deal)
<1>0. orderStatus \in [Orders -> OrderStatuses]
  BY DEF LeasedInv, SettlementInv, TypeOK, OrderTypeOK
<1>1. UNCHANGED <<settlement, pay, refund>>
  BY DEF OrderStep, CloseWindow, CancelOrder, ExpireOrder, ListReservation, ExpireReservation,
     StaffStep
<1>2. DealMoney' = DealMoney
  BY <1>1 DEF DealMoney
<1>3. \/ orderStatus' = orderStatus
      \/ /\ orderStatus[o] = "pending_confirmation"
         /\ \E s \in {"cancelled", "expired"} : orderStatus' = [orderStatus EXCEPT ![o] = s]
  BY DEF OrderStep, CloseWindow, CancelOrder, ExpireOrder, ListReservation, ExpireReservation,
     StaffStep
<1>4. CASE orderStatus' = orderStatus
  <2>1. DealOutcome' = DealOutcome /\ DealBuyer' = DealBuyer
    BY <1>1, <1>4 DEF DealOutcome, DealBuyer
  <2>. QED BY <1>2, <2>1 DEF Deal!deal
<1>5. CASE /\ orderStatus[o] = "pending_confirmation"
           /\ \E s \in {"cancelled", "expired"} : orderStatus' = [orderStatus EXCEPT ![o] = s]
  <2>1. /\ \A q \in Orders : q # o => orderStatus'[q] = orderStatus[q]
        /\ orderStatus'[o] \in {"cancelled", "expired"}
    BY <1>0, <1>5
  <2>2. ASSUME NEW q \in Orders, q # o
        PROVE  DealOutcome'[q] = DealOutcome[q] /\ DealBuyer'[q] = DealBuyer[q]
    <3>1. orderStatus'[q] = orderStatus[q] /\ settlement'[q] = settlement[q]
      BY <1>1, <2>1, <2>2
    <3>2. CASE orderStatus[q] = "confirmed"
      BY <3>1, <3>2 DEF DealSays
    <3>3. CASE orderStatus[q] # "confirmed"
      BY <3>1, <3>3 DEF DealSays
    <3>. QED BY <3>2, <3>3
  <2>3. DealOutcome[o] = "open" /\ DealBuyer[o] = None
    BY <1>5 DEF DealSays
  <2>4. DealBuyer'[o] = None /\ DealOutcome'[o] \in {"open", "void"}
    BY <2>1 DEF DealSays
  <2>5. /\ DealOutcome = [q \in Orders |-> DealOutcome[q]]
        /\ DealOutcome' = [q \in Orders |-> DealOutcome'[q]]
        /\ DealBuyer = [q \in Orders |-> DealBuyer[q]]
        /\ DealBuyer' = [q \in Orders |-> DealBuyer'[q]]
    BY DEF DealSays
  <2>6. DealBuyer' = DealBuyer
    BY <2>2, <2>3, <2>4, <2>5, Pointwise
  <2>7. CASE DealOutcome'[o] = "open"
    <3>1. DealOutcome' = DealOutcome
      BY <2>2, <2>3, <2>5, <2>7, Pointwise
    <3>. QED BY <1>2, <2>6, <3>1 DEF Deal!deal
  <2>8. CASE DealOutcome'[o] = "void"
    <3>1. DealOutcome' = [DealOutcome EXCEPT ![o] = DealOutcome'[o]]
      BY <2>2, <2>5, Pointwise
    <3>. QED BY <1>2, <2>3, <2>6, <2>8, <3>1 DEF Deal!Next, Deal!CallOff
  <2>. QED BY <2>4, <2>7, <2>8
<1>. QED BY <1>3, <1>4, <1>5

\* While no job outlives its lease, the payment service implements the deal: every one of
\* its runs sells an order to one payment at most, owes or keeps what came in, and takes
\* back what it kept only by the hand of its staff.
THEOREM ServiceKeepsTheDeal == ~SlowWorkers /\ Spec => ImplementsDeal
<1>. SUFFICES ASSUME ~SlowWorkers PROVE Spec => ImplementsDeal
  OBVIOUS
<1>1. Init => Deal!Init
  BY DEF Init, Deal!Init, DealOutcome, DealBuyer, DealMoney, Kept
<1>2. LeasedInv /\ LeasedInv' /\ DealSays /\ DealSays' /\ [Next]_vars
        => [Deal!Next]_(Deal!deal)
  <2>. SUFFICES ASSUME LeasedInv, LeasedInv', DealSays, DealSays', [Next]_vars
                PROVE  [Deal!Next]_(Deal!deal)
    OBVIOUS
  <2>1. ASSUME NEW w \in Workers, WorkerStep(w) PROVE [Deal!Next]_(Deal!deal)
    <3>1. WatchInv /\ TypeOK /\ JobTypeOK
      BY DEF LeasedInv, SettlementInv, TypeOK
    <3>. QED BY <2>1, <3>1, WorkerBusy, WorkerFrame, WorkerSettles, WorkerDeals
  <2>2. ASSUME NEW p \in Payments, PaymentStep(p) PROVE [Deal!Next]_(Deal!deal)
    <3>1. Returns(p)
      BY <2>2, OthersEffect
    <3>2. UNCHANGED <<orderStatus, settlement>>
          /\ \A q \in Payments \ {p} : pay'[q] = pay[q] /\ refund'[q] = refund[q]
      BY <2>2 DEF PaymentStep, StaffRefund, RefundCompleted, Capture, LeaseExpire,
         LeasedInv, SettlementInv, TypeOK, PaymentTypeOK
    <3>. QED BY <3>1, <3>2, PaymentDeals
  <2>3. ASSUME NEW o \in Orders, OrderStep(o) PROVE [Deal!Next]_(Deal!deal)
    BY <2>3, OrderDeals
  <2>4. CASE \/ \E w \in Workers : Crash(w)
             \/ \E w \in Workers, p \in Payments : RequestStep(w, p)
             \/ SellElsewhere \/ Restock \/ UNCHANGED vars
    <3>1. UNCHANGED <<orderStatus, settlement, pay, refund>>
      BY <2>4 DEF Crash, RequestStep, InitiateCheck, CheckRequested, SchedulerReconcile,
         SellElsewhere, Restock, vars
    <3>. QED BY <3>1 DEF Deal!deal, DealOutcome, DealBuyer, DealMoney
  <2>. QED BY <2>1, <2>2, <2>3, <2>4 DEF Next
<1>. QED BY <1>1, <1>2, DealSaid, LeasedInvariant, PTL DEF Spec, ImplementsDeal, Deal!Spec
=============================================================================
