---------------------------- MODULE RefundsProofs ----------------------------
(***************************************************************************)
(* Theorems about Refunds, for any rows, jobs and amounts, and any bounds. *)
(***************************************************************************)
EXTENDS Refunds, FiniteSetTheorems, TLAPS

-----------------------------------------------------------------------------
(* What the cap says. *)

CommittedUnits(st, am) == Units(st, am, Committed)
UnitsOf(r, am) == {r} \X (1..am[r])

\* There are finitely many amounts, one for each unit of the payment.
LEMMA AmountsCounted == IsFiniteSet(Amounts) /\ Cardinality(Amounts) = Amount
<1>1. 1 \in Int /\ Amount \in Int /\ ~(1 > Amount) /\ Amount - 1 + 1 = Amount
  BY BoundsAssumption
<1>. QED BY <1>1, FS_Interval DEF Amounts

\* There are finitely many units, and those of a row are as many as its amount.
LEMMA UnitsCounted ==
    ASSUME NEW st, NEW am \in [Refunds -> Amounts \cup {0}]
    PROVE  /\ IsFiniteSet(CommittedUnits(st, am))
           /\ Cardinality(CommittedUnits(st, am)) \in Nat
           /\ \A r \in Refunds : /\ IsFiniteSet(UnitsOf(r, am))
                                 /\ Cardinality(UnitsOf(r, am)) = am[r]
                                 /\ st[r] \in Committed => UnitsOf(r, am) \subseteq CommittedUnits(st, am)
<1>1. IsFiniteSet(Refunds \X Amounts)
  BY AmountsCounted, FS_Product, RefundsAssumption
<1>2. IsFiniteSet(CommittedUnits(st, am)) /\ Cardinality(CommittedUnits(st, am)) \in Nat
  <2>1. CommittedUnits(st, am) \in SUBSET (Refunds \X Amounts)
    BY DEF CommittedUnits, Units
  <2>. QED BY <1>1, <2>1, FS_Subset, FS_CardinalityType
<1>3. ASSUME NEW r \in Refunds
      PROVE  /\ IsFiniteSet(UnitsOf(r, am)) /\ Cardinality(UnitsOf(r, am)) = am[r]
             /\ st[r] \in Committed => UnitsOf(r, am) \subseteq CommittedUnits(st, am)
  <2>1. am[r] \in Nat /\ 1..am[r] \subseteq Amounts
    <3>1. Amount \in Nat /\ am[r] \in Amounts \cup {0}
      BY BoundsAssumption
    <3>2. am[r] \in Nat /\ am[r] <= Amount
      BY <3>1 DEF Amounts
    <3>. QED BY <3>1, <3>2 DEF Amounts
  <2>2. IsFiniteSet(1..am[r]) /\ Cardinality(1..am[r]) = am[r]
    <3>1. 1 \in Int /\ am[r] \in Int /\ (IF 1 > am[r] THEN 0 ELSE am[r] - 1 + 1) = am[r]
      BY <2>1
    <3>. QED BY <3>1, FS_Interval
  <2>3. IsFiniteSet({r}) /\ Cardinality({r}) = 1
    BY FS_Singleton
  <2>4. IsFiniteSet(UnitsOf(r, am)) /\ Cardinality(UnitsOf(r, am)) = 1 * am[r]
    <3>1. /\ IsFiniteSet({r} \X (1..am[r]))
          /\ Cardinality({r} \X (1..am[r])) = Cardinality({r}) * Cardinality(1..am[r])
      BY <2>2, <2>3, FS_Product, Zenon
    <3>. QED BY <2>2, <2>3, <3>1, Zenon DEF UnitsOf
  <2>5. st[r] \in Committed => UnitsOf(r, am) \subseteq CommittedUnits(st, am)
    BY <2>1 DEF UnitsOf, CommittedUnits, Units
  <2>. QED BY <2>1, <2>4, <2>5
<1>. QED BY <1>2, <1>3

\* Two rows under the cap fit the payment together.
LEMMA CapPair ==
    ASSUME NEW st, NEW am \in [Refunds -> Amounts \cup {0}], Fits(st, am),
           NEW r \in Refunds, NEW q \in Refunds, r # q,
           st[r] \in Committed, st[q] \in Committed
    PROVE  am[r] + am[q] <= Amount
<1>1. UnitsOf(r, am) \cap UnitsOf(q, am) = {}
  BY DEF UnitsOf
<1>2. Cardinality(UnitsOf(r, am) \cup UnitsOf(q, am)) = am[r] + am[q] - 0
  BY <1>1, UnitsCounted, FS_Union, FS_EmptySet
<1>3. Cardinality(UnitsOf(r, am) \cup UnitsOf(q, am)) <= Cardinality(CommittedUnits(st, am))
  <2>1. UnitsOf(r, am) \cup UnitsOf(q, am) \in SUBSET CommittedUnits(st, am)
    BY UnitsCounted
  <2>. QED BY <2>1, UnitsCounted, FS_Subset
<1>4. Cardinality(CommittedUnits(st, am)) <= Amount
  BY DEF Fits, Total, CommittedUnits
<1>5. am[r] \in Nat /\ am[q] \in Nat
  BY BoundsAssumption DEF Amounts
<1>. QED BY <1>2, <1>3, <1>4, <1>5, UnitsCounted, BoundsAssumption

\* A row that leaves the cap, or stays in it, leaves room for the others.
LEMMA CapKept ==
    ASSUME NEW st \in [Refunds -> Statuses], NEW am \in [Refunds -> Amounts \cup {0}], Fits(st, am),
           NEW r \in Refunds, NEW to, st[r] \in Committed
    PROVE  Fits([st EXCEPT ![r] = to], am)
<1>. DEFINE st2 == [st EXCEPT ![r] = to]
<1>1. CommittedUnits(st2, am) \in SUBSET CommittedUnits(st, am)
  BY DEF CommittedUnits, Units
<1>2. Cardinality(CommittedUnits(st2, am)) <= Cardinality(CommittedUnits(st, am))
  BY <1>1, UnitsCounted, FS_Subset
<1>3. Cardinality(CommittedUnits(st, am)) <= Amount
  BY DEF Fits, Total, CommittedUnits
<1>4. Cardinality(CommittedUnits(st2, am)) \in Nat
  BY UnitsCounted
<1>. HIDE DEF st2
<1>5. Cardinality(CommittedUnits(st2, am)) <= Amount
  BY <1>2, <1>3, <1>4, UnitsCounted, BoundsAssumption
<1>. QED BY <1>5 DEF Fits, Total, CommittedUnits, st2

-----------------------------------------------------------------------------
(* The inductive invariant. *)

Working == {"lease", "call", "apply", "review"}
Submits(w, r) == Ref(w) = r /\ job[w].kind = "process" /\ job[w].pc \in Working
Paid == Submitted \cup {"succeeded"}
\* The row that accounts for a reversal.
Whole(r) == amount[r] = Amount /\ status[r] \in Paid

\* What the fields of a job can be at each of its steps.
JobsInv ==
    \A w \in Workers :
        /\ job[w].pc # "idle" => Ref(w) \in Refunds
        /\ job[w].pc \in Working => job[w].kind \in {"process", "reconcile"}
        /\ job[w].pc = "apply" => job[w].result \in {"succeeded", "failed"}

\* A row that was created has an amount, jobs work on created rows, and the cap holds.
RowsInv ==
    /\ \A r \in Refunds : status[r] # "none" => amount[r] > 0
    /\ \A w \in Workers : job[w].pc # "idle" => status[Ref(w)] # "none"
    /\ Fits(status, amount)

\* A job works on a refund under its lease, and takes a refund for paid out only when the
\* gateway has reversed the session.
LeaseInv == \A w \in Workers, r \in Refunds : Holds(w, r) => lease[r] = w
GatewayInv ==
    /\ \A w \in Workers : At(w, "apply") /\ job[w].result = "succeeded" => session = "reversed"
    /\ BooksFollowGateway

\* While no failure was applied under a pending submission, only one job submits a refund,
\* and it finds the session captured; a failure is not that of the reversal, and the
\* reversal is accounted for.
OneSubmits == \A v, w \in Workers, r \in Refunds : Submits(v, r) /\ Submits(w, r) => v = w
SubmitsRow ==
    \A w \in Workers, r \in Refunds : Submits(w, r) =>
        /\ status[r] \in Paid
        /\ job[w].pc \in {"lease", "call"} => session = "captured"
Failing(w) == At(w, "apply") /\ job[w].result = "failed"
FailuresMeanIt == \A w \in Workers : Failing(w) => session = "captured" \/ ~Whole(Ref(w))
Accounted == session = "reversed" => \E r \in Refunds : Whole(r)
RaceInv == ~raced => OneSubmits /\ SubmitsRow /\ FailuresMeanIt /\ Accounted

\* The types, by the kinds of state that change together.
RowsTypeOK ==
    /\ payment \in PaymentStatuses /\ settles \in BOOLEAN /\ projection \in Projections
    /\ status \in [Refunds -> Statuses]
    /\ amount \in [Refunds -> Amounts \cup {0}]
    /\ byHand \in [Refunds -> BOOLEAN]
    /\ reference \in Refunds \cup {None}
    /\ session \in {"captured", "reversed"}
    /\ crashes \in 0..MaxCrashes /\ raced \in BOOLEAN
ReviewTypeOK ==
    /\ recon \in [Refunds -> BOOLEAN]
    /\ attempts \in [Refunds -> Nat]
    /\ manual \in [Refunds -> BOOLEAN]
JobsTypeOK ==
    job \in [Workers -> Jobs] /\ lease \in [Refunds -> Workers \cup {None}] /\ JobsInv

Typed == RowsTypeOK /\ ReviewTypeOK /\ JobsTypeOK
Inv == Typed /\ RowsInv /\ LeaseInv /\ GatewayInv /\ RaceInv
-----------------------------------------------------------------------------
(* Types. *)

USE DEF paymentVars, rowVars, reviewVars, historyVars

\* A step that moves one job on.
LEMMA JobMoves ==
    ASSUME JobsTypeOK, NEW w \in Workers, NEW j \in Jobs, job' = [job EXCEPT ![w] = j],
           lease' \in [Refunds -> Workers \cup {None}],
           j.pc # "idle" => j.refund \in Refunds,
           j.pc \in Working => j.kind \in {"process", "reconcile"},
           j.pc = "apply" => j.result \in {"succeeded", "failed"}
    PROVE  JobsTypeOK'
<1>1. /\ job' \in [Workers -> Jobs] /\ job'[w] = j
      /\ \A v \in Workers \ {w} : job'[v] = job[v]
  BY DEF JobsTypeOK
<1>2. JobsInv'
  BY <1>1 DEF JobsTypeOK, JobsInv, Ref
<1>. QED BY <1>1, <1>2 DEF JobsTypeOK

\* Starting a job.
LEMMA StartType ==
    ASSUME JobsTypeOK, NEW w \in Workers, NEW r \in Refunds, NEW pc, NEW kind,
           \/ pc = "process" /\ kind = "none"
           \/ pc = "lease" /\ kind \in {"process", "reconcile"},
           job' = [job EXCEPT ![w] = Started(pc, r, kind)], UNCHANGED lease
    PROVE  JobsTypeOK'
<1>1. Started(pc, r, kind) \in Jobs
  BY DEF Started, Jobs, Results
<1>2. /\ Started(pc, r, kind).pc = pc /\ Started(pc, r, kind).refund = r
      /\ Started(pc, r, kind).kind = kind
  BY DEF Started
<1>3. lease' \in [Refunds -> Workers \cup {None}]
  BY DEF JobsTypeOK
<1>. QED BY <1>1, <1>2, <1>3, JobMoves DEF Working

\* Going idle, in whatever way.
LEMMA IdleType ==
    ASSUME JobsTypeOK, NEW w \in Workers, job' = [job EXCEPT ![w] = Idle],
           lease' \in [Refunds -> Workers \cup {None}]
    PROVE  JobsTypeOK'
<1>1. Idle \in Jobs /\ Idle.pc = "idle"
  BY DEF Idle, Started, Jobs, Results
<1>. QED BY <1>1, JobMoves DEF Working

\* The end of a request, which may give up the lease.
LEMMA FinishType ==
    ASSUME JobsTypeOK, NEW w \in Workers, Finish(w)
    PROVE  JobsTypeOK'
<1>1. lease' \in [Refunds -> Workers \cup {None}]
  BY DEF JobsTypeOK, Finish
<1>. QED BY <1>1, IdleType DEF Finish

\* What a job is once the gateway has answered.
AnsweredJob(w, result) ==
    [job[w] EXCEPT !.pc = IF result = "unknown" THEN "review" ELSE "apply",
                   !.result = IF result = "unknown" THEN "none" ELSE result]

\* A job that got its answer, as one row.
LEMMA AnsweredIs ==
    ASSUME JobsTypeOK, NEW w \in Workers, NEW result \in {"unknown", "succeeded", "failed"},
           Answered(w, result)
    PROVE  /\ job' = [job EXCEPT ![w] = AnsweredJob(w, result)]
           /\ AnsweredJob(w, result) \in Jobs
           /\ AnsweredJob(w, result).pc = IF result = "unknown" THEN "review" ELSE "apply"
           /\ AnsweredJob(w, result).refund = job[w].refund
           /\ AnsweredJob(w, result).kind = job[w].kind
           /\ result # "unknown" => AnsweredJob(w, result).result = result
<1>1. job' = [job EXCEPT ![w] = AnsweredJob(w, result)]
  BY DEF JobsTypeOK, Answered, AnsweredJob
<1>2. job[w] \in Jobs
  BY DEF JobsTypeOK
<1>. HIDE DEF Answered
<1>. DEFINE a == IF result = "unknown" THEN "review" ELSE "apply"
            b == IF result = "unknown" THEN "none" ELSE result
<1>3. /\ a \in {"review", "apply"} /\ b \in Results
      /\ result # "unknown" => b = result
  BY DEF Results
<1>4. AnsweredJob(w, result) = [job[w] EXCEPT !.pc = a, !.result = b]
  BY DEF AnsweredJob
<1>5. a = IF result = "unknown" THEN "review" ELSE "apply"
  OBVIOUS
<1>. HIDE DEF a, b
<1>. DEFINE k == [job[w] EXCEPT !.pc = a, !.result = b]
<1>6. /\ k \in Jobs /\ k.pc = a /\ k.refund = job[w].refund
      /\ k.kind = job[w].kind /\ k.result = b
  BY <1>2, <1>3 DEF Jobs
<1>. HIDE DEF k
<1>. QED BY <1>1, <1>3, <1>4, <1>5, <1>6 DEF k

\* An answer keeps the jobs well-formed.
LEMMA AnsweredType ==
    ASSUME JobsTypeOK, NEW w \in Workers, job[w].pc \in {"call", "apply"},
           NEW result \in {"unknown", "succeeded", "failed"}, Answered(w, result),
           UNCHANGED lease
    PROVE  JobsTypeOK'
<1>1. /\ job[w].kind \in {"process", "reconcile"} /\ job[w].refund \in Refunds
      /\ lease' \in [Refunds -> Workers \cup {None}]
  BY DEF JobsTypeOK, JobsInv, Working, Ref
<1>. DEFINE j == AnsweredJob(w, result)
<1>2. /\ job' = [job EXCEPT ![w] = j] /\ j \in Jobs /\ j.refund \in Refunds
      /\ j.kind \in {"process", "reconcile"} /\ j.pc \in {"review", "apply"}
  BY <1>1, AnsweredIs
<1>3. j.pc = "apply" => j.result \in {"succeeded", "failed"}
  <2>1. CASE result = "unknown"
    BY <2>1, AnsweredIs
  <2>2. CASE result # "unknown"
    <3>1. j.result = result
      BY <2>2, AnsweredIs
    <3>. QED BY <2>2, <3>1
  <2>. QED BY <2>1, <2>2
<1>. HIDE DEF j
<1>. QED BY <1>1, <1>2, <1>3, JobMoves

\* Where nothing changes, nothing needs to be looked at.
LEMMA SameRows ==
    ASSUME RowsTypeOK, UNCHANGED <<paymentVars, status, rowVars, reference, session, historyVars>>
    PROVE  RowsTypeOK'
BY DEF RowsTypeOK

\* Steps that leave the reviews alone keep their types.
LEMMA SameReview ==
    ASSUME ReviewTypeOK, UNCHANGED reviewVars
    PROVE  ReviewTypeOK'
BY DEF ReviewTypeOK

\* Steps that leave the jobs and the leases alone keep their types.
LEMMA SameJobs ==
    ASSUME JobsTypeOK, UNCHANGED <<job, lease>>
    PROVE  JobsTypeOK'
BY DEF JobsTypeOK, JobsInv, Ref

\* A decision on a row, and the end of its review.
LEMMA DecideType ==
    ASSUME RowsTypeOK, NEW r \in Refunds, NEW from, NEW to \in Statuses, Decide(r, from, to)
    PROVE  RowsTypeOK'
BY DEF RowsTypeOK, Decide

\* A review that ends keeps the types.
LEMMA ClearType ==
    ASSUME ReviewTypeOK, NEW r \in Refunds, Clear(r)
    PROVE  ReviewTypeOK'
BY DEF ReviewTypeOK, Clear

\* Every step of the desk keeps the types.
LEMMA DeskTypes ==
    ASSUME Typed, NEW r \in Refunds, DeskStep(r) \/ LeaseExpire(r)
    PROVE  Typed'
<1>. USE DEF Typed
<1>1. ASSUME NEW a \in Amounts, Insert(r, a) PROVE Typed'
  <2>1. RowsTypeOK'
    BY <1>1 DEF RowsTypeOK, Insert, Statuses
  <2>. QED BY <1>1, <2>1, SameReview, SameJobs DEF Insert
<1>2. CASE ApproveRefund(r)
  BY <1>2, DecideType, SameReview, SameJobs DEF ApproveRefund, Decide, Statuses
<1>3. ASSUME NEW to \in {"rejected", "cancelled"}, SetRefundTerminal(r, to) PROVE Typed'
  <2>1. ReviewTypeOK'
    BY <1>3 DEF SetRefundTerminal, ReviewTypeOK
  <2>2. RowsTypeOK'
    BY <1>3, DecideType DEF SetRefundTerminal, Statuses
  <2>. QED BY <1>3, <2>1, <2>2, SameJobs DEF SetRefundTerminal, Decide
<1>4. CASE LeaseExpire(r)
  <2>1. JobsTypeOK'
    BY <1>4 DEF LeaseExpire, JobsTypeOK, JobsInv, Ref
  <2>. QED BY <1>4, <2>1, SameRows, SameReview DEF LeaseExpire
<1>. QED BY <1>1, <1>2, <1>3, <1>4 DEF DeskStep, CreateRefund, RequestRefundInTransaction

\* Starting a job keeps the types.
LEMMA StartTypes ==
    ASSUME Typed, NEW w \in Workers, NEW r \in Refunds, StartStep(w, r) \/ ProcessRetried(w)
    PROVE  Typed'
<1>. USE DEF Typed
<1>1. CASE RetryRefund(w, r)
  BY <1>1, DecideType, ClearType, StartType DEF RetryRefund, Statuses, Decide
<1>2. ASSUME NEW q \in Refunds, Submit(w, q) PROVE Typed'
  <2>1. ReviewTypeOK'
    BY <1>2 DEF Submit, ReviewTypeOK
  <2>2. RowsTypeOK'
    BY <1>2, DecideType DEF Submit, Statuses, Submitted
  <2>. QED BY <1>2, <2>1, <2>2, StartType DEF Submit, Decide
<1>3. CASE ReconcileRefund(w, r)
  BY <1>3, StartType, SameRows, SameReview DEF ReconcileRefund
<1>4. CASE ProcessRetried(w)
  BY <1>2, <1>4 DEF ProcessRetried, JobsTypeOK, JobsInv, At
<1>. QED BY <1>1, <1>2, <1>3, <1>4 DEF StartStep, ProcessRefund

\* Every other step of a job keeps the types.
LEMMA JobTypes ==
    ASSUME Typed, NEW w \in Workers, JobStep(w) \/ Crash(w)
    PROVE  Typed'
<1>. USE DEF Typed
<1>0. /\ job[w].pc \in Working => Ref(w) \in Refunds /\ Ref(w) = job[w].refund
      /\ job[w].pc = "apply" => job[w].result \in {"succeeded", "failed"}
  BY DEF JobsTypeOK, JobsInv, Working, Ref
<1>1. CASE ProcessRetried(w)
  <2>1. Ref(w) \in Refunds
    BY <1>1 DEF ProcessRetried, JobsTypeOK, JobsInv, At
  <2>. QED BY <1>1, <2>1, StartTypes
<1>2. CASE RetryRefused(w) \/ LeaseRefused(w)
  <2>1. lease' \in [Refunds -> Workers \cup {None}]
    BY <1>2 DEF RetryRefused, LeaseRefused, JobsTypeOK
  <2>. QED BY <1>2, <2>1, IdleType, SameRows, SameReview DEF RetryRefused, LeaseRefused
<1>3. CASE TakeLease(w)
  <2>1. \A j \in Jobs : LET k == [j EXCEPT !.pc = "call"] IN
           k \in Jobs /\ k.pc = "call" /\ k.refund = j.refund /\ k.kind = j.kind
    BY DEF Jobs
  <2>2. /\ job[w] \in Jobs /\ job[w].kind \in {"process", "reconcile"} /\ job[w].refund \in Refunds
        /\ job' = [job EXCEPT ![w] = [job[w] EXCEPT !.pc = "call"]]
    BY <1>3 DEF TakeLease, At, JobsTypeOK, JobsInv, Working, Ref
  <2>3. lease' \in [Refunds -> Workers \cup {None}]
    BY <1>0, <1>3 DEF TakeLease, JobsTypeOK
  <2>4. JobsTypeOK'
    BY <2>1, <2>2, <2>3, JobMoves
  <2>. QED BY <1>3, <2>4, SameRows, SameReview DEF TakeLease
<1>4. CASE Refuse(w) \/ LoseRequest(w) \/ Inquire(w)
  BY <1>4, AnsweredType, SameRows, SameReview DEF Refuse, LoseRequest, Inquire, At
<1>5. CASE Reverse(w)
  <2>1. RowsTypeOK'
    BY <1>5 DEF RowsTypeOK, Reverse
  <2>. QED BY <1>5, <2>1, AnsweredType, SameReview DEF Reverse, At
<1>6. CASE ApplyFailed(w)
  <2>1. RowsTypeOK'
    BY <1>0, <1>6 DEF RowsTypeOK, ApplyFailed, At, Working, Statuses
  <2>. QED BY <1>0, <1>6, <2>1, ClearType, FinishType DEF ApplyFailed, At, Working
<1>7. CASE ApplySucceeded(w)
  <2>1. payment' \in PaymentStatuses /\ projection' \in Projections
    BY <1>7 DEF RowsTypeOK, ApplySucceeded, PaymentStatuses, Projections
  <2>2. status' \in [Refunds -> Statuses] /\ reference' \in Refunds \cup {None}
    BY <1>0, <1>7 DEF RowsTypeOK, ApplySucceeded, At, Working, Statuses
  <2>3. RowsTypeOK'
    BY <1>7, <2>1, <2>2 DEF RowsTypeOK, ApplySucceeded
  <2>. QED BY <1>0, <1>7, <2>3, ClearType, FinishType DEF ApplySucceeded, At, Working
<1>8. CASE ApplyAborted(w)
  BY <1>8, AnsweredType, SameRows, SameReview DEF ApplyAborted, At
<1>9. CASE ScheduleRefundReview(w)
  <2>0. Ref(w) \in Refunds
    BY <1>0, <1>9 DEF ScheduleRefundReview, Review, At, Working
  <2>1. attempts' \in [Refunds -> Nat]
    BY <1>9, <2>0 DEF ScheduleRefundReview, Review, ReviewTypeOK
  <2>2. ReviewTypeOK'
    BY <1>9, <2>0, <2>1 DEF ReviewTypeOK, ScheduleRefundReview, Review
  <2>3. RowsTypeOK'
    BY <1>9, <2>0 DEF RowsTypeOK, ScheduleRefundReview, Review, Statuses, Submitted
  <2>. QED BY <1>9, <2>2, <2>3, FinishType DEF ScheduleRefundReview, Review
<1>10. CASE Crash(w)
  <2>1. lease' \in [Refunds -> Workers \cup {None}]
    BY <1>10 DEF Crash, JobsTypeOK
  <2>2. RowsTypeOK'
    BY <1>10, BoundsAssumption DEF RowsTypeOK, Crash
  <2>. QED BY <1>10, <2>1, <2>2, IdleType, SameReview DEF Crash
<1>. QED BY <1>1, <1>2, <1>3, <1>4, <1>5, <1>6, <1>7, <1>8, <1>9, <1>10 DEF JobStep

\* The initial states are well-formed.
LEMMA InitTypes == Init => Typed
<1>. SUFFICES ASSUME Init PROVE Typed
  OBVIOUS
<1>1. (CHOOSE r \in Refunds : TRUE) \in Refunds \/ Refunds = {}
  OBVIOUS
<1>2. RowsTypeOK
  <2>1. payment \in PaymentStatuses /\ settles \in BOOLEAN /\ projection \in Projections
    BY DEF Init, PaymentStatuses, Projections
  <2>2. status \in [Refunds -> Statuses] /\ amount \in [Refunds -> Amounts \cup {0}]
    <3>1. \A auto : [r \in Refunds |-> IF r = auto THEN Amount ELSE 0] \in [Refunds -> Amounts \cup {0}]
      BY BoundsAssumption DEF Amounts
    <3>. QED BY <3>1 DEF Init, Statuses
  <2>3. /\ byHand \in [Refunds -> BOOLEAN] /\ reference = None /\ session = "captured"
        /\ crashes = 0 /\ raced = FALSE
    BY DEF Init
  <2>4. 0 \in 0..MaxCrashes
    BY BoundsAssumption
  <2>. QED BY <2>1, <2>2, <2>3, <2>4 DEF RowsTypeOK
<1>3. ReviewTypeOK
  BY BoundsAssumption DEF Init, ReviewTypeOK
<1>4. JobsTypeOK
  <2>1. Idle \in Jobs /\ Idle.pc = "idle"
    BY DEF Idle, Started, Jobs, Results
  <2>. QED BY <2>1 DEF Init, JobsTypeOK, JobsInv, Working
<1>. QED BY <1>2, <1>3, <1>4 DEF Typed

\* Every step keeps the types.
LEMMA NextTypes == Typed /\ [Next]_vars => Typed'
<1>. SUFFICES ASSUME Typed, [Next]_vars PROVE Typed'
  OBVIOUS
<1>1. CASE UNCHANGED vars
  BY <1>1, SameRows, SameReview, SameJobs DEF vars, Typed
<1>2. CASE Next
  BY <1>2, DeskTypes, StartTypes, JobTypes DEF Next
<1>. QED BY <1>1, <1>2

(* The rows, the jobs and the leases of a payment's refunds keep their types, whatever *)
(* staff, scheduler, gateway and crashes do.                                           *)
THEOREM TypeCorrect == Spec => []TypeOK
<1>1. Typed => TypeOK
  BY DEF Typed, RowsTypeOK, ReviewTypeOK, JobsTypeOK, TypeOK
<1>. QED BY <1>1, InitTypes, NextTypes, PTL DEF Spec
-----------------------------------------------------------------------------
(* The invariant, by what a step does to the jobs. *)

Jobless == Typed /\ LeaseInv /\ GatewayInv /\ RaceInv

\* A step that leaves job w (if there is one) without a lease and without a submission.
\* What is paid out stays so for those who submit it, for those about to fail it, and
\* for whoever accounts for the reversal.
LEMMA QuietStep ==
    ASSUME Jobless, JobsTypeOK', NEW w,
           \A v \in Workers \ {w} : job'[v] = job[v],
           w \in Workers => job'[w].pc \notin {"call", "apply", "review"},
           w \in Workers => ~(job'[w].pc = "lease" /\ job'[w].kind = "process"),
           \A v \in Workers \ {w}, r \in Refunds : Holds(v, r) /\ lease[r] = v => lease'[r] = v,
           session' = session, raced => raced', BooksFollowGateway',
           \A v \in Workers \ {w}, r \in Refunds :
              ~raced' /\ Submits(v, r) /\ status[r] \in Paid => status'[r] \in Paid,
           \A v \in Workers \ {w} : ~raced' /\ Failing(v) /\ Whole(Ref(v))' => Whole(Ref(v)),
           ~raced' /\ Accounted => Accounted'
    PROVE  LeaseInv' /\ GatewayInv' /\ RaceInv'
<1>. USE DEF Jobless
<1>1. \A v \in Workers, r \in Refunds : Holds(v, r)' => v # w /\ Holds(v, r)
  BY DEF Holds, Ref
<1>2. LeaseInv'
  BY <1>1 DEF LeaseInv
<1>3. \A v \in Workers : At(v, "apply")' => v # w /\ At(v, "apply") /\ job'[v] = job[v]
  BY DEF At
<1>4. GatewayInv'
  BY <1>3 DEF GatewayInv
<1>5. ASSUME ~raced' PROVE OneSubmits' /\ SubmitsRow' /\ FailuresMeanIt' /\ Accounted'
  <2>1. OneSubmits /\ SubmitsRow /\ FailuresMeanIt /\ Accounted
    BY <1>5 DEF RaceInv
  <2>2. \A v \in Workers, r \in Refunds : Submits(v, r)' =>
           v # w /\ Submits(v, r) /\ job'[v] = job[v]
    BY DEF Submits, Ref, Working
  <2>3. OneSubmits'
    BY <2>1, <2>2 DEF OneSubmits
  <2>4. SubmitsRow'
    BY <1>5, <2>1, <2>2 DEF SubmitsRow
  <2>5. FailuresMeanIt'
    <3>. SUFFICES ASSUME NEW v \in Workers, Failing(v)', session' # "captured", Whole(Ref(v))'
                  PROVE  FALSE
      BY DEF FailuresMeanIt
    <3>1. v # w /\ Failing(v)
      BY <1>3 DEF Failing
    <3>. QED BY <1>5, <2>1, <3>1 DEF FailuresMeanIt
  <2>. QED BY <1>5, <2>1, <2>3, <2>4, <2>5
<1>. QED BY <1>2, <1>4, <1>5 DEF RaceInv

\* A job that works on: with the gateway unmoved and the rows untouched.
LEMMA WorkingStep ==
    ASSUME Jobless, JobsTypeOK', NEW w \in Workers,
           \A v \in Workers \ {w} : job'[v] = job[v],
           job[w].pc \in Working, job'[w].pc \in Working \ {"lease"},
           job'[w].refund = job[w].refund, job'[w].kind = job[w].kind,
           job'[w].pc = "call" => job[w].pc = "lease",
           \A r \in Refunds : Holds(w, r)' => lease'[r] = w,
           \A v \in Workers \ {w}, r \in Refunds : Holds(v, r) /\ lease[r] = v => lease'[r] = v,
           UNCHANGED <<payment, status, amount, session, raced>>,
           At(w, "apply")' => /\ job'[w].result = "succeeded" => session = "reversed"
                              /\ ~raced /\ job'[w].result = "failed" => session = "captured"
    PROVE  LeaseInv' /\ GatewayInv' /\ RaceInv'
<1>. USE DEF Jobless
<1>1. \A v \in Workers \ {w}, r \in Refunds : Holds(v, r)' => Holds(v, r)
  BY DEF Holds, Ref
<1>2. LeaseInv'
  BY <1>1 DEF LeaseInv
<1>3. BooksFollowGateway'
  BY DEF GatewayInv, BooksFollowGateway
<1>4. GatewayInv'
  BY <1>3 DEF GatewayInv, At
<1>5. ASSUME ~raced PROVE OneSubmits' /\ SubmitsRow' /\ FailuresMeanIt' /\ Accounted'
  <2>1. OneSubmits /\ SubmitsRow /\ FailuresMeanIt /\ Accounted
    BY <1>5 DEF RaceInv
  <2>2. \A v \in Workers, r \in Refunds : Submits(v, r)' => Submits(v, r)
    BY DEF Submits, Ref
  <2>3. OneSubmits'
    BY <2>1, <2>2 DEF OneSubmits
  <2>4. SubmitsRow'
    <3>1. \A v \in Workers : job'[v].pc \in {"lease", "call"} => job[v].pc \in {"lease", "call"}
      BY DEF Working
    <3>. QED BY <2>1, <2>2, <3>1 DEF SubmitsRow
  <2>5. FailuresMeanIt'
    BY <1>5, <2>1 DEF FailuresMeanIt, Failing, At, Whole, Ref
  <2>6. Accounted'
    BY <2>1 DEF Accounted, Whole
  <2>. QED BY <2>3, <2>4, <2>5, <2>6
<1>. QED BY <1>2, <1>4, <1>5 DEF RaceInv

\* While the accounting holds, no row but that of the reversal is committed.
LEMMA AloneUnderCap ==
    ASSUME RowsTypeOK, RowsInv, NEW r \in Refunds, NEW q \in Refunds,
           amount[r] = Amount, status[r] \in Committed, status[q] \in Committed
    PROVE  r = q
<1>. SUFFICES ASSUME r # q PROVE FALSE
  OBVIOUS
<1>1. amount \in [Refunds -> Nat]
  BY BoundsAssumption DEF RowsTypeOK, Amounts
<1>2. amount[r] + amount[q] <= Amount
  BY CapPair DEF RowsInv, RowsTypeOK
<1>3. amount[q] > 0
  BY DEF RowsInv, Committed
<1>. QED BY <1>1, <1>2, <1>3, BoundsAssumption

\* Steps of the desk, and the lease of a lost job running out.
LEMMA DeskRaces ==
    ASSUME Inv, Typed', NEW r \in Refunds, DeskStep(r) \/ LeaseExpire(r)
    PROVE  LeaseInv' /\ GatewayInv' /\ RaceInv'
<1>. USE DEF Inv, Jobless, Typed
<1>1. ASSUME job' = job, lease' = lease, session' = session, raced' = raced, payment' = payment,
             status[r] \notin Paid, status'[r] \notin Paid,
             \A q \in Refunds \ {r} : status'[q] = status[q] /\ amount'[q] = amount[q]
      PROVE  LeaseInv' /\ GatewayInv' /\ RaceInv'
  <2>1. \A q \in Refunds : Whole(q)' <=> Whole(q)
    BY <1>1 DEF Whole
  <2>2. BooksFollowGateway'
    BY <1>1 DEF GatewayInv, BooksFollowGateway, Paid
  <2>3. Accounted => Accounted'
    BY <1>1, <2>1 DEF Accounted
  <2>4. \A v \in Workers : Failing(v) /\ Whole(Ref(v))' => Whole(Ref(v))
    <3>1. \A v \in Workers : Failing(v) => Ref(v) \in Refunds
      BY DEF Failing, At, JobsTypeOK, JobsInv
    <3>. QED BY <1>1, <2>1, <3>1 DEF Whole, Ref
  <2>5. None \notin Workers
    BY NoneAssumption
  <2>. QED BY <1>1, <2>2, <2>3, <2>4, <2>5, QuietStep
<1>2. ASSUME NEW a, Insert(r, a) PROVE LeaseInv' /\ GatewayInv' /\ RaceInv'
  BY <1>1, <1>2 DEF Insert, RowsTypeOK, Paid, Submitted
<1>3. ASSUME NEW from, NEW to, Decide(r, from, to), from \cap Paid = {}, to \notin Paid,
             job' = job
      PROVE  LeaseInv' /\ GatewayInv' /\ RaceInv'
  BY <1>1, <1>3 DEF Decide, RowsTypeOK
<1>4. CASE ApproveRefund(r)
  BY <1>3, <1>4 DEF ApproveRefund, Paid, Submitted
<1>5. ASSUME NEW to \in {"rejected", "cancelled"}, SetRefundTerminal(r, to)
      PROVE  LeaseInv' /\ GatewayInv' /\ RaceInv'
  BY <1>3, <1>5 DEF SetRefundTerminal, Paid, Submitted
<1>6. CASE LeaseExpire(r)
  <2>1. \A v \in Workers, q \in Refunds : Holds(v, q) /\ lease[q] = v => lease'[q] = v
    BY <1>6 DEF LeaseExpire, JobsTypeOK
  <2>2. BooksFollowGateway' /\ (Accounted => Accounted')
    BY <1>6 DEF LeaseExpire, GatewayInv, BooksFollowGateway, Accounted, Whole
  <2>3. \A v \in Workers : Whole(Ref(v))' => Whole(Ref(v))
    BY <1>6 DEF LeaseExpire, Whole, Ref
  <2>4. None \notin Workers
    BY NoneAssumption
  <2>. QED BY <1>6, <2>1, <2>2, <2>3, <2>4, QuietStep DEF LeaseExpire
<1>. QED BY <1>2, <1>4, <1>5, <1>6 DEF DeskStep, CreateRefund, RequestRefundInTransaction

\* A job that ends, or starts without a submission, and leaves the rows alone.
LEMMA IdleRaces ==
    ASSUME Inv, Typed', NEW w \in Workers, NEW j \in Jobs, job' = [job EXCEPT ![w] = j],
           j.pc \in {"idle", "process"} \/ (j.pc = "lease" /\ j.kind = "reconcile"),
           UNCHANGED <<payment, status, amount, session, raced>>,
           \A v \in Workers \ {w}, r \in Refunds : Holds(v, r) /\ lease[r] = v => lease'[r] = v
    PROVE  LeaseInv' /\ GatewayInv' /\ RaceInv'
<1>. USE DEF Inv, Jobless, Typed
<1>1. job'[w] = j /\ \A v \in Workers \ {w} : job'[v] = job[v]
  BY DEF JobsTypeOK
<1>2. BooksFollowGateway' /\ (Accounted => Accounted')
  BY DEF GatewayInv, BooksFollowGateway, Accounted, Whole
<1>3. \A v \in Workers \ {w} : Whole(Ref(v))' => Whole(Ref(v))
  BY <1>1 DEF Whole, Ref
<1>. QED BY <1>1, <1>2, <1>3, QuietStep

\* A submission: nobody else has the row, and the session is still the customer's.
LEMMA SubmitRaces ==
    ASSUME Inv, Typed', NEW w \in Workers, NEW r \in Refunds, Submit(w, r),
           job[w].pc \in {"idle", "process"}
    PROVE  LeaseInv' /\ GatewayInv' /\ RaceInv'
<1>. USE DEF Inv, Typed
<1>1. /\ job'[w] = Started("lease", r, "process")
      /\ \A v \in Workers \ {w} : job'[v] = job[v]
      /\ lease' = lease /\ session' = session /\ raced' = raced /\ payment' = payment
      /\ amount' = amount
  BY DEF Submit, Decide, JobsTypeOK
<1>2. /\ status[r] = "approved" /\ status'[r] = "processing"
      /\ \A q \in Refunds \ {r} : status'[q] = status[q]
  BY DEF Submit, Decide, RowsTypeOK
<1>3. /\ job'[w].pc = "lease" /\ job'[w].refund = r /\ job'[w].kind = "process"
  BY <1>1 DEF Started
<1>4. LeaseInv'
  BY <1>1, <1>3 DEF LeaseInv, Holds, Ref
<1>5. BooksFollowGateway'
  BY <1>1, <1>2 DEF GatewayInv, BooksFollowGateway
<1>6. GatewayInv'
  BY <1>1, <1>3, <1>5 DEF GatewayInv, At
<1>7. ASSUME ~raced PROVE OneSubmits' /\ SubmitsRow' /\ FailuresMeanIt' /\ Accounted'
  <2>1. OneSubmits /\ SubmitsRow /\ FailuresMeanIt /\ Accounted
    BY <1>7 DEF RaceInv
  <2>2. session = "captured"
    <3>. SUFFICES ASSUME session = "reversed" PROVE FALSE
      BY DEF RowsTypeOK
    <3>1. PICK q \in Refunds : Whole(q)
      BY <2>1 DEF Accounted
    <3>2. status[q] \in Paid /\ amount[q] = Amount
      BY <3>1 DEF Whole
    <3>3. q = r
      BY <1>2, <3>2, AloneUnderCap DEF Paid, Submitted, Committed
    <3>. QED BY <1>2, <3>2, <3>3 DEF Paid, Submitted
  <2>3. \A v \in Workers : ~Submits(v, r)
    BY <1>2, <2>1 DEF SubmitsRow, Paid, Submitted
  <2>4. \A v \in Workers \ {w}, q \in Refunds : Submits(v, q)' => q # r /\ Submits(v, q)
    BY <1>1, <2>3 DEF Submits, Ref
  <2>5. \A q \in Refunds : Submits(w, q)' => q = r
    BY <1>3 DEF Submits, Ref
  <2>6. OneSubmits'
    BY <2>1, <2>4, <2>5 DEF OneSubmits
  <2>7. SubmitsRow'
    BY <1>1, <1>2, <2>1, <2>2, <2>4, <2>5 DEF SubmitsRow, Paid, Submitted
  <2>. QED BY <1>1, <2>2, <2>6, <2>7 DEF FailuresMeanIt, Accounted
<1>. QED BY <1>1, <1>4, <1>6, <1>7 DEF RaceInv

\* The three ways to start a job, and the second half of a retry.
LEMMA StartRaces ==
    ASSUME Inv, Typed', NEW w \in Workers, NEW r \in Refunds, StartStep(w, r) \/ ProcessRetried(w)
    PROVE  LeaseInv' /\ GatewayInv' /\ RaceInv'
<1>1. CASE RetryRefund(w, r)
  <2>1. job'[w] = Started("process", r, "none") /\ \A v \in Workers \ {w} : job'[v] = job[v]
    BY <1>1 DEF RetryRefund, Inv, Typed, JobsTypeOK
  <2>2. job'[w].pc = "process"
    BY <2>1 DEF Started
  <2>3. /\ status[r] = "failed" /\ status'[r] = "approved" /\ amount' = amount /\ payment' = payment
        /\ \A q \in Refunds \ {r} : status'[q] = status[q]
        /\ lease' = lease /\ session' = session /\ raced' = raced
    BY <1>1 DEF RetryRefund, Decide, Inv, Typed, RowsTypeOK
  <2>4. \A q \in Refunds : (status'[q] \in Paid <=> status[q] \in Paid) /\ (Whole(q)' <=> Whole(q))
    BY <2>3 DEF Whole, Paid, Submitted
  <2>5. BooksFollowGateway'
    BY <2>3 DEF Inv, GatewayInv, BooksFollowGateway
  <2>6. Accounted => Accounted'
    BY <2>3, <2>4 DEF Accounted
  <2>7. \A v \in Workers \ {w} : Failing(v) /\ Whole(Ref(v))' => Whole(Ref(v))
    <3>1. \A v \in Workers : Failing(v) => Ref(v) \in Refunds
      BY DEF Failing, At, Inv, Typed, JobsTypeOK, JobsInv
    <3>. QED BY <2>1, <2>3, <2>4, <3>1 DEF Whole, Ref
  <2>8. JobsTypeOK'
    BY DEF Typed
  <2>. QED BY <2>1, <2>2, <2>3, <2>4, <2>5, <2>6, <2>7, <2>8, QuietStep DEF Inv, Jobless
<1>2. CASE ProcessRefund(w, r)
  BY <1>2, SubmitRaces DEF ProcessRefund, At
<1>3. CASE ReconcileRefund(w, r)
  <2>1. /\ Started("lease", r, "reconcile") \in Jobs
        /\ Started("lease", r, "reconcile").pc = "lease"
        /\ Started("lease", r, "reconcile").kind = "reconcile"
    BY DEF Started, Jobs, Results
  <2>. QED BY <1>3, <2>1, IdleRaces DEF ReconcileRefund
<1>4. CASE ProcessRetried(w)
  <2>1. Ref(w) \in Refunds
    BY <1>4 DEF ProcessRetried, At, Inv, Typed, JobsTypeOK, JobsInv
  <2>. QED BY <1>4, <2>1, SubmitRaces DEF ProcessRetried, At
<1>. QED BY <1>1, <1>2, <1>3, <1>4 DEF StartStep

\* An answer of the gateway, or of the database, that leaves the rows and the session.
LEMMA AnswerRaces ==
    ASSUME Inv, Typed', NEW w \in Workers, job[w].pc \in {"call", "apply"},
           NEW result \in {"unknown", "succeeded", "failed"}, Answered(w, result),
           UNCHANGED <<payment, status, amount, lease, session, raced>>,
           result = "succeeded" => session = "reversed",
           ~raced /\ result = "failed" => session = "captured"
    PROVE  LeaseInv' /\ GatewayInv' /\ RaceInv'
<1>. USE DEF Inv, Jobless, Typed
<1>1. \A v \in Workers \ {w} : job'[v] = job[v]
  BY AnsweredIs DEF JobsTypeOK
<1>2. /\ job'[w].pc = IF result = "unknown" THEN "review" ELSE "apply"
      /\ job'[w].refund = job[w].refund /\ job'[w].kind = job[w].kind
      /\ result # "unknown" => job'[w].result = result
  BY AnsweredIs DEF JobsTypeOK
<1>3. /\ job[w].pc \in Working /\ job'[w].pc \in Working \ {"lease"} /\ job'[w].pc # "call"
  BY <1>2 DEF Working
<1>4. \A r \in Refunds : Holds(w, r)' => lease'[r] = w
  BY <1>2 DEF Holds, Ref, LeaseInv
<1>5. At(w, "apply")' => /\ job'[w].result = "succeeded" => session = "reversed"
                         /\ ~raced /\ job'[w].result = "failed" => session = "captured"
  BY <1>2 DEF At
<1>. QED BY <1>1, <1>2, <1>3, <1>4, <1>5, WorkingStep

\* The gateway reverses the session, which it does for a refund of the whole amount only.
LEMMA ReverseRaces ==
    ASSUME Inv, Typed', NEW w \in Workers, Reverse(w)
    PROVE  LeaseInv' /\ GatewayInv' /\ RaceInv'
<1>. USE DEF Inv, Typed
<1>0. PICK result \in {"succeeded", "unknown"} : Answered(w, result)
  BY DEF Reverse
<1>1. \A v \in Workers \ {w} : job'[v] = job[v]
  BY <1>0, AnsweredIs DEF JobsTypeOK
<1>2. /\ job'[w].pc = IF result = "unknown" THEN "review" ELSE "apply"
      /\ job'[w].refund = job[w].refund /\ job'[w].kind = job[w].kind
      /\ result # "unknown" => job'[w].result = result
  BY <1>0, AnsweredIs DEF JobsTypeOK
<1>. DEFINE r == Ref(w)
<1>3. /\ job[w].pc = "call" /\ job[w].kind = "process" /\ r \in Refunds /\ amount[r] = Amount
      /\ session' = "reversed"
      /\ lease' = lease /\ status' = status /\ amount' = amount /\ raced' = raced
  BY DEF Reverse, At, JobsTypeOK, JobsInv
<1>4. LeaseInv'
  <2>1. \A v \in Workers, q \in Refunds : Holds(v, q)' => Holds(v, q)
    BY <1>1, <1>2, <1>3 DEF Holds, Ref
  <2>. QED BY <1>3, <2>1 DEF LeaseInv
<1>5. GatewayInv'
  BY <1>3 DEF GatewayInv, BooksFollowGateway
<1>6. ASSUME ~raced PROVE OneSubmits' /\ SubmitsRow' /\ FailuresMeanIt' /\ Accounted'
  <2>1. OneSubmits /\ SubmitsRow
    BY <1>6 DEF RaceInv
  <2>2. Submits(w, r) /\ Holds(w, r)
    BY <1>3 DEF Submits, Working, Holds
  <2>3. Whole(r)
    BY <1>3, <2>1, <2>2 DEF Whole, SubmitsRow
  <2>4. \A q \in Refunds : status[q] \in Paid => q = r
    BY <1>3, <2>3, AloneUnderCap DEF Whole, Paid, Submitted, Committed
  <2>5. \A v \in Workers, q \in Refunds : Submits(v, q)' => v = w /\ q = r
    <3>1. \A v \in Workers, q \in Refunds : Submits(v, q)' => Submits(v, q)
      BY <1>1, <1>2, <1>3 DEF Submits, Ref, Working
    <3>. QED BY <2>1, <2>2, <2>4, <3>1 DEF OneSubmits, SubmitsRow
  <2>6. job'[w].pc \notin {"lease", "call"}
    BY <1>2
  <2>7. OneSubmits' /\ SubmitsRow'
    <3>1. status'[r] \in Paid
      BY <1>3, <2>3 DEF Whole
    <3>. HIDE DEF r
    <3>. QED BY <2>5, <2>6, <3>1 DEF OneSubmits, SubmitsRow
  <2>8. FailuresMeanIt'
    <3>. SUFFICES ASSUME NEW v \in Workers, Failing(v)', Whole(Ref(v))' PROVE FALSE
      BY DEF FailuresMeanIt
    <3>1. v # w
      BY <1>2 DEF Failing, At
    <3>2. Failing(v) /\ Whole(Ref(v)) /\ Ref(v) \in Refunds
      BY <1>1, <1>3, <3>1 DEF Failing, At, Whole, Ref, JobsTypeOK, JobsInv
    <3>3. Ref(v) = r
      BY <2>4, <3>2 DEF Whole
    <3>4. Holds(v, r)
      BY <3>2, <3>3 DEF Holds, Failing, At
    <3>. QED BY <1>3, <2>2, <3>1, <3>4 DEF LeaseInv
  <2>9. Accounted'
    BY <1>3, <2>3 DEF Accounted, Whole
  <2>. QED BY <2>7, <2>8, <2>9
<1>. QED BY <1>3, <1>4, <1>5, <1>6 DEF RaceInv

\* The end of a request changes its own job and gives up its own lease.
LEMMA FinishIs ==
    ASSUME JobsTypeOK, NEW w \in Workers, Finish(w)
    PROVE  /\ job'[w].pc = "idle" /\ \A v \in Workers \ {w} : job'[v] = job[v]
           /\ \A v \in Workers \ {w}, r \in Refunds : lease[r] = v => lease'[r] = v
BY DEF Finish, JobsTypeOK, Idle, Started

\* A failure is recorded, or a review scheduled, or a success recorded: no row that
\* another job works on changes.
LEMMA FailRaces ==
    ASSUME Inv, Typed', NEW w \in Workers, ApplyFailed(w)
    PROVE  LeaseInv' /\ GatewayInv' /\ RaceInv'
<1>. USE DEF Inv, Typed
<1>. DEFINE r == Ref(w)
<1>1. /\ job'[w].pc = "idle" /\ \A v \in Workers \ {w} : job'[v] = job[v]
      /\ \A v \in Workers \ {w}, q \in Refunds : lease[q] = v => lease'[q] = v
  BY FinishIs DEF ApplyFailed
<1>2. /\ job[w].pc = "apply" /\ job[w].result = "failed" /\ r \in Refunds /\ Holds(w, r)
      /\ session' = session /\ amount' = amount /\ payment' = payment
      /\ raced' = (raced \/ SubmissionPending(w, r))
  BY DEF ApplyFailed, At, Holds, JobsTypeOK, JobsInv
<1>3. status'[r] = "failed" /\ \A q \in Refunds \ {r} : status'[q] = status[q]
  BY <1>2 DEF ApplyFailed, RowsTypeOK
<1>. HIDE DEF r
<1>4. BooksFollowGateway'
  BY <1>2, <1>3 DEF GatewayInv, BooksFollowGateway
<1>5. \A v \in Workers \ {w}, q \in Refunds : ~raced' /\ Submits(v, q) => status'[q] = status[q]
  <2>. SUFFICES ASSUME NEW v \in Workers \ {w}, ~raced', Submits(v, r) PROVE FALSE
    BY <1>3
  <2>1. v \in Workers /\ lease[r] = w
    BY <1>2 DEF LeaseInv
  <2>2. ~Holds(v, r)
    BY <1>2, <2>1 DEF LeaseInv
  <2>3. ~SubmissionPending(w, r)
    BY <1>2
  <2>4. Ref(v) = r /\ job[v].kind = "process" /\ job[v].pc = "lease"
    BY <2>2 DEF Submits, Working, Holds
  <2>. QED BY <2>3, <2>4 DEF SubmissionPending, At
<1>6. \A q \in Refunds : Whole(q)' => Whole(q)
  BY <1>2, <1>3 DEF Whole, Paid, Submitted
<1>7. \A v \in Workers \ {w} : Failing(v) /\ Whole(Ref(v))' => Whole(Ref(v))
  <2>1. \A v \in Workers : Failing(v) => Ref(v) \in Refunds
    BY DEF Failing, At, JobsTypeOK, JobsInv
  <2>. QED BY <1>1, <1>2, <1>3, <2>1 DEF Whole, Ref, Paid, Submitted
<1>8. ~raced' /\ Accounted => Accounted'
  <2>. SUFFICES ASSUME ~raced', Accounted, session = "reversed" PROVE \E q \in Refunds : Whole(q)'
    BY <1>2 DEF Accounted
  <2>1. PICK q \in Refunds : Whole(q)
    BY DEF Accounted
  <2>2. ~raced /\ Failing(w)
    BY <1>2 DEF Failing, At
  <2>3. ~Whole(r)
    BY <2>2 DEF RaceInv, FailuresMeanIt, r
  <2>4. Whole(q)'
    BY <1>2, <1>3, <2>1, <2>3 DEF Whole
  <2>. QED BY <2>4
<1>9. raced => raced'
  BY <1>2
<1>10. \A v \in Workers \ {w}, q \in Refunds :
          ~raced' /\ Submits(v, q) /\ status[q] \in Paid => status'[q] \in Paid
  BY <1>5
<1>11. Jobless /\ JobsTypeOK' /\ session' = session /\ job'[w].pc = "idle"
  BY <1>1, <1>2 DEF Jobless
<1>. HIDE DEF Inv, Typed
<1>. QED BY <1>1, <1>4, <1>7, <1>8, <1>9, <1>10, <1>11, QuietStep

\* A success is applied by the attempt that holds the answer, and ends its job.
LEMMA SucceedRaces ==
    ASSUME Inv, Typed', NEW w \in Workers, ApplySucceeded(w)
    PROVE  LeaseInv' /\ GatewayInv' /\ RaceInv'
<1>. USE DEF Inv, Typed
<1>. DEFINE r == Ref(w)
<1>1. /\ job'[w].pc = "idle" /\ \A v \in Workers \ {w} : job'[v] = job[v]
      /\ \A v \in Workers \ {w}, q \in Refunds : lease[q] = v => lease'[q] = v
  BY FinishIs DEF ApplySucceeded
<1>2. /\ r \in Refunds /\ Holds(w, r) /\ session = "reversed"
      /\ session' = session /\ amount' = amount /\ raced' = raced
  BY DEF ApplySucceeded, At, Holds, JobsTypeOK, JobsInv, GatewayInv
<1>3. status'[r] = "succeeded" /\ \A q \in Refunds \ {r} : status'[q] = status[q]
  BY <1>2 DEF ApplySucceeded, RowsTypeOK
<1>. HIDE DEF r
<1>4. BooksFollowGateway'
  BY <1>2 DEF BooksFollowGateway
<1>5. \A q \in Refunds : status[q] \in Paid => status'[q] \in Paid
  BY <1>3 DEF Paid
<1>6. \A v \in Workers \ {w} : Failing(v) /\ Whole(Ref(v))' => Whole(Ref(v))
  <2>. SUFFICES ASSUME NEW v \in Workers \ {w}, Failing(v) PROVE Whole(Ref(v))' => Whole(Ref(v))
    OBVIOUS
  <2>1. Ref(v) \in Refunds /\ Holds(v, Ref(v)) /\ Ref(v)' = Ref(v)
    BY <1>1 DEF Failing, At, Holds, Ref, JobsTypeOK, JobsInv
  <2>2. Ref(v) # r
    BY <1>2, <2>1 DEF LeaseInv
  <2>. QED BY <1>2, <1>3, <2>1, <2>2 DEF Whole
<1>7. Accounted => Accounted'
  BY <1>2, <1>5 DEF Accounted, Whole
<1>. QED BY <1>1, <1>2, <1>4, <1>5, <1>6, <1>7, QuietStep DEF Jobless

\* A job that schedules a review ends with it.
LEMMA ReviewRaces ==
    ASSUME Inv, Typed', NEW w \in Workers, ScheduleRefundReview(w)
    PROVE  LeaseInv' /\ GatewayInv' /\ RaceInv'
<1>. USE DEF Inv, Typed
<1>. DEFINE r == Ref(w)
<1>1. /\ job'[w].pc = "idle" /\ \A v \in Workers \ {w} : job'[v] = job[v]
      /\ \A v \in Workers \ {w}, q \in Refunds : lease[q] = v => lease'[q] = v
  BY FinishIs DEF ScheduleRefundReview, Review
<1>2. /\ r \in Refunds /\ payment' = payment
      /\ session' = session /\ amount' = amount /\ raced' = raced
  BY DEF ScheduleRefundReview, Review, At, JobsTypeOK, JobsInv
<1>3. /\ status'[r] = IF status[r] = "processing" THEN "unknown" ELSE status[r]
      /\ \A q \in Refunds \ {r} : status'[q] = status[q]
  BY <1>2 DEF ScheduleRefundReview, Review, RowsTypeOK
<1>. HIDE DEF r
<1>4. BooksFollowGateway'
  BY <1>2, <1>3 DEF GatewayInv, BooksFollowGateway
<1>5. \A q \in Refunds : (status[q] \in Paid <=> status'[q] \in Paid) /\ (Whole(q)' <=> Whole(q))
  BY <1>2, <1>3 DEF Whole, Paid, Submitted
<1>6. \A v \in Workers \ {w} : Failing(v) /\ Whole(Ref(v))' => Whole(Ref(v))
  <2>. SUFFICES ASSUME NEW v \in Workers \ {w}, Failing(v) PROVE Whole(Ref(v))' => Whole(Ref(v))
    OBVIOUS
  <2>1. Ref(v) \in Refunds /\ Ref(v)' = Ref(v)
    BY <1>1 DEF Failing, At, Ref, JobsTypeOK, JobsInv
  <2>. QED BY <1>2, <1>5, <2>1 DEF Whole
<1>7. Accounted => Accounted'
  BY <1>2, <1>5 DEF Accounted
<1>. QED BY <1>1, <1>2, <1>4, <1>5, <1>6, <1>7, QuietStep DEF Jobless

\* Every other step of a job.
LEMMA JobRaces ==
    ASSUME Inv, Typed', NEW w \in Workers, JobStep(w) \/ Crash(w)
    PROVE  LeaseInv' /\ GatewayInv' /\ RaceInv'
<1>0. Idle \in Jobs /\ Idle.pc = "idle"
  BY DEF Idle, Started, Jobs, Results
<1>1. CASE ProcessRetried(w)
  <2>1. Ref(w) \in Refunds
    BY <1>1 DEF ProcessRetried, At, Inv, Typed, JobsTypeOK, JobsInv
  <2>. QED BY <1>1, <2>1, StartRaces
<1>2. CASE RetryRefused(w) \/ LeaseRefused(w) \/ Crash(w)
  <2>1. /\ job' = [job EXCEPT ![w] = Idle] /\ lease' = lease
        /\ UNCHANGED <<payment, status, amount, session, raced>>
    BY <1>2 DEF RetryRefused, LeaseRefused, Crash
  <2>2. \A v \in Workers \ {w}, r \in Refunds : Holds(v, r) /\ lease[r] = v => lease'[r] = v
    BY <2>1
  <2>. QED BY <1>0, <2>1, <2>2, IdleRaces
<1>3. CASE TakeLease(w)
  <2>. USE DEF Inv, Typed
  <2>1. /\ \A v \in Workers \ {w} : job'[v] = job[v]
        /\ job[w].pc = "lease" /\ job'[w].pc = "call"
        /\ job'[w].refund = job[w].refund /\ job'[w].kind = job[w].kind
    BY <1>3 DEF TakeLease, At, JobsTypeOK, Jobs
  <2>2. /\ Ref(w) \in Refunds /\ lease[Ref(w)] = None /\ lease' = [lease EXCEPT ![Ref(w)] = w]
        /\ UNCHANGED <<payment, status, amount, session, raced>>
    BY <1>3 DEF TakeLease, At, JobsTypeOK, JobsInv
  <2>3. \A r \in Refunds : Holds(w, r)' => lease'[r] = w
    BY <2>1, <2>2 DEF Holds, Ref, JobsTypeOK
  <2>4. \A v \in Workers \ {w}, r \in Refunds : lease[r] = v => lease'[r] = v
    BY <2>2, NoneAssumption DEF JobsTypeOK
  <2>. QED BY <2>1, <2>2, <2>3, <2>4, WorkingStep DEF Working, Jobless, At
<1>4. CASE Refuse(w)
  <2>1. ~raced => session = "captured"
    <3>1. Ref(w) \in Refunds /\ Submits(w, Ref(w)) /\ job[w].pc = "call"
      BY <1>4 DEF Refuse, At, Inv, Typed, JobsTypeOK, JobsInv, Submits, Working
    <3>. QED BY <3>1 DEF Inv, RaceInv, SubmitsRow
  <2>. QED BY <1>4, <2>1, AnswerRaces DEF Refuse, At
<1>5. CASE LoseRequest(w) \/ ApplyAborted(w)
  BY <1>5, AnswerRaces DEF LoseRequest, ApplyAborted, At
<1>6. CASE Inquire(w)
  <2>1. session \in {"captured", "reversed"}
    BY DEF Inv, Typed, RowsTypeOK
  <2>. QED BY <1>6, <2>1, AnswerRaces DEF Inquire, At
<1>. QED BY <1>1, <1>2, <1>3, <1>4, <1>5, <1>6, ReverseRaces, FailRaces, SucceedRaces, ReviewRaces
         DEF JobStep

-----------------------------------------------------------------------------
(* The rows and the cap. *)

\* A step that creates no row: jobs keep to rows that exist, and the cap holds again.
LEMMA RowsStep ==
    ASSUME Inv, Typed', Fits(status, amount)', amount' = amount,
           \A r \in Refunds : (status[r] = "none" <=> status'[r] = "none"),
           \A w \in Workers : job'[w].pc # "idle" =>
              \/ job[w].pc # "idle" /\ job'[w].refund = job[w].refund
              \/ status[job'[w].refund] # "none" /\ job'[w].refund \in Refunds
    PROVE  RowsInv'
<1>1. \A r \in Refunds : status'[r] # "none" => amount'[r] > 0
  BY DEF Inv, RowsInv
<1>2. \A w \in Workers : job'[w].pc # "idle" => status'[job'[w].refund] # "none"
  <2>1. \A w \in Workers : job[w].pc # "idle" =>
           status[job[w].refund] # "none" /\ job[w].refund \in Refunds
    BY DEF Inv, RowsInv, Typed, JobsTypeOK, JobsInv, Ref
  <2>. QED BY <2>1
<1>. QED BY <1>1, <1>2 DEF RowsInv, Ref

\* A decision on a row that is committed leaves the cap as it was.
LEMMA DecideRows ==
    ASSUME Inv, Typed', NEW r \in Refunds, NEW from, NEW to, Decide(r, from, to),
           from \subseteq Committed, to # "none",
           \A w \in Workers : job'[w].pc # "idle" =>
              \/ job[w].pc # "idle" /\ job'[w].refund = job[w].refund
              \/ job'[w].refund = r
    PROVE  RowsInv'
<1>. USE DEF Inv, Typed
<1>1. /\ status[r] \in Committed /\ status' = [status EXCEPT ![r] = to] /\ amount' = amount
      /\ status[r] # "none"
  BY DEF Decide, Committed
<1>2. amount \in [Refunds -> Amounts \cup {0}]
  BY DEF RowsTypeOK
<1>3. Fits(status, amount)'
  <2>1. Fits([status EXCEPT ![r] = to], amount)
    BY <1>1, <1>2, CapKept DEF RowsInv, RowsTypeOK
  <2>. QED BY <1>1, <2>1
<1>4. \A q \in Refunds : (status[q] = "none" <=> status'[q] = "none")
  BY <1>1 DEF RowsTypeOK
<1>. QED BY <1>1, <1>3, <1>4, RowsStep

\* What staff and the lapse of leases do to the rows fits the rows' invariant.
LEMMA DeskRows ==
    ASSUME Inv, Typed', NEW r \in Refunds, DeskStep(r) \/ LeaseExpire(r)
    PROVE  RowsInv'
<1>1. ASSUME NEW a \in Amounts, Insert(r, a) PROVE RowsInv'
  <2>1. /\ Fits(status, amount)' /\ job' = job
        /\ status' = [status EXCEPT ![r] = "requested"] /\ amount' = [amount EXCEPT ![r] = a]
        /\ a > 0
    BY <1>1, BoundsAssumption DEF Insert, Amounts
  <2>2. \A q \in Refunds : status'[q] # "none" => amount'[q] > 0
    BY <2>1 DEF Inv, RowsInv, Typed, RowsTypeOK
  <2>3. \A w \in Workers : job[w].pc # "idle" => status'[Ref(w)] # "none" /\ Ref(w)' = Ref(w)
    BY <2>1 DEF Inv, RowsInv, Typed, RowsTypeOK, JobsTypeOK, JobsInv, Ref
  <2>. QED BY <2>1, <2>2, <2>3 DEF RowsInv
<1>2. CASE ApproveRefund(r)
  BY <1>2, DecideRows DEF ApproveRefund, Committed
<1>3. ASSUME NEW to \in {"rejected", "cancelled"}, SetRefundTerminal(r, to) PROVE RowsInv'
  BY <1>3, DecideRows DEF SetRefundTerminal, Committed
<1>4. CASE LeaseExpire(r)
  BY <1>4 DEF LeaseExpire, Inv, RowsInv, Ref
<1>. QED BY <1>1, <1>2, <1>3, <1>4 DEF DeskStep, CreateRefund, RequestRefundInTransaction

\* A job that starts finds a row it may work on.
LEMMA StartRows ==
    ASSUME Inv, Typed', NEW w \in Workers, NEW r \in Refunds, StartStep(w, r) \/ ProcessRetried(w)
    PROVE  RowsInv'
<1>1. ASSUME NEW q, NEW pc, NEW kind, job' = [job EXCEPT ![w] = Started(pc, q, kind)]
      PROVE  /\ job'[w].refund = q
             /\ \A v \in Workers \ {w} : job'[v] = job[v]
  BY <1>1 DEF Inv, Typed, JobsTypeOK, Started
<1>2. CASE RetryRefund(w, r)
  BY <1>1, <1>2, DecideRows DEF RetryRefund, Committed
<1>3. ASSUME NEW q \in Refunds, Submit(w, q) PROVE RowsInv'
  BY <1>1, <1>3, DecideRows DEF Submit, Committed
<1>4. CASE ReconcileRefund(w, r)
  <2>1. /\ status[r] # "none" /\ status' = status /\ amount' = amount
        /\ \A v \in Workers \ {w} : job'[v] = job[v]
        /\ job'[w].refund = r
    BY <1>1, <1>4 DEF ReconcileRefund, Submitted
  <2>2. Fits(status, amount)'
    BY <2>1 DEF Inv, RowsInv
  <2>. QED BY <2>1, <2>2, RowsStep
<1>5. CASE ProcessRetried(w)
  BY <1>3, <1>5 DEF ProcessRetried, At, Inv, Typed, JobsTypeOK, JobsInv
<1>. QED BY <1>2, <1>3, <1>4, <1>5 DEF StartStep, ProcessRefund

\* What a job does to the rows fits the rows' invariant.
LEMMA JobRows ==
    ASSUME Inv, Typed', NEW w \in Workers, JobStep(w) \/ Crash(w)
    PROVE  RowsInv'
<1>. USE DEF Inv, Typed
<1>1. CASE ProcessRetried(w)
  <2>1. Ref(w) \in Refunds
    BY <1>1 DEF ProcessRetried, At, JobsTypeOK, JobsInv
  <2>. QED BY <1>1, <2>1, StartRows
<1>2. ASSUME status' = status, amount' = amount,
             \A v \in Workers : job'[v].pc # "idle" =>
                job[v].pc # "idle" /\ job'[v].refund = job[v].refund
      PROVE  RowsInv'
  <2>1. Fits(status, amount)'
    BY <1>2 DEF RowsInv
  <2>. QED BY <1>2, <2>1, RowsStep
<1>3. CASE RetryRefused(w) \/ LeaseRefused(w) \/ Crash(w)
  <2>1. job' = [job EXCEPT ![w] = Idle] /\ status' = status /\ amount' = amount
    BY <1>3 DEF RetryRefused, LeaseRefused, Crash
  <2>. QED BY <1>2, <2>1 DEF JobsTypeOK, Idle, Started
<1>4. CASE TakeLease(w)
  BY <1>2, <1>4 DEF TakeLease, At, JobsTypeOK, Jobs
<1>5. ASSUME NEW result \in {"unknown", "succeeded", "failed"}, Answered(w, result),
             job[w].pc # "idle", status' = status, amount' = amount
      PROVE  RowsInv'
  <2>1. job'[w].refund = job[w].refund /\ \A v \in Workers \ {w} : job'[v] = job[v]
    BY <1>5, AnsweredIs DEF JobsTypeOK
  <2>. QED BY <1>2, <1>5, <2>1
<1>6. CASE Refuse(w) \/ LoseRequest(w) \/ Reverse(w) \/ Inquire(w) \/ ApplyAborted(w)
  <2>1. job[w].pc # "idle" /\ status' = status /\ amount' = amount
    BY <1>6 DEF Refuse, LoseRequest, Reverse, Inquire, ApplyAborted, At
  <2>2. \E result \in {"unknown", "succeeded", "failed"} : Answered(w, result)
    BY <1>6 DEF Refuse, LoseRequest, Reverse, Inquire, ApplyAborted
  <2>. QED BY <1>5, <2>1, <2>2
<1>7. ASSUME Finish(w), Ref(w) \in Refunds, job[w].pc # "idle", amount' = amount,
             NEW to, to # "none",
             status' = [status EXCEPT ![Ref(w)] = to], Fits(status, amount)'
      PROVE  RowsInv'
  <2>1. job'[w].pc = "idle" /\ \A v \in Workers \ {w} : job'[v] = job[v]
    BY <1>7, FinishIs
  <2>2. status[Ref(w)] # "none"
    BY <1>7 DEF RowsInv
  <2>3. \A q \in Refunds : (status[q] = "none" <=> status'[q] = "none")
    BY <1>7, <2>2 DEF RowsTypeOK
  <2>. QED BY <1>7, <2>1, <2>3, RowsStep
<1>8. job[w].pc # "idle" => Ref(w) \in Refunds
  BY DEF JobsTypeOK, JobsInv
<1>9. CASE ApplyFailed(w) \/ ApplySucceeded(w)
  <2>1. /\ Finish(w) /\ job[w].pc # "idle" /\ amount' = amount
        /\ \E to \in {"failed", "succeeded"} : status' = [status EXCEPT ![Ref(w)] = to]
    BY <1>9 DEF ApplyFailed, ApplySucceeded, At
  <2>2. Fits(status, amount)'
    BY <1>9, <2>1 DEF ApplyFailed, ApplySucceeded
  <2>. QED BY <1>7, <1>8, <2>1, <2>2
<1>10. CASE ScheduleRefundReview(w)
  <2>. DEFINE r == Ref(w)
              to == IF status[r] = "processing" THEN "unknown" ELSE status[r]
  <2>1. /\ Finish(w) /\ job[w].pc # "idle" /\ amount' = amount
        /\ status' = [status EXCEPT ![r] = to] /\ r \in Refunds
    BY <1>8, <1>10 DEF ScheduleRefundReview, Review, At
  <2>2. status[r] # "none"
    BY <2>1 DEF RowsInv
  <2>3. Fits(status, amount)'
    <3>1. CASE status[r] = "processing"
      <4>1. amount \in [Refunds -> Nat]
        BY BoundsAssumption DEF RowsTypeOK, Amounts
      <4>2. Fits([status EXCEPT ![r] = to], amount)
        BY <2>1, <3>1, <4>1, CapKept DEF RowsInv, RowsTypeOK, Committed
      <4>. QED BY <2>1, <4>2
    <3>2. CASE status[r] # "processing"
      <4>1. status' = status
        BY <2>1, <3>2 DEF RowsTypeOK
      <4>. QED BY <2>1, <4>1 DEF RowsInv
    <3>. QED BY <3>1, <3>2
  <2>4. to # "none"
    BY <2>2
  <2>. HIDE DEF to
  <2>. QED BY <1>7, <2>1, <2>3, <2>4
<1>. QED BY <1>1, <1>3, <1>4, <1>6, <1>9, <1>10 DEF JobStep
-----------------------------------------------------------------------------
(* The theorems. *)

\* The invariant holds at first.
LEMMA InitInv == Init => Inv
<1>. SUFFICES ASSUME Init PROVE Inv
  OBVIOUS
<1>1. Typed
  BY InitTypes
<1>2. /\ \A w \in Workers : job[w].pc = "idle"
      /\ session = "captured" /\ payment # "refunded"
      /\ \A r \in Refunds : status[r] # "succeeded"
  BY DEF Init, Idle, Started
<1>3. RowsInv
  <2>. DEFINE auto == CHOOSE r \in Refunds : TRUE
  <2>1. \A r \in Refunds : status[r] # "none" => amount[r] = Amount /\ r = auto
    BY DEF Init
  <2>2. CommittedUnits(status, amount) \in SUBSET ({auto} \X Amounts)
    BY <2>1 DEF CommittedUnits, Units, Committed
  <2>. HIDE DEF auto
  <2>3. IsFiniteSet({auto} \X Amounts) /\ Cardinality({auto} \X Amounts) = 1 * Amount
    <3>1. IsFiniteSet({auto}) /\ Cardinality({auto}) = 1
      BY FS_Singleton
    <3>. QED BY <3>1, AmountsCounted, FS_Product
  <2>4. Fits(status, amount)
    <3>1. Cardinality(CommittedUnits(status, amount)) <= 1 * Amount
      BY <2>2, <2>3, FS_Subset
    <3>. QED BY <3>1, BoundsAssumption DEF Fits, Total, CommittedUnits
  <2>5. \A r \in Refunds : status[r] # "none" => amount[r] > 0
    BY <2>1, BoundsAssumption
  <2>. QED BY <1>2, <2>4, <2>5 DEF RowsInv
<1>4. LeaseInv /\ GatewayInv
  BY <1>2 DEF LeaseInv, Holds, GatewayInv, BooksFollowGateway, At
<1>5. RaceInv
  BY <1>2 DEF RaceInv, OneSubmits, SubmitsRow, FailuresMeanIt, Accounted, Submits, Failing, At, Working
<1>. QED BY <1>1, <1>3, <1>4, <1>5 DEF Inv

\* No step breaks the invariant.
LEMMA NextInv == Inv /\ [Next]_vars => Inv'
<1>. SUFFICES ASSUME Inv, [Next]_vars PROVE Inv'
  OBVIOUS
<1>1. Typed'
  BY NextTypes DEF Inv
<1>2. CASE UNCHANGED vars
  <2>1. RowsInv'
    BY <1>2 DEF vars, Inv, RowsInv, Ref
  <2>2. LeaseInv' /\ GatewayInv'
    BY <1>2 DEF vars, Inv, LeaseInv, GatewayInv, BooksFollowGateway, Holds, Ref, At
  <2>3. RaceInv'
    BY <1>2 DEF vars, Inv, RaceInv, OneSubmits, SubmitsRow, FailuresMeanIt, Accounted,
                Submits, Failing, At, Ref, Whole
  <2>. QED BY <1>1, <2>1, <2>2, <2>3 DEF Inv
<1>3. ASSUME NEW r \in Refunds, DeskStep(r) \/ LeaseExpire(r) PROVE Inv'
  BY <1>1, <1>3, DeskRaces, DeskRows DEF Inv
<1>4. ASSUME NEW w \in Workers, NEW r \in Refunds, StartStep(w, r) PROVE Inv'
  BY <1>1, <1>4, StartRaces, StartRows DEF Inv
<1>5. ASSUME NEW w \in Workers, JobStep(w) \/ Crash(w) PROVE Inv'
  BY <1>1, <1>5, JobRaces, JobRows DEF Inv
<1>. QED BY <1>2, <1>3, <1>4, <1>5 DEF Next

\* The strengthened invariant holds in every state of every behaviour: types, rows, leases, the
\* gateway's answers and the attempts that race for a refund.
THEOREM Invariant == Spec => []Inv
BY InitInv, NextInv, PTL DEF Spec

(* Whatever is asked for, retried, failed and submitted, the refunds that were neither *)
(* refused nor cancelled fit the payment together.                                     *)
THEOREM Cap == Spec => []RefundsWithinPayment
<1>1. Inv => RefundsWithinPayment
  <2>1. Statuses \ {"none", "rejected", "cancelled"} = Committed
    BY DEF Statuses, Submitted, Committed
  <2>. QED BY <2>1 DEF Inv, RowsInv, RefundsWithinPayment, Fits
<1>. QED BY <1>1, Invariant, PTL

(* No refund and no payment is booked as given back before the gateway gave it back. *)
THEOREM Books == Spec => []BooksFollowGateway
<1>1. Inv => BooksFollowGateway
  BY DEF Inv, GatewayInv
<1>. QED BY <1>1, Invariant, PTL

(* Money that went back is accounted for by a refund of the whole amount that cannot be *)
(* cancelled, unless a failure was applied under a pending submission.                  *)
THEOREM Reversal == Spec => []ReversalIsAccounted
<1>1. Inv => ReversalIsAccounted
  BY DEF Inv, RaceInv, Accounted, Whole, Paid, ReversalIsAccounted
<1>. QED BY <1>1, Invariant, PTL

\* What a step may do to a completed refund: it is the one that accounts for the reversal,
\* so nobody fails it, and no other transaction takes a completed refund.
LEMMA SucceededStays ==
    ASSUME Inv, Next, NEW r \in Refunds, status[r] = "succeeded", ~raced
    PROVE  status'[r] = "succeeded"
<1>. USE DEF Inv, Typed
<1>1. session = "reversed"
  BY DEF GatewayInv, BooksFollowGateway
<1>2. Whole(r)
  <2>1. PICK q \in Refunds : Whole(q)
    BY <1>1 DEF RaceInv, Accounted
  <2>2. q = r
    BY <2>1, AloneUnderCap DEF Whole, Paid, Submitted, Committed
  <2>. QED BY <2>1, <2>2
<1>3. ASSUME NEW q \in Refunds, NEW from, NEW to, Decide(q, from, to), "succeeded" \notin from
      PROVE  status'[r] = "succeeded"
  BY <1>3 DEF Decide, RowsTypeOK
<1>4. ASSUME NEW q \in Refunds, DeskStep(q) \/ LeaseExpire(q) PROVE status'[r] = "succeeded"
  <2>1. ASSUME NEW a, Insert(q, a) PROVE status'[r] = "succeeded"
    BY <2>1 DEF Insert, RowsTypeOK
  <2>2. CASE ApproveRefund(q)
    BY <1>3, <2>2 DEF ApproveRefund
  <2>3. ASSUME NEW to, SetRefundTerminal(q, to) PROVE status'[r] = "succeeded"
    BY <1>3, <2>3 DEF SetRefundTerminal
  <2>4. CASE LeaseExpire(q)
    BY <2>4 DEF LeaseExpire
  <2>. QED BY <1>4, <2>1, <2>2, <2>3, <2>4 DEF DeskStep, CreateRefund, RequestRefundInTransaction
<1>5. ASSUME NEW w \in Workers, NEW q \in Refunds, StartStep(w, q) PROVE status'[r] = "succeeded"
  BY <1>3, <1>5 DEF StartStep, RetryRefund, ProcessRefund, Submit, ReconcileRefund
<1>6. ASSUME NEW w \in Workers, JobStep(w) \/ Crash(w) PROVE status'[r] = "succeeded"
  <2>0. job[w].pc # "idle" => Ref(w) \in Refunds
    BY DEF JobsTypeOK, JobsInv
  <2>1. CASE ProcessRetried(w)
    BY <1>3, <2>0, <2>1 DEF ProcessRetried, Submit, At
  <2>2. CASE ApplyFailed(w)
    <3>1. Failing(w) /\ Ref(w) \in Refunds /\ status' = [status EXCEPT ![Ref(w)] = "failed"]
      BY <2>0, <2>2 DEF ApplyFailed, Failing, At
    <3>2. Ref(w) # r
      BY <1>1, <1>2, <3>1 DEF RaceInv, FailuresMeanIt
    <3>. QED BY <3>1, <3>2 DEF RowsTypeOK
  <2>3. CASE ApplySucceeded(w) \/ ScheduleRefundReview(w)
    BY <2>0, <2>3 DEF ApplySucceeded, ScheduleRefundReview, Review, At, RowsTypeOK
  <2>4. CASE \/ RetryRefused(w) \/ TakeLease(w) \/ LeaseRefused(w) \/ Refuse(w) \/ LoseRequest(w)
             \/ Reverse(w) \/ Inquire(w) \/ ApplyAborted(w) \/ Crash(w)
    BY <2>4 DEF RetryRefused, TakeLease, LeaseRefused, Refuse, LoseRequest, Reverse, Inquire,
                ApplyAborted, Crash
  <2>. QED BY <1>6, <2>1, <2>2, <2>3, <2>4 DEF JobStep
<1>. QED BY <1>4, <1>5, <1>6 DEF Next

(* A completed refund stays completed, under the same exception. *)
THEOREM Final == Spec => SucceededIsFinal
<1>1. Inv /\ [Next]_vars =>
        [\A r \in Refunds : status[r] = "succeeded" /\ ~raced => status'[r] = "succeeded"]_vars
  <2>. SUFFICES ASSUME Inv, Next, NEW r \in Refunds, status[r] = "succeeded", ~raced
                PROVE  status'[r] = "succeeded"
    OBVIOUS
  <2>. QED BY SucceededStays
<1>. QED BY <1>1, Invariant, PTL DEF Spec, SucceededIsFinal
-----------------------------------------------------------------------------
(* Who comes back to a submission. *)

WorksOn(j, r) == j.refund = r /\ j.pc \in Working
HoldsIn(j, r) == j.refund = r /\ j.pc \in {"call", "apply", "review"}
Watch(r) == recon[r] \/ manual[r] \/ \E w \in Workers : WorksOn(job[w], r)

\* While no process was lost, a lease is held by the job that took it, which works on.
LeaseHeld == crashes = 0 => \A r \in Refunds : lease[r] # None => HoldsIn(job[lease[r]], r)
WatchNext(r) == recon'[r] \/ manual'[r] \/ \E w \in Workers : WorksOn(job'[w], r)
Watched == crashes = 0 => \A r \in Refunds : status[r] \in Submitted => Watch(r)

\* Only job w moves, and the rows outside S stay and keep it; those of S are watched.
OnlyRow(r) == \A q \in Refunds \ {r} : /\ status'[q] = status[q] /\ recon'[q] = recon[q]
                                       /\ manual'[q] = manual[q]
OthersStay(w) == \A v \in Workers \ {w} : job'[v] = job[v]
RowsMove(w, S) ==
    /\ \A q \in Refunds \ S : /\ status'[q] = status[q] /\ recon'[q] = recon[q]
                              /\ manual'[q] = manual[q]
                              /\ WorksOn(job[w], q) => WorksOn(job'[w], q)
    /\ \A q \in Refunds \cap S : status'[q] \in Submitted => WatchNext(q)
\* Job w goes on to hold its lease, takes one, or gives it back.
LeasesMove(w) ==
    /\ lease' \in [Refunds -> Workers \cup {None}]
    /\ \A q \in Refunds : lease'[q] # None =>
          \/ lease'[q] = lease[q] /\ ~HoldsIn(job[w], q)
          \/ lease'[q] \in {w, lease[q]} /\ HoldsIn(job'[w], q)

\* Such a step leaves nobody unwatched.
LEMMA WatchStep ==
    ASSUME Watched, crashes = 0, NEW w \in Workers, NEW S, OthersStay(w), RowsMove(w, S)
    PROVE  Watched'
<1>. USE DEF OthersStay, RowsMove
<1>. SUFFICES ASSUME NEW q \in Refunds, q \notin S, status'[q] \in Submitted PROVE WatchNext(q)
  BY DEF Watched, WatchNext, Watch
<1>1. Watch(q)
  BY DEF Watched
<1>2. \A v \in Workers : WorksOn(job[v], q) => WorksOn(job'[v], q)
  <2>. SUFFICES ASSUME NEW v \in Workers \ {w}, WorksOn(job[v], q) PROVE WorksOn(job'[v], q)
    OBVIOUS
  <2>. QED OBVIOUS
<1>. QED BY <1>1, <1>2 DEF Watch, WatchNext

\* Nor does it leave a lease to a job that is over.
LEMMA HeldStep ==
    ASSUME LeaseHeld, crashes = 0, NEW w \in Workers, OthersStay(w), LeasesMove(w)
    PROVE  LeaseHeld'
<1>. USE DEF OthersStay, LeasesMove
<1>. DEFINE Now(h, q) == HoldsIn(job'[h], q)
<1>1. ASSUME NEW q \in Refunds, NEW h \in Workers, lease'[q] = h
      PROVE  Now(h, q)
  <2>1. CASE h = w
    <3>1. HoldsIn(job'[w], q)
      <4>1. lease[q] = w => HoldsIn(job[w], q)
        BY NoneAssumption DEF LeaseHeld
      <4>2. lease'[q] # None
        BY <1>1, NoneAssumption
      <4>. QED BY <1>1, <2>1, <4>1, <4>2
    <3>. QED BY <2>1, <3>1 DEF HoldsIn
  <2>2. CASE h # w
    <3>1. lease[q] = h /\ lease[q] # None
      BY <1>1, <2>2, NoneAssumption
    <3>2. HoldsIn(job[h], q)
      BY <3>1 DEF LeaseHeld
    <3>3. job'[h] = job[h]
      BY <2>2
    <3>. QED BY <3>2, <3>3 DEF HoldsIn
  <2>. QED BY <2>1, <2>2
<1>. QED BY <1>1 DEF LeaseHeld, HoldsIn, Ref

\* The desk moves no job, and what it decides on is not on its way.
LEMMA DeskWatched ==
    ASSUME Typed, LeaseHeld, Watched, crashes = 0, NEW r \in Refunds, DeskStep(r) \/ LeaseExpire(r)
    PROVE  LeaseHeld' /\ Watched'
<1>. USE DEF Typed
<1>1. CASE LeaseExpire(r)
  BY <1>1 DEF LeaseExpire, LeaseHeld, HoldsIn, Holds, Ref
<1>2. CASE DeskStep(r)
  <2>1. /\ UNCHANGED <<job, lease>>
        /\ \A q \in Refunds \ {r} : /\ status'[q] = status[q] /\ recon'[q] = recon[q]
                                    /\ manual'[q] = manual[q]
        /\ status'[r] \notin Submitted
    <3>1. ASSUME NEW a, Insert(r, a)
          PROVE  /\ UNCHANGED <<job, lease, recon, manual>>
                 /\ status' = [status EXCEPT ![r] = "requested"]
      BY <3>1 DEF Insert
    <3>2. ASSUME ApproveRefund(r)
          PROVE  /\ UNCHANGED <<job, lease, recon, manual>>
                 /\ status' = [status EXCEPT ![r] = "approved"]
      BY <3>2 DEF ApproveRefund, Decide
    <3>3. ASSUME NEW to \in {"rejected", "cancelled"}, SetRefundTerminal(r, to)
          PROVE  /\ UNCHANGED <<job, lease, manual>>
                 /\ status' = [status EXCEPT ![r] = to]
                 /\ recon' = [recon EXCEPT ![r] = FALSE]
      BY <3>3 DEF SetRefundTerminal, Decide
    <3>4. ASSUME NEW to \in {"requested", "approved", "rejected", "cancelled"},
                 status' = [status EXCEPT ![r] = to],
                 recon' = recon \/ recon' = [recon EXCEPT ![r] = FALSE],
                 UNCHANGED <<job, lease, manual>>
          PROVE  <2>1
      BY <3>4 DEF RowsTypeOK, ReviewTypeOK, Submitted
    <3>. QED BY <1>2, <3>1, <3>2, <3>3, <3>4
             DEF DeskStep, CreateRefund, RequestRefundInTransaction
  <2>2. LeaseHeld'
    BY <2>1 DEF LeaseHeld
  <2>3. \A q \in Refunds : Watch(q) /\ q # r => WatchNext(q)
    BY <2>1 DEF Watch, WatchNext
  <2>4. Watched'
    BY <2>1, <2>3 DEF Watched, WatchNext, Watch
  <2>. QED BY <2>2, <2>4
<1>. QED BY <1>1, <1>2

\* A job that starts, or goes on to submit: it works on the row it has touched, or the row
\* is not on its way.
Starts(w, q, pc, kind) ==
    /\ job[w].pc \in {"idle", "process"} /\ lease' = lease
    /\ job' = [job EXCEPT ![w] = Started(pc, q, kind)]
LEMMA StartWatched ==
    ASSUME Typed, LeaseHeld, Watched, crashes = 0, NEW w \in Workers, NEW r \in Refunds,
           StartStep(w, r) \/ ProcessRetried(w)
    PROVE  LeaseHeld' /\ Watched'
<1>. USE DEF Typed
<1>1. ASSUME NEW q \in Refunds, NEW pc, NEW kind,
             Starts(w, q, pc, kind), OnlyRow(q),
             pc = "lease" \/ status'[q] \notin Submitted
      PROVE  LeaseHeld' /\ Watched'
  <2>1. /\ job'[w] = Started(pc, q, kind)
        /\ OthersStay(w)
    BY <1>1 DEF Starts, JobsTypeOK, OthersStay
  <2>2. LeaseHeld'
    <3>1. \A p \in Refunds : ~HoldsIn(job[w], p)
      BY <1>1 DEF Starts, HoldsIn
    <3>2. LeasesMove(w)
      BY <1>1, <3>1 DEF Starts, JobsTypeOK, LeasesMove
    <3>. QED BY <2>1, <3>2, HeldStep
  <2>3. \A p \in Refunds : ~WorksOn(job[w], p)
    BY <1>1 DEF Starts, WorksOn, Working
  <2>4. pc = "lease" => WorksOn(job'[w], q)
    BY <2>1 DEF WorksOn, Started, Working
  <2>5. RowsMove(w, {q})
    BY <1>1, <2>3, <2>4 DEF RowsMove, WatchNext, OnlyRow
  <2>6. Watched'
    BY <2>1, <2>5, WatchStep
  <2>. QED BY <2>2, <2>6
<1>2. CASE RetryRefund(w, r)
  <2>1. /\ OnlyRow(r)
        /\ status'[r] = "approved"
    BY <1>2 DEF RetryRefund, Decide, Clear, RowsTypeOK, ReviewTypeOK, OnlyRow
  <2>2. Starts(w, r, "process", "none") /\ status'[r] \notin Submitted
    BY <1>2, <2>1 DEF RetryRefund, Decide, At, Submitted, Starts
  <2>. QED BY <1>1, <2>1, <2>2
<1>3. ASSUME NEW q \in Refunds, Submit(w, q), job[w].pc \in {"idle", "process"}
      PROVE  LeaseHeld' /\ Watched'
  <2>1. OnlyRow(q)
    BY <1>3 DEF Submit, Decide, RowsTypeOK, ReviewTypeOK, OnlyRow
  <2>2. Starts(w, q, "lease", "process")
    BY <1>3 DEF Submit, Decide, Starts
  <2>. QED BY <1>1, <1>3, <2>1, <2>2
<1>4. CASE ReconcileRefund(w, r)
  BY <1>1, <1>4 DEF ReconcileRefund, At, OnlyRow, Starts
<1>5. CASE ProcessRefund(w, r)
  BY <1>3, <1>5 DEF ProcessRefund, At
<1>6. CASE ProcessRetried(w)
  <2>1. Ref(w) \in Refunds
    BY <1>6 DEF ProcessRetried, At, JobsTypeOK, JobsInv
  <2>. QED BY <1>3, <1>6, <2>1 DEF ProcessRetried, At
<1>. QED BY <1>2, <1>4, <1>5, <1>6 DEF StartStep

\* A job that goes on keeps watching; one that ends leaves an answer, a review, or, having
\* been refused the lease, the row to the job that holds it.
LEMMA JobWatched ==
    ASSUME Typed, LeaseInv, LeaseHeld, Watched, crashes = 0, NEW w \in Workers, JobStep(w)
    PROVE  LeaseHeld' /\ Watched'
<1>. USE DEF Typed
<1>. DEFINE r == Ref(w)
<1>0. job[w].pc # "idle" => r \in Refunds
  BY DEF JobsTypeOK, JobsInv
<1>1. ASSUME NEW j, job' = [job EXCEPT ![w] = j], j.refund = r, j.pc \in Working,
             job[w].pc \in Working, UNCHANGED <<status, recon, manual>>
      PROVE  Watched'
  <2>1. job'[w] = j /\ OthersStay(w)
    BY <1>1 DEF JobsTypeOK, OthersStay
  <2>2. \A q \in Refunds : WorksOn(job[w], q) => WorksOn(job'[w], q)
    BY <1>1, <2>1 DEF WorksOn, Ref
  <2>3. RowsMove(w, {})
    BY <1>1, <2>2 DEF RowsMove
  <2>. QED BY <2>1, <2>3, WatchStep
<1>2. ASSUME NEW result \in {"unknown", "succeeded", "failed"}, Answered(w, result),
             job[w].pc \in {"call", "apply"}, UNCHANGED <<status, recon, manual, lease>>
      PROVE  LeaseHeld' /\ Watched'
  <2>. DEFINE j == AnsweredJob(w, result)
  <2>1. job' = [job EXCEPT ![w] = j] /\ j.refund = r /\ j.pc \in {"apply", "review"}
    BY <1>2, AnsweredIs DEF Ref
  <2>. HIDE DEF j
  <2>2. Watched'
    BY <1>1, <1>2, <2>1 DEF Working
  <2>3. job'[w] = j /\ OthersStay(w)
    BY <2>1 DEF JobsTypeOK, OthersStay
  <2>4. \A q \in Refunds : HoldsIn(job[w], q) => HoldsIn(job'[w], q)
    BY <1>2, <2>1, <2>3 DEF HoldsIn, Ref
  <2>5. LeasesMove(w)
    BY <1>2, <2>4 DEF JobsTypeOK, LeasesMove
  <2>6. LeaseHeld'
    BY <2>3, <2>5, HeldStep
  <2>. QED BY <2>2, <2>6
<1>3. ASSUME Finish(w), job[w].pc \in Working,
             OnlyRow(r),
             status'[r] \in Submitted => recon'[r] \/ manual'[r]
      PROVE  LeaseHeld' /\ Watched'
  <2>1. job'[w].pc = "idle" /\ OthersStay(w)
    BY <1>3, FinishIs DEF OthersStay
  <2>2. \A q \in Refunds \ {r} : ~WorksOn(job[w], q)
    BY DEF WorksOn, Ref
  <2>3. \A q \in Refunds \cap {r} : status'[q] \in Submitted => WatchNext(q)
    BY <1>3 DEF WatchNext
  <2>4. RowsMove(w, {r})
    BY <1>3, <2>2, <2>3 DEF RowsMove, OnlyRow
  <2>5. Watched'
    BY <2>1, <2>4, WatchStep
  <2>6. lease' \in [Refunds -> Workers \cup {None}]
    BY <1>3 DEF Finish, JobsTypeOK
  <2>7. ASSUME NEW q \in Refunds, lease'[q] # None
        PROVE  lease'[q] = lease[q] /\ ~HoldsIn(job[w], q)
    <3>1. lease'[q] = lease[q] /\ ~(Holds(w, q) /\ lease[q] = w)
      BY <1>3, <2>7 DEF Finish
    <3>2. Holds(w, q) => lease[q] = w
      BY DEF LeaseInv
    <3>. QED BY <3>1, <3>2 DEF Holds, HoldsIn, Ref
  <2>8. LeasesMove(w)
    BY <2>6, <2>7 DEF LeasesMove
  <2>. QED BY <2>1, <2>5, <2>8, HeldStep
<1>4. CASE ProcessRetried(w)
  BY <1>0, <1>4, StartWatched DEF ProcessRetried, At
<1>5. CASE RetryRefused(w)
  <2>1. /\ job' = [job EXCEPT ![w] = Idle] /\ job[w].pc = "process"
        /\ UNCHANGED <<status, recon, manual, lease>>
    BY <1>5 DEF RetryRefused, At
  <2>2. OthersStay(w)
    BY <2>1 DEF JobsTypeOK, OthersStay
  <2>3. RowsMove(w, {})
    BY <2>1 DEF RowsMove, WorksOn, Working
  <2>4. LeasesMove(w)
    BY <2>1 DEF LeasesMove, HoldsIn, JobsTypeOK
  <2>. QED BY <2>2, <2>3, <2>4, WatchStep, HeldStep
<1>6. CASE TakeLease(w)
  <2>. DEFINE j == [job[w] EXCEPT !.pc = "call"]
  <2>1. /\ job' = [job EXCEPT ![w] = j] /\ j.refund = r /\ j.pc = "call"
        /\ job[w].pc = "lease" /\ UNCHANGED <<status, recon, manual>>
        /\ lease' = [lease EXCEPT ![r] = w] /\ r \in Refunds
    BY <1>0, <1>6 DEF TakeLease, At, JobsTypeOK, Jobs, Ref
  <2>. HIDE DEF j
  <2>2. Watched'
    BY <1>1, <2>1 DEF Working
  <2>3. job'[w] = j /\ OthersStay(w)
    BY <2>1 DEF JobsTypeOK, OthersStay
  <2>4. HoldsIn(job'[w], r)
    BY <2>1, <2>3 DEF HoldsIn
  <2>5. \A q \in Refunds : ~HoldsIn(job[w], q)
    BY <2>1 DEF HoldsIn
  <2>6. lease' \in [Refunds -> Workers \cup {None}]
    BY <2>1 DEF JobsTypeOK
  <2>7. \A q \in Refunds : lease'[q] # lease[q] => q = r /\ lease'[q] = w
    <3>1. lease \in [Refunds -> Workers \cup {None}] /\ lease' = [lease EXCEPT ![r] = w]
          /\ r \in Refunds
      BY <2>1 DEF JobsTypeOK
    <3>. HIDE DEF r
    <3>. QED BY <3>1
  <2>. HIDE DEF r
  <2>8. LeasesMove(w)
    BY <2>4, <2>5, <2>6, <2>7 DEF LeasesMove
  <2>9. LeaseHeld'
    BY <2>3, <2>8, HeldStep
  <2>. QED BY <2>2, <2>9
<1>7. CASE LeaseRefused(w)
  <2>1. /\ job' = [job EXCEPT ![w] = Idle] /\ job[w].pc = "lease" /\ r \in Refunds
        /\ lease[r] # None /\ UNCHANGED <<status, recon, manual, lease>>
    BY <1>0, <1>7 DEF LeaseRefused, At
  <2>2. OthersStay(w)
    BY <2>1 DEF JobsTypeOK, OthersStay
  <2>3. \A q \in Refunds : ~HoldsIn(job[w], q)
    BY <2>1 DEF HoldsIn
  <2>4. LeasesMove(w)
    BY <2>1, <2>3 DEF LeasesMove, JobsTypeOK
  <2>5. WatchNext(r)
    <3>1. PICK h \in Workers : h = lease[r]
      BY <2>1 DEF JobsTypeOK
    <3>2. HoldsIn(job[h], r) /\ h # w
      BY <2>1, <2>3, <3>1 DEF LeaseHeld
    <3>3. WorksOn(job'[h], r)
      BY <2>2, <3>2 DEF HoldsIn, WorksOn, Working, OthersStay
    <3>. QED BY <3>3 DEF WatchNext
  <2>6. \A q \in Refunds \ {r} : ~WorksOn(job[w], q)
    BY DEF WorksOn, Ref
  <2>7. RowsMove(w, {r})
    BY <2>1, <2>5, <2>6 DEF RowsMove
  <2>. QED BY <2>2, <2>4, <2>7, WatchStep, HeldStep
<1>8. CASE Refuse(w) \/ LoseRequest(w) \/ Reverse(w) \/ Inquire(w) \/ ApplyAborted(w)
  BY <1>2, <1>8 DEF Refuse, LoseRequest, Reverse, Inquire, ApplyAborted, At
<1>9. CASE ApplyFailed(w) \/ ApplySucceeded(w)
  <2>1. /\ Finish(w) /\ job[w].pc = "apply" /\ Clear(r) /\ r \in Refunds
        /\ \E to \in {"failed", "succeeded"} : status' = [status EXCEPT ![r] = to]
    BY <1>0, <1>9 DEF ApplyFailed, ApplySucceeded, At
  <2>2. OnlyRow(r)
    BY <2>1 DEF Clear, RowsTypeOK, ReviewTypeOK, OnlyRow
  <2>3. status'[r] \notin Submitted
    <3>1. PICK to \in {"failed", "succeeded"} : status' = [status EXCEPT ![r] = to]
      BY <2>1
    <3>2. status'[r] = to
      BY <2>1, <3>1 DEF RowsTypeOK
    <3>. QED BY <3>2 DEF Submitted
  <2>4. job[w].pc \in Working
    BY <2>1 DEF Working
  <2>. QED BY <1>3, <2>1, <2>2, <2>3, <2>4
<1>10. CASE ScheduleRefundReview(w)
  <2>. DEFINE last == attempts[r] + 1 >= MaxAttempts
  <2>1. Review(w, ~last, last)
    BY <1>10 DEF ScheduleRefundReview
  <2>. HIDE DEF last
  <2>2. /\ Finish(w) /\ job[w].pc = "review" /\ r \in Refunds
        /\ status' = [status EXCEPT ![r] = IF @ = "processing" THEN "unknown" ELSE @]
        /\ recon' = [recon EXCEPT ![r] = ~last] /\ manual' = [manual EXCEPT ![r] = last]
    BY <1>0, <2>1 DEF Review, At
  <2>3. OnlyRow(r)
    BY <2>2 DEF RowsTypeOK, ReviewTypeOK, OnlyRow
  <2>4. recon'[r] \/ manual'[r]
    BY <2>2 DEF ReviewTypeOK
  <2>. QED BY <1>3, <2>2, <2>3, <2>4 DEF Working
<1>. QED BY <1>4, <1>5, <1>6, <1>7, <1>8, <1>9, <1>10 DEF JobStep

(* A refund that was submitted is worked on, due again or left to staff, as long as no  *)
(* process was lost.                                                                    *)
THEOREM Watching == Spec => []SubmittedIsWatched
<1>. DEFINE W == LeaseHeld /\ Watched
<1>1. Init => W
  BY DEF Init, LeaseHeld, Watched, Submitted
<1>2. Inv /\ W /\ [Next]_vars => W'
  <2>. SUFFICES ASSUME Inv, W, [Next]_vars PROVE W'
    OBVIOUS
  <2>. USE DEF Inv
  <2>0. crashes \in Nat
    BY BoundsAssumption DEF Typed, RowsTypeOK
  <2>1. CASE UNCHANGED vars
    BY <2>1 DEF vars, reviewVars, LeaseHeld, Watched, Watch
  <2>2. CASE crashes' # 0
    BY <2>2 DEF LeaseHeld, Watched
  <2>3. CASE Next /\ crashes' = 0
    <3>1. ASSUME NEW w \in Workers, Crash(w) PROVE FALSE
      BY <2>0, <2>3, <3>1 DEF Crash
    <3>2. crashes = 0
      BY <2>0, <2>3, <3>1 DEF Next, DeskStep, CreateRefund, RequestRefundInTransaction,
         Insert, ApproveRefund, SetRefundTerminal, Decide, LeaseExpire, StartStep, RetryRefund,
         ProcessRefund, Submit, ReconcileRefund, JobStep, ProcessRetried, RetryRefused,
         TakeLease, LeaseRefused, Refuse, LoseRequest, Reverse, Inquire, ApplyFailed,
         ApplySucceeded, ApplyAborted, ScheduleRefundReview, Review
    <3>. QED BY <2>3, <3>1, <3>2, DeskWatched, StartWatched, JobWatched DEF Next
  <2>. QED BY <2>1, <2>2, <2>3
<1>3. Inv /\ W => SubmittedIsWatched
  BY BoundsAssumption DEF Inv, Typed, RowsTypeOK, Watched, Watch, WorksOn, Working, Ref,
     SubmittedIsWatched
<1>. QED BY <1>1, <1>2, <1>3, Invariant, PTL DEF Spec
=============================================================================
