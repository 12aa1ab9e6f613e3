------------------------- MODULE NotificationsProofs -------------------------
(***************************************************************************)
(* Theorems about Notifications, for any channels, workers and attempts,   *)
(* and any bounds.                                                         *)
(***************************************************************************)
EXTENDS Notifications, FiniteSetTheorems, TLAPS

(* The inductive invariant. *)

Tries(c) == delivery[c].tries
Tried(c, n) == n \in Numbers /\ attempts[c][n] # "none"

\* The types of the workers' records alone, which the number of attempts does not enter.
Batch == [todo : SUBSET External, at : External \cup {None}, number : [Channels -> Nat],
          step : {"idle", "send", "record", "commit"}, result : Results,
          lost : BOOLEAN, read : IntentStatuses]
RowsOK ==
    /\ intent \in IntentStatuses
    /\ delivery \in [Channels -> [status : DeliveryStatuses, tries : Nat]]
    /\ attempts \in [Channels -> [Numbers -> AttemptStatuses]]
    /\ confirmed \in [Channels -> Nat]
    /\ retries \in 0..MaxRetries /\ faults \in 0..MaxFaults /\ skewed \in BOOLEAN
WorkersOK ==
    /\ worker \in [Workers -> Batch]
    /\ \A w \in Workers :
          /\ worker[w].step # "idle" <=> worker[w].at # None
          /\ worker[w].step \in {"record", "commit"} => worker[w].result \in Answers
          /\ worker[w].step = "commit" => worker[w].read # "absent"
SweepOK ==
    /\ sweep \in [rows : SUBSET External, read : IntentStatuses]
    /\ sweep = NoSweep \/ (sweep.rows # {} /\ sweep.read # "absent")

\* Every retry by staff is good for one attempt more than the limit, and a row that waits
\* for an attempt has one left.
Allowed == MaxAttempts + retries
CountsInv ==
    /\ \A c \in Channels :
          /\ Tries(c) <= Allowed
          /\ Active(c) \/ delivery[c].status = "absent" => Tries(c) < Allowed
    /\ \A w \in Workers, c \in Channels :
          worker[w].number[c] <= Allowed /\ (Holds(w, c) => worker[w].number[c] > 0)

\* A row counts no attempt that was not started, and at most one that was started is not
\* counted; a claim is for the next attempt, or for one that is taken.
AttemptsInv ==
    /\ \A c \in Channels, n \in Numbers :
          /\ n <= Tries(c) => attempts[c][n] # "none"
          /\ attempts[c][n] # "none" => n <= Tries(c) + 1
    /\ \A w \in Workers, c \in Channels : Holds(w, c) => worker[w].number[c] <= Tries(c) + 1

\* Who sends or records is alone with the row, at its only attempt that is not counted.
AtWorkInv ==
    /\ \A w \in Workers, c \in External : worker[w].at = c =>
          worker[w].number[c] = Tries(c) + 1 /\ Tried(c, Tries(c) + 1)
    /\ \A v, w \in Workers : worker[v].at = worker[w].at /\ worker[v].at # None => v = w

\* What the provider confirmed: by the attempt that is not counted, whoever has it knows.
ConfirmedInv ==
    /\ \A c \in Channels : confirmed[c] <= 1
    /\ \A c \in External :
          /\ confirmed[c] = 1 => Tried(c, Tries(c) + 1)
          /\ delivery[c].status = "delivered" => confirmed[c] = 1
    /\ \A w \in Workers, c \in External : worker[w].at = c =>
          (confirmed[c] = 1 <=>
             worker[w].step \in {"record", "commit"} /\ worker[w].result = "delivered")

\* An open transaction finds its rows as it left them, and so do its reads, unless two
\* transactions were open at a time.
Committing(w) == worker[w].step = "commit"
Outcoming(w) ==
    LET c == worker[w].at IN
    IF worker[w].lost THEN delivery
    ELSE [delivery EXCEPT ![c] = Recorded(delivery[c], worker[w].result, worker[w].number[c])]
LocksInv ==
    /\ \A c \in sweep.rows : delivery[c].status = "processing"
    /\ \A w \in Workers : Committing(w) /\ ~worker[w].lost =>
          worker[w].at \notin sweep.rows /\ delivery[worker[w].at].status = "processing"
AloneInv ==
    ~skewed =>
       /\ \A v, w \in Workers : Committing(v) /\ Committing(w) => v = w
       /\ \A w \in Workers : Committing(w) => sweep.rows = {} /\ worker[w].read = Derived(Outcoming(w))

\* A notification with nothing left to do says what its rows say.
Settled == \A c \in External : ~Active(c)
AgreesInv ==
    /\ ~skewed => \/ ~Settled
                  \/ intent = Derived(delivery)
                  \/ \A c \in External : delivery[c].status = "absent"
    /\ intent = "absent" =>
          /\ \A c \in Channels : delivery[c].status = "absent"
          /\ \A w \in Workers : Idle(w)
    /\ ~Active(InApp)

Typed == RowsOK /\ WorkersOK /\ SweepOK
Inv == /\ Typed /\ CountsInv /\ BoundedAttempts /\ AttemptsInv /\ AtWorkInv /\ ConfirmedInv
       /\ LocksInv /\ AloneInv /\ AgreesInv

-----------------------------------------------------------------------------
(* What the steps of a worker do to its record. *)

Others(w) == \A v \in Workers \ {w} : worker'[v] = worker[v]

\* A dropped batch leaves nothing behind.
LEMMA DroppedIs ==
    ASSUME WorkersOK, NEW w \in Workers, Dropped(w)
    PROVE  WorkersOK' /\ worker'[w] = NoWork /\ Others(w)
<1>1. NoWork \in Batch
  BY DEF NoWork, Batch, External, Results, IntentStatuses
<1>2. worker' = [worker EXCEPT ![w] = NoWork] /\ worker \in [Workers -> Batch]
  BY DEF Dropped, WorkersOK
<1>3. worker'[w] = NoWork /\ Others(w) /\ worker' \in [Workers -> Batch]
  BY <1>1, <1>2 DEF Others
<1>. QED BY <1>3 DEF WorkersOK, Others, NoWork

\* What an idle worker has, and one that is at a row.
LEMMA AtRow ==
    ASSUME WorkersOK, NEW w \in Workers
    PROVE  /\ worker[w] \in Batch
           /\ worker[w].step # "idle" => worker[w].at \in External /\ worker[w].at # None
           /\ worker[w].at = None => worker[w].step = "idle"
           /\ External \subseteq Channels
BY NotificationAssumption DEF WorkersOK, Batch, External

\* A record of the right type, with a result once one is there, takes the place of another.
LEMMA RecordIs ==
    ASSUME WorkersOK, NEW w \in Workers, NEW b \in Batch, worker' = [worker EXCEPT ![w] = b],
           b.step # "idle" <=> b.at # None,
           b.step \in {"record", "commit"} => b.result \in Answers,
           b.step = "commit" => b.read # "absent"
    PROVE  WorkersOK' /\ worker'[w] = b /\ Others(w)
<1>1. worker'[w] = b /\ Others(w) /\ worker' \in [Workers -> Batch]
  BY DEF Others, WorkersOK
<1>. QED BY <1>1 DEF WorkersOK, Others

\* A claim: the rows that are claimed, each with the number of its next attempt.
Takes(w, claimed) ==
    /\ claimed # {}
    /\ \A c \in claimed : delivery[c].status \in {"pending", "retry_wait"}
    /\ \A c \in claimed : /\ delivery'[c] = [status |-> "processing", tries |-> Tries(c)]
                           /\ worker'[w].number[c] = Tries(c) + 1
    /\ \A c \in Channels \ claimed : delivery'[c] = delivery[c] /\ worker'[w].number[c] = 0
    /\ worker'[w].todo = claimed /\ worker'[w].at = None /\ worker'[w].step = "idle"

LEMMA ClaimIs ==
    ASSUME RowsOK, WorkersOK, NEW w \in Workers, ClaimBatch(w)
    PROVE  WorkersOK' /\ Others(w) /\ \E claimed \in SUBSET External : Takes(w, claimed)
<1>1. PICK claimed \in SUBSET {c \in External : delivery[c].status \in {"pending", "retry_wait"}} :
         /\ claimed # {}
         /\ delivery' = [c \in Channels |->
                           IF c \in claimed THEN [delivery[c] EXCEPT !.status = "processing"]
                                            ELSE delivery[c]]
         /\ worker' = [worker EXCEPT
                         ![w].todo = claimed,
                         ![w].number = [c \in Channels |-> IF c \in claimed
                                                           THEN delivery[c].tries + 1 ELSE 0]]
  BY DEF ClaimBatch
<1>. DEFINE numbers == [c \in Channels |-> IF c \in claimed THEN delivery[c].tries + 1 ELSE 0]
            b == [worker[w] EXCEPT !.todo = claimed, !.number = numbers]
<1>2. numbers \in [Channels -> Nat]
  BY DEF RowsOK
<1>3. worker[w].at = None /\ worker[w].step = "idle" /\ worker[w] \in Batch
  BY AtRow DEF ClaimBatch, Idle
<1>. HIDE DEF numbers
<1>4. /\ b \in Batch /\ b.todo = claimed /\ b.number = numbers /\ b.at = None /\ b.step = "idle"
      /\ b.result = worker[w].result
  BY <1>2, <1>3 DEF Batch
<1>5. worker' = [worker EXCEPT ![w] = b]
  BY <1>1 DEF numbers, WorkersOK
<1>. HIDE DEF b
<1>6. WorkersOK' /\ worker'[w] = b /\ Others(w)
  BY <1>4, <1>5, RecordIs
<1>7. /\ \A c \in claimed : /\ delivery'[c] = [status |-> "processing", tries |-> Tries(c)]
                             /\ numbers[c] = Tries(c) + 1
      /\ \A c \in Channels \ claimed : delivery'[c] = delivery[c] /\ numbers[c] = 0
  <2>1. claimed \subseteq Channels
    BY DEF External
  <2>2. \A c \in Channels : delivery[c] \in [status : DeliveryStatuses, tries : Nat]
    BY DEF RowsOK
  <2>. QED BY <1>1, <2>1, <2>2 DEF numbers, Tries
<1>8. claimed \in SUBSET External /\ \A c \in claimed : delivery[c].status \in {"pending", "retry_wait"}
  OBVIOUS
<1>9. Takes(w, claimed)
  BY <1>1, <1>4, <1>6, <1>7, <1>8 DEF Takes
<1>. QED BY <1>6, <1>8, <1>9

\* The start of an attempt whose number is not taken.
LEMMA StartIs ==
    ASSUME RowsOK, WorkersOK, NEW w \in Workers, StartAttempt(w)
    PROVE  \/ Dropped(w) /\ UNCHANGED attempts
           \/ /\ WorkersOK' /\ Others(w)
              /\ \E c \in worker[w].todo :
                    /\ Unused(c, worker[w].number[c])
                    /\ attempts' = [attempts EXCEPT ![c][worker[w].number[c]] = "started"]
                    /\ worker'[w].todo = worker[w].todo \ {c} /\ worker'[w].at = c
                    /\ worker'[w].number = worker[w].number
                    /\ worker'[w].step # "commit"
                    /\ worker'[w].step \in {"send", "record"}
                    /\ worker'[w].step = "record" => worker'[w].result = "blocked"
<1>. SUFFICES ASSUME ~(Dropped(w) /\ UNCHANGED attempts)
              PROVE  /\ WorkersOK' /\ Others(w)
                     /\ \E c \in worker[w].todo :
                          /\ Unused(c, worker[w].number[c])
                          /\ attempts' = [attempts EXCEPT ![c][worker[w].number[c]] = "started"]
                          /\ worker'[w].todo = worker[w].todo \ {c} /\ worker'[w].at = c
                          /\ worker'[w].number = worker[w].number
                          /\ worker'[w].step # "commit"
                          /\ worker'[w].step \in {"send", "record"}
                          /\ worker'[w].step = "record" => worker'[w].result = "blocked"
  OBVIOUS
<1>1. PICK c \in worker[w].todo, blocked \in BOOLEAN :
         /\ Unused(c, worker[w].number[c])
         /\ attempts' = [attempts EXCEPT ![c][worker[w].number[c]] = "started"]
         /\ worker' = [worker EXCEPT ![w].todo = @ \ {c}, ![w].at = c,
                         ![w].step = IF blocked THEN "record" ELSE "send",
                         ![w].result = IF blocked THEN "blocked" ELSE "none"]
  BY DEF StartAttempt
<1>. DEFINE step == IF blocked THEN "record" ELSE "send"
            result == IF blocked THEN "blocked" ELSE "none"
            b == [worker[w] EXCEPT !.todo = @ \ {c}, !.at = c, !.step = step, !.result = result]
<1>2. /\ step \in {"send", "record"} /\ result \in Results
      /\ step = "record" => result = "blocked"
  BY DEF Results, Answers
<1>3. worker' = [worker EXCEPT ![w] = b]
  BY <1>1 DEF WorkersOK
<1>. HIDE DEF step, result
<1>4. worker[w] \in Batch /\ c \in External /\ c # None
  BY NotificationAssumption, AtRow DEF Batch, External
<1>5. /\ b \in Batch /\ b.todo = worker[w].todo \ {c} /\ b.at = c /\ b.step = step
      /\ b.result = result /\ b.number = worker[w].number
  BY <1>2, <1>4 DEF Batch
<1>. HIDE DEF b
<1>6. WorkersOK' /\ worker'[w] = b /\ Others(w)
  BY <1>2, <1>3, <1>4, <1>5, RecordIs DEF Answers
<1>. QED BY <1>1, <1>2, <1>5, <1>6

\* The answer of the provider.
LEMMA SendIs ==
    ASSUME RowsOK, WorkersOK, NEW w \in Workers, Send(w)
    PROVE  /\ WorkersOK' /\ Others(w)
           /\ \E answer \in Answers :
                /\ worker'[w].step = "record" /\ worker'[w].result = answer
                /\ confirmed' = [confirmed EXCEPT ![worker[w].at] =
                                   IF answer = "delivered" THEN @ + 1 ELSE @]
           /\ worker'[w].todo = worker[w].todo /\ worker'[w].at = worker[w].at
           /\ worker'[w].number = worker[w].number
<1>1. PICK answer \in Answers :
         /\ worker' = [worker EXCEPT ![w].step = "record", ![w].result = answer]
         /\ confirmed' = [confirmed EXCEPT ![worker[w].at] = IF answer = "delivered" THEN @ + 1 ELSE @]
  BY DEF Send
<1>. DEFINE b == [worker[w] EXCEPT !.step = "record", !.result = answer]
<1>2. worker' = [worker EXCEPT ![w] = b]
  BY <1>1 DEF WorkersOK
<1>3. worker[w] \in Batch /\ worker[w].at # None /\ answer \in Results
  BY AtRow DEF Send, WorkersOK, Results
<1>4. /\ b \in Batch /\ b.step = "record" /\ b.result = answer /\ b.todo = worker[w].todo
      /\ b.at = worker[w].at /\ b.number = worker[w].number
  BY <1>3 DEF Batch
<1>. HIDE DEF b
<1>5. WorkersOK' /\ worker'[w] = b /\ Others(w)
  BY <1>2, <1>3, <1>4, RecordIs
<1>. QED BY <1>1, <1>4, <1>5

\* The notification's status is one of its own.
LEMMA DerivedType == ASSUME NEW rows PROVE Derived(rows) \in IntentStatuses \ {"absent"}
BY DEF Derived, IntentStatuses

\* The transaction of a record opens.
LEMMA RecordOpens ==
    ASSUME RowsOK, WorkersOK, NEW w \in Workers, Record(w)
    PROVE  /\ WorkersOK' /\ Others(w)
           /\ worker'[w].step = "commit"
           /\ worker'[w].lost = (delivery[worker[w].at].status # "processing")
           /\ worker'[w].todo = worker[w].todo /\ worker'[w].at = worker[w].at
           /\ worker'[w].number = worker[w].number /\ worker'[w].result = worker[w].result
           /\ worker'[w].read = Derived(Outcoming(w)')
<1>. DEFINE c == worker[w].at
            lost == delivery[c].status # "processing"
            row == IF lost THEN delivery[c]
                   ELSE Recorded(delivery[c], worker[w].result, worker[w].number[c])
            read == Refreshed(c, row)
            b == [worker[w] EXCEPT !.step = "commit", !.lost = lost, !.read = read]
<1>1. worker' = [worker EXCEPT ![w] = b]
  BY DEF Record, WorkersOK
<1>2. /\ worker[w] \in Batch /\ worker[w].at # None /\ worker[w].result \in Answers
      /\ read \in IntentStatuses \ {"absent"} /\ lost \in BOOLEAN /\ c \in Channels
  BY AtRow, DerivedType DEF Record, WorkersOK, Refreshed
<1>3. Derived(IF lost THEN delivery
              ELSE [delivery EXCEPT ![c] = Recorded(delivery[c], worker[w].result, worker[w].number[c])])
        = read
  <2>1. lost => [delivery EXCEPT ![c] = row] = delivery
    BY <1>2 DEF RowsOK
  <2>. QED BY <2>1 DEF Refreshed
<1>. HIDE DEF read, lost, c
<1>4. /\ b \in Batch /\ b.step = "commit" /\ b.result = worker[w].result /\ b.todo = worker[w].todo
      /\ b.at = worker[w].at /\ b.number = worker[w].number /\ b.lost = lost /\ b.read = read
  BY <1>2 DEF Batch
<1>. HIDE DEF b
<1>5. WorkersOK' /\ worker'[w] = b /\ Others(w)
  BY <1>1, <1>2, <1>4, RecordIs
<1>6. Derived(Outcoming(w)') = read
  <2>1. delivery' = delivery
    BY DEF Record
  <2>. QED BY <1>3, <1>4, <1>5, <2>1 DEF Outcoming, c
<1>. QED BY <1>4, <1>5, <1>6 DEF lost, c

\* The transaction of a record is committed.
LEMMA CommitIs ==
    ASSUME RowsOK, WorkersOK, NEW w \in Workers, Commit(w), ~Refused(worker[w].read)
    PROVE  /\ WorkersOK' /\ Others(w)
           /\ worker'[w].step = "idle" /\ worker'[w].at = None
           /\ worker'[w].todo = worker[w].todo
           /\ worker'[w].number = worker[w].number \/ worker'[w] = NoWork
           /\ delivery' = Outcoming(w) /\ intent' = worker[w].read
<1>. DEFINE b == IF worker[w].todo = {} THEN NoWork
                 ELSE [NoWork EXCEPT !.todo = worker[w].todo, !.number = worker[w].number]
<1>1. /\ worker' = [worker EXCEPT ![w] = b]
      /\ delivery' = Outcoming(w) /\ intent' = worker[w].read
  BY DEF Commit, Outcoming
<1>2. worker[w] \in Batch
  BY DEF WorkersOK
<1>3. /\ b \in Batch /\ b.step = "idle" /\ b.at = None /\ b.todo = worker[w].todo
      /\ b.number = worker[w].number \/ b = NoWork
  BY <1>2 DEF Batch, NoWork, External, Results, IntentStatuses
<1>. HIDE DEF b
<1>4. WorkersOK' /\ worker'[w] = b /\ Others(w)
  BY <1>1, <1>3, RecordIs
<1>. QED BY <1>1, <1>3, <1>4

-----------------------------------------------------------------------------
(* The steps, one by one. *)

\* What the notification is to say depends on which rows are there, delivered, dead or active.
SameKind(s, t) ==
    /\ \A kind \in {"absent", "delivered", "dead_lettered"} : s = kind <=> t = kind
    /\ s \in ActiveStatuses <=> t \in ActiveStatuses
LEMMA DerivedSame ==
    ASSUME NEW rows, NEW rows2, \A c \in Channels : SameKind(rows[c].status, rows2[c].status)
    PROVE  Derived(rows) = Derived(rows2)
<1>1. {c \in Channels : rows[c].status # "absent"} = {c \in Channels : rows2[c].status # "absent"}
  BY DEF SameKind
<1>. DEFINE R == {c \in Channels : rows[c].status # "absent"}
<1>2. /\ {c \in R : rows[c].status \in {"delivered"}} = {c \in R : rows2[c].status \in {"delivered"}}
      /\ {c \in R : rows[c].status \in {"dead_lettered"}} = {c \in R : rows2[c].status \in {"dead_lettered"}}
      /\ {c \in R : rows[c].status \in ActiveStatuses} = {c \in R : rows2[c].status \in ActiveStatuses}
  BY DEF SameKind
<1>. QED BY <1>1, <1>2, Zenon DEF Derived

\* The bound on attempts is a number.
LEMMA AllowedIs ==
    ASSUME RowsOK
    PROVE  /\ Allowed \in Nat /\ Allowed > 0 /\ MaxAttempts \in Nat \ {0}
           /\ Allowed <= MaxAttempts + MaxRetries /\ MaxRetries \in Nat /\ Allowed >= MaxAttempts
BY NotificationAssumption DEF RowsOK, Allowed

\* A batch that ends early: its worker is gone, the rows stay as they are.
LEMMA DropKeepsInv ==
    ASSUME Inv, NEW w \in Workers, Dropped(w), faults' \in 0..MaxFaults,
           UNCHANGED <<intent, delivery, attempts, sweep, confirmed, retries, skewed>>
    PROVE  Inv'
<1>. USE DEF Inv, Typed
<1>1. WorkersOK' /\ worker'[w] = NoWork /\ Others(w)
  BY DroppedIs
<1>2. /\ worker'[w].todo = {} /\ worker'[w].at = None /\ worker'[w].step = "idle"
      /\ worker'[w].number = [c \in Channels |-> 0]
      /\ \A v \in Workers \ {w} : worker'[v] = worker[v]
  BY <1>1 DEF NoWork, Others
<1>3. RowsOK' /\ SweepOK'
  BY DEF RowsOK, SweepOK
<1>4. CountsInv' /\ BoundedAttempts'
  BY <1>2, AllowedIs, NotificationAssumption
     DEF CountsInv, BoundedAttempts, Allowed, Tries, Active, Holds
<1>5. AttemptsInv'
  BY <1>2, NotificationAssumption DEF AttemptsInv, Tries, Holds
<1>6. AtWorkInv' /\ ConfirmedInv'
  BY <1>2, NotificationAssumption DEF AtWorkInv, ConfirmedInv, Tries, Tried, External
<1>7. LocksInv'
  BY <1>2 DEF LocksInv, Committing
<1>8. AloneInv'
  BY <1>2 DEF AloneInv, Committing, Outcoming
<1>9. AgreesInv'
  BY <1>2 DEF AgreesInv, Settled, Active, Idle
<1>. QED BY <1>1, <1>3, <1>4, <1>5, <1>6, <1>7, <1>8, <1>9

\* The notification is written.
LEMMA EnqueueKeepsInv == ASSUME Inv, Enqueue PROVE Inv'
<1>. USE DEF Inv, Typed
<1>1. PICK routed \in SUBSET Channels \ {{}} :
         delivery' = [c \in Channels |->
                        [delivery[c] EXCEPT !.status = IF c \notin routed THEN "absent"
                                                       ELSE IF c = InApp THEN "delivered"
                                                       ELSE "pending"]]
  BY DEF Enqueue
<1>2. /\ UNCHANGED <<attempts, worker, sweep, confirmed, retries, faults, skewed>>
      /\ intent = "absent" /\ intent' = "queued"
  BY DEF Enqueue
<1>3. /\ \A c \in Channels : delivery[c].status = "absent"
      /\ \A w \in Workers : worker[w].step = "idle"
      /\ \A w \in Workers : worker[w].at = None
  BY <1>2 DEF AgreesInv, WorkersOK, Idle
<1>4. /\ \A c \in Channels : Tries(c)' = Tries(c) /\ delivery'[c].status \in {"absent", "pending", "delivered"}
      /\ \A c \in External : delivery'[c].status = IF c \in routed THEN "pending" ELSE "absent"
      /\ delivery'[InApp].status \in {"absent", "delivered"}
      /\ RowsOK'
  <2>1. \A c \in Channels : delivery[c] \in [status : DeliveryStatuses, tries : Nat]
    BY DEF RowsOK
  <2>. QED BY <1>1, <1>2, <2>1, NotificationAssumption
           DEF RowsOK, Tries, External, DeliveryStatuses, ActiveStatuses, IntentStatuses
<1>5. sweep.rows = {}
  BY <1>3 DEF LocksInv, SweepOK, External
<1>6. WorkersOK' /\ SweepOK'
  BY <1>2 DEF WorkersOK, SweepOK
<1>7. CountsInv' /\ BoundedAttempts'
  BY <1>2, <1>3, <1>4 DEF CountsInv, BoundedAttempts, Allowed, Holds
<1>8. AttemptsInv'
  BY <1>2, <1>4 DEF AttemptsInv, Holds
<1>9. AtWorkInv'
  BY <1>2, <1>3, <1>4, NotificationAssumption DEF AtWorkInv, External
<1>10. ConfirmedInv'
  <2>1. \A c \in External : delivery'[c].status # "delivered" /\ (Tried(c, Tries(c) + 1)' <=> Tried(c, Tries(c) + 1))
    BY <1>2, <1>4 DEF Tried, External
  <2>. QED BY <1>2, <1>3, <2>1, NotificationAssumption DEF ConfirmedInv, External
<1>11. LocksInv' /\ AloneInv'
  BY <1>2, <1>3, <1>5 DEF LocksInv, AloneInv, Committing
<1>12. AgreesInv'
  BY <1>2, <1>4 DEF AgreesInv, Settled, Active, ActiveStatuses
<1>. QED BY <1>4, <1>6, <1>7, <1>8, <1>9, <1>10, <1>11, <1>12

\* Staff have it tried again.
LEMMA RetryKeepsInv == ASSUME Inv, ManualRetry PROVE Inv'
<1>. USE DEF Inv, Typed
<1>. DEFINE rows == {c \in External : delivery[c].status \in Retryable}
<1>1. /\ rows # {} /\ retries' = retries + 1 /\ retries < MaxRetries
      /\ delivery' = [c \in Channels |-> IF c \in rows THEN [delivery[c] EXCEPT !.status = "pending"]
                                                       ELSE delivery[c]]
      /\ skewed' = (skewed \/ OpenTransaction)
      /\ UNCHANGED <<attempts, worker, sweep, confirmed, faults>>
      /\ intent' = intent \/ (intent' = "queued" /\ intent # "absent")
  BY DEF ManualRetry
<1>2. rows \subseteq External /\ External \subseteq Channels /\ InApp \notin External
      /\ \A c \in rows : delivery[c].status \in Retryable
  BY DEF External
<1>3. \A c \in Channels : /\ Tries(c)' = Tries(c)
                          /\ c \in rows => delivery'[c].status = "pending"
                          /\ c \notin rows => delivery'[c].status = delivery[c].status
  BY <1>1 DEF RowsOK, Tries
<1>4. RowsOK' /\ WorkersOK' /\ SweepOK'
  <2>1. delivery' \in [Channels -> [status : DeliveryStatuses, tries : Nat]]
    BY <1>1 DEF RowsOK, DeliveryStatuses, ActiveStatuses
  <2>2. retries' \in 0..MaxRetries
    BY <1>1, NotificationAssumption DEF RowsOK
  <2>3. RowsOK'
    BY <1>1, <2>1, <2>2 DEF RowsOK, IntentStatuses, OpenTransaction
  <2>. QED BY <1>1, <2>3 DEF WorkersOK, SweepOK
<1>. HIDE DEF rows
<1>5. Allowed' = Allowed + 1 /\ Allowed \in Nat /\ retries \in Nat
  BY <1>1, AllowedIs DEF Allowed, RowsOK
<1>6. CountsInv'
  <2>1. \A c \in Channels : Tries(c) \in Nat /\ Tries(c) <= Allowed
    BY DEF RowsOK, CountsInv, Tries
  <2>2. \A w \in Workers, c \in Channels :
           worker[w].number[c] \in Nat /\ worker[w].number[c] <= Allowed
    BY DEF WorkersOK, Batch, CountsInv
  <2>. QED BY <1>1, <1>3, <1>5, <2>1, <2>2 DEF CountsInv, Holds
<1>7. BoundedAttempts'
  <2>1. \A m \in Numbers : m \in Nat
    BY DEF Numbers
  <2>. QED BY <1>1, <1>5, <2>1 DEF BoundedAttempts, Allowed
<1>8. AttemptsInv' /\ AtWorkInv'
  BY <1>1, <1>2, <1>3 DEF AttemptsInv, AtWorkInv, Holds, Tried
<1>9. ConfirmedInv'
  BY <1>1, <1>2, <1>3 DEF ConfirmedInv, Tried
<1>10. LocksInv'
  <2>1. \A c \in Channels : delivery[c].status = "processing" => c \notin rows
    BY <1>2 DEF Retryable
  <2>2. sweep.rows \subseteq Channels /\ \A w \in Workers : Committing(w) => worker[w].at \in Channels
    BY AtRow DEF SweepOK, External, Committing
  <2>. QED BY <1>1, <1>3, <2>1, <2>2 DEF LocksInv, Committing
<1>11. AloneInv'
  BY <1>1 DEF AloneInv, OpenTransaction, Committing
<1>12. AgreesInv'
  <2>1. PICK c \in rows : c \in External /\ delivery[c].status # "absent" /\ delivery'[c].status = "pending"
    BY <1>1, <1>2, <1>3 DEF Retryable
  <2>2. ~Settled'
    BY <2>1 DEF Settled, Active, ActiveStatuses
  <2>3. intent' # "absent"
    BY <1>1, <1>2, <2>1 DEF AgreesInv
  <2>4. ~Active(InApp)'
    BY <1>2, <1>3, NotificationAssumption DEF AgreesInv, Active
  <2>. QED BY <2>2, <2>3, <2>4 DEF AgreesInv
<1>. QED BY <1>4, <1>6, <1>7, <1>8, <1>9, <1>10, <1>11, <1>12

\* A worker claims rows that wait.
LEMMA ClaimKeepsInv == ASSUME Inv, NEW w \in Workers, ClaimBatch(w) PROVE Inv'
<1>. USE DEF Inv, Typed
<1>1. PICK claimed \in SUBSET External : Takes(w, claimed)
  BY ClaimIs
<1>2. WorkersOK' /\ \A v \in Workers \ {w} : worker'[v] = worker[v]
  BY ClaimIs DEF Others
<1>3. /\ UNCHANGED <<attempts, sweep, confirmed, retries, faults, skewed>>
      /\ intent' = intent \/ (intent' = "processing" /\ intent # "absent")
      /\ worker[w].at = None /\ worker[w].step = "idle"
  BY AtRow DEF ClaimBatch, Idle
<1>4. /\ \A c \in Channels : /\ Tries(c)' = Tries(c) /\ delivery'[c].tries = Tries(c)
                             /\ c \in claimed => delivery'[c].status = "processing"
                             /\ c \notin claimed => delivery'[c] = delivery[c]
      /\ External \subseteq Channels /\ InApp \notin External
      /\ \A c \in claimed : delivery[c].status \in {"pending", "retry_wait"}
  <2>1. External \subseteq Channels /\ InApp \notin External
    BY DEF External
  <2>2. /\ \A c \in claimed : /\ Tries(c)' = Tries(c) /\ delivery'[c].tries = Tries(c)
                              /\ delivery'[c].status = "processing"
                              /\ delivery[c].status \in {"pending", "retry_wait"}
    <3>. SUFFICES ASSUME NEW c \in claimed
                  PROVE  /\ Tries(c)' = Tries(c) /\ delivery'[c].tries = Tries(c)
                         /\ delivery'[c].status = "processing"
                         /\ delivery[c].status \in {"pending", "retry_wait"}
      OBVIOUS
    <3>1. delivery'[c] = [status |-> "processing", tries |-> delivery[c].tries]
      BY <1>1 DEF Takes, Tries
    <3>2. delivery[c].status \in {"pending", "retry_wait"}
      BY <1>1 DEF Takes
    <3>. QED BY <3>1, <3>2 DEF Tries
  <2>3. \A c \in Channels \ claimed : delivery'[c] = delivery[c] /\ Tries(c)' = Tries(c)
                                       /\ delivery'[c].tries = Tries(c)
    BY <1>1 DEF Takes, Tries
  <2>. QED BY <2>1, <2>2, <2>3
<1>5. /\ worker'[w].todo = claimed /\ worker'[w].at = None /\ worker'[w].step = "idle"
      /\ \A c \in Channels : worker'[w].number[c] = IF c \in claimed THEN Tries(c) + 1 ELSE 0
  BY <1>1 DEF Takes
<1>6. RowsOK' /\ SweepOK'
  <2>1. delivery' \in [Channels -> [status : DeliveryStatuses, tries : Nat]]
    <3>1. DOMAIN delivery' = Channels /\ delivery' = [c \in Channels |-> delivery'[c]]
      BY DEF ClaimBatch
    <3>2. \A c \in Channels : delivery'[c] \in [status : DeliveryStatuses, tries : Nat]
      <4>1. \A c \in Channels : delivery[c] \in [status : DeliveryStatuses, tries : Nat]
        BY DEF RowsOK
      <4>2. \A c \in claimed : delivery'[c] \in [status : DeliveryStatuses, tries : Nat]
        <5>. SUFFICES ASSUME NEW c \in claimed
                      PROVE  delivery'[c] \in [status : DeliveryStatuses, tries : Nat]
          OBVIOUS
        <5>1. delivery'[c] = [status |-> "processing", tries |-> delivery[c].tries]
          BY <1>1 DEF Takes, Tries
        <5>2. delivery[c].tries \in Nat
          BY <1>4, <4>1
        <5>. QED BY <5>1, <5>2 DEF DeliveryStatuses, ActiveStatuses
      <4>3. \A c \in Channels \ claimed : delivery'[c] = delivery[c]
        BY <1>4
      <4>. QED BY <4>1, <4>2, <4>3
    <3>. QED BY <3>1, <3>2
  <2>. QED BY <1>3, <2>1 DEF RowsOK, SweepOK, IntentStatuses
<1>7. CountsInv'
  <2>1. \A c \in claimed : Tries(c) < Allowed
    BY <1>4 DEF CountsInv, Active, ActiveStatuses
  <2>2. \A c \in Channels : Tries(c) \in Nat /\ Tries(c) <= Allowed
    BY DEF RowsOK, CountsInv, Tries
  <2>3. Allowed \in Nat /\ Allowed' = Allowed
    BY <1>3, AllowedIs DEF Allowed
  <2>4. \A c \in Channels : Tries(c)' <= Allowed /\ (Active(c)' \/ delivery'[c].status = "absent" => Tries(c)' < Allowed)
    BY <1>4, <2>1, <2>2 DEF CountsInv, Active
  <2>5. \A c \in Channels : worker'[w].number[c] <= Allowed /\ (Holds(w, c)' => worker'[w].number[c] > 0)
    BY <1>5, <2>1, <2>2, <2>3, NotificationAssumption DEF Holds
  <2>. QED BY <1>2, <2>3, <2>4, <2>5 DEF CountsInv, Holds
<1>8. BoundedAttempts'
  BY <1>3 DEF BoundedAttempts
<1>9. AttemptsInv'
  <2>1. \A c \in Channels : Tries(c) \in Nat
    BY DEF RowsOK, Tries
  <2>2. \A c \in Channels, n \in Numbers :
           /\ n <= Tries(c)' => attempts'[c][n] # "none"
           /\ attempts'[c][n] # "none" => n <= Tries(c)' + 1
    BY <1>3, <1>4 DEF AttemptsInv
  <2>3. \A c \in Channels : Holds(w, c)' => worker'[w].number[c] <= Tries(c)' + 1
    BY <1>4, <1>5, <2>1, NotificationAssumption DEF Holds
  <2>4. \A v \in Workers \ {w}, c \in Channels : Holds(v, c)' => worker'[v].number[c] <= Tries(c)' + 1
    BY <1>2, <1>4 DEF AttemptsInv, Holds
  <2>. QED BY <2>2, <2>3, <2>4 DEF AttemptsInv
<1>10. AtWorkInv' /\ ConfirmedInv'
  <2>1. \A c \in Channels : Tried(c, Tries(c) + 1)' <=> Tried(c, Tries(c) + 1)
    BY <1>3, <1>4 DEF Tried
  <2>2. \A c \in External : delivery'[c].status = "delivered" => delivery[c].status = "delivered"
    BY <1>4
  <2>3. \A c \in External : worker'[w].at # c
    BY <1>5, NotificationAssumption DEF External
  <2>4. AtWorkInv'
    BY <1>2, <1>4, <1>5, <2>1, <2>3 DEF AtWorkInv
  <2>5. ConfirmedInv'
    BY <1>2, <1>3, <1>4, <2>1, <2>2, <2>3 DEF ConfirmedInv
  <2>. QED BY <2>4, <2>5
<1>11. LocksInv'
  <2>1. sweep.rows \subseteq Channels /\ \A v \in Workers : Committing(v) => worker[v].at \in Channels
    BY AtRow DEF SweepOK, External, Committing
  <2>2. \A c \in Channels : delivery[c].status = "processing" => delivery'[c].status = "processing"
    BY <1>4
  <2>3. \A v \in Workers : Committing(v)' => v # w /\ Committing(v) /\ worker'[v] = worker[v]
    BY <1>2, <1>5 DEF Committing
  <2>4. \A c \in sweep'.rows : delivery'[c].status = "processing"
    BY <1>3, <2>1, <2>2 DEF LocksInv
  <2>5. \A v \in Workers : Committing(v)' /\ ~worker'[v].lost =>
           worker'[v].at \notin sweep'.rows /\ delivery'[worker'[v].at].status = "processing"
    BY <1>3, <2>1, <2>2, <2>3 DEF LocksInv
  <2>. QED BY <2>4, <2>5 DEF LocksInv
<1>12. AloneInv'
  <2>1. ASSUME NEW v \in Workers, Committing(v), v # w
        PROVE  Derived(Outcoming(v)') = Derived(Outcoming(v))
    <3>1. worker'[v] = worker[v] /\ worker[v].at \in Channels
      BY <1>2, <2>1, AtRow DEF Committing, External
    <3>2. \A c \in Channels : SameKind(delivery'[c].status, delivery[c].status)
      BY <1>4 DEF SameKind, ActiveStatuses
    <3>3. CASE worker[v].lost
      BY <3>1, <3>2, <3>3, DerivedSame DEF Outcoming
    <3>4. CASE ~worker[v].lost
      <4>1. delivery'[worker[v].at] = delivery[worker[v].at]
        BY <1>4, <2>1, <3>1, <3>4 DEF LocksInv
      <4>2. delivery \in [Channels -> [status : DeliveryStatuses, tries : Nat]]
            /\ delivery' \in [Channels -> [status : DeliveryStatuses, tries : Nat]]
        BY <1>6 DEF RowsOK
      <4>3. \A c \in Channels : SameKind(Outcoming(v)'[c].status, Outcoming(v)[c].status)
        BY <3>1, <3>2, <3>4, <4>1, <4>2 DEF Outcoming, SameKind
      <4>. QED BY <4>3, DerivedSame
    <3>. QED BY <3>3, <3>4
  <2>. QED BY <1>2, <1>3, <1>5, <2>1 DEF AloneInv, Committing
<1>13. AgreesInv'
  <2>1. PICK c \in claimed : TRUE
    BY <1>1 DEF Takes
  <2>2. c \in External /\ delivery[c].status # "absent" /\ delivery'[c].status = "processing"
    BY <1>4, <2>1
  <2>. QED BY <1>2, <1>3, <1>4, <2>2, NotificationAssumption DEF AgreesInv, Settled, Active, ActiveStatuses
<1>. QED BY <1>2, <1>6, <1>7, <1>8, <1>9, <1>10, <1>11, <1>12, <1>13

\* A worker begins an attempt, or ends its batch because the number is taken.
LEMMA StartKeepsInv == ASSUME Inv, NEW w \in Workers, StartAttempt(w) PROVE Inv'
<1>. USE DEF Inv, Typed
<1>1. /\ UNCHANGED <<intent, delivery, sweep, confirmed, retries, faults, skewed>>
      /\ worker[w].at = None
  BY DEF StartAttempt
<1>2. CASE Dropped(w) /\ UNCHANGED attempts
  BY <1>1, <1>2, DropKeepsInv DEF RowsOK
<1>3. CASE ~(Dropped(w) /\ UNCHANGED attempts)
  <2>1. WorkersOK' /\ \A v \in Workers \ {w} : worker'[v] = worker[v]
    BY <1>3, StartIs DEF Others
  <2>2. PICK c \in worker[w].todo :
           /\ Unused(c, worker[w].number[c])
           /\ attempts' = [attempts EXCEPT ![c][worker[w].number[c]] = "started"]
           /\ worker'[w].todo = worker[w].todo \ {c} /\ worker'[w].at = c
           /\ worker'[w].number = worker[w].number
           /\ worker'[w].step # "commit"
           /\ worker'[w].step \in {"send", "record"}
           /\ worker'[w].step = "record" => worker'[w].result = "blocked"
    BY <1>3, StartIs
  <2>. DEFINE n == worker[w].number[c]
  <2>3. c \in External /\ c \in Channels /\ c # None /\ External \subseteq Channels /\ n \in Nat
    BY AtRow, NotificationAssumption DEF Batch, External
  <2>4. n > 0 /\ n <= Tries(c) + 1 /\ n <= Allowed /\ Tries(c) \in Nat
    BY <2>3 DEF CountsInv, AttemptsInv, Holds, RowsOK, Tries
  <2>5. n \in Numbers /\ n = Tries(c) + 1 /\ attempts[c][n] = "none"
    <3>1. n \in Numbers
      BY <2>3, <2>4, AllowedIs, NotificationAssumption DEF Numbers
    <3>2. attempts[c][n] = "none"
      BY <2>2 DEF Unused
    <3>3. ~(n <= Tries(c))
      BY <2>3, <3>1, <3>2 DEF AttemptsInv
    <3>. QED BY <3>1, <3>2, <2>3, <3>3, <2>4
  <2>6. confirmed[c] # 1 /\ \A v \in Workers : worker[v].at # c
    BY <2>3, <2>5 DEF AtWorkInv, ConfirmedInv, Tried
  <2>7. /\ attempts' \in [Channels -> [Numbers -> AttemptStatuses]]
        /\ attempts'[c][n] = "started"
        /\ \A x \in Channels, m \in Numbers : x # c \/ m # n => attempts'[x][m] = attempts[x][m]
    BY <2>2, <2>3, <2>5 DEF RowsOK, AttemptStatuses
  <2>. HIDE DEF n
  <2>8. RowsOK' /\ SweepOK'
    BY <1>1, <2>7 DEF RowsOK, SweepOK
  <2>9. CountsInv'
    BY <1>1, <2>1, <2>2 DEF CountsInv, Allowed, Tries, Active, Holds
  <2>10. BoundedAttempts'
    BY <1>1, <2>3, <2>4, <2>5, <2>7 DEF BoundedAttempts, Allowed
  <2>11. \A x \in Channels, m \in Numbers : attempts[x][m] # "none" => attempts'[x][m] # "none"
    BY <2>7
  <2>12. AttemptsInv'
    <3>1. \A x \in Channels, m \in Numbers :
             /\ m <= Tries(x)' => attempts'[x][m] # "none"
             /\ attempts'[x][m] # "none" => m <= Tries(x)' + 1
      BY <1>1, <2>3, <2>4, <2>5, <2>7 DEF AttemptsInv, Tries
    <3>2. \A v \in Workers, x \in Channels : Holds(v, x)' => worker'[v].number[x] <= Tries(x)' + 1
      BY <1>1, <2>1, <2>2 DEF AttemptsInv, Holds, Tries
    <3>. QED BY <3>1, <3>2 DEF AttemptsInv
  <2>13. AtWorkInv'
    <3>1. ASSUME NEW v \in Workers, NEW x \in External, worker'[v].at = x
          PROVE  worker'[v].number[x] = Tries(x)' + 1 /\ Tried(x, Tries(x) + 1)'
      <4>1. CASE v = w
        BY <1>1, <2>2, <2>5, <2>7, <3>1, <4>1 DEF Tries, Tried, n
      <4>2. CASE v # w
        BY <1>1, <2>1, <2>3, <2>11, <3>1, <4>2 DEF AtWorkInv, Tries, Tried
      <4>. QED BY <4>1, <4>2
    <3>2. ASSUME NEW u \in Workers, NEW v \in Workers, worker'[u].at = worker'[v].at, worker'[u].at # None
          PROVE  u = v
      BY <2>1, <2>2, <2>6, <3>2 DEF AtWorkInv
    <3>. QED BY <3>1, <3>2 DEF AtWorkInv
  <2>14. ConfirmedInv'
    <3>1. \A x \in External : Tried(x, Tries(x) + 1) => Tried(x, Tries(x) + 1)'
      BY <1>1, <2>3, <2>11 DEF Tried, Tries
    <3>2. ASSUME NEW v \in Workers, NEW x \in External, worker'[v].at = x
          PROVE  confirmed'[x] = 1 <=>
                   worker'[v].step \in {"record", "commit"} /\ worker'[v].result = "delivered"
      <4>1. CASE v = w
        BY <1>1, <2>2, <2>6, <3>2, <4>1
      <4>2. CASE v # w
        BY <1>1, <2>1, <3>2, <4>2 DEF ConfirmedInv
      <4>. QED BY <4>1, <4>2
    <3>. QED BY <1>1, <3>1, <3>2 DEF ConfirmedInv
  <2>15. LocksInv' /\ AloneInv'
    BY <1>1, <2>1, <2>2 DEF LocksInv, AloneInv, Committing, Outcoming
  <2>16. AgreesInv'
    BY <1>1, <2>1, <2>2 DEF AgreesInv, Settled, Active, Idle
  <2>. QED BY <2>1, <2>8, <2>9, <2>10, <2>12, <2>13, <2>14, <2>15, <2>16
<1>. QED BY <1>2, <1>3

\* The provider answers.
LEMMA SendKeepsInv == ASSUME Inv, NEW w \in Workers, Send(w) PROVE Inv'
<1>. USE DEF Inv, Typed
<1>. DEFINE c == worker[w].at
<1>1. /\ UNCHANGED <<intent, delivery, attempts, sweep, retries, faults, skewed>>
      /\ worker[w].step = "send"
  BY DEF Send
<1>2. WorkersOK' /\ \A v \in Workers \ {w} : worker'[v] = worker[v]
  BY SendIs DEF Others
<1>3. PICK answer \in Answers :
         /\ worker'[w].step = "record" /\ worker'[w].result = answer
         /\ confirmed' = [confirmed EXCEPT ![c] = IF answer = "delivered" THEN @ + 1 ELSE @]
  BY SendIs
<1>4. /\ worker'[w].todo = worker[w].todo /\ worker'[w].at = c
      /\ worker'[w].number = worker[w].number
  BY SendIs
<1>5. c \in External /\ c \in Channels /\ External \subseteq Channels
  BY <1>1, AtRow
<1>6. confirmed[c] = 0
  <2>1. ~(confirmed[c] = 1)
    BY <1>1, <1>5 DEF ConfirmedInv
  <2>2. confirmed[c] \in Nat /\ confirmed[c] <= 1
    BY <1>5 DEF ConfirmedInv, RowsOK
  <2>. QED BY <2>1, <2>2
<1>7. /\ confirmed' \in [Channels -> Nat]
      /\ confirmed'[c] = IF answer = "delivered" THEN 1 ELSE 0
      /\ \A x \in Channels \ {c} : confirmed'[x] = confirmed[x]
  BY <1>3, <1>5, <1>6 DEF RowsOK
<1>8. \A v \in Workers \ {w} : worker[v].at # c
  BY <1>5, NotificationAssumption DEF AtWorkInv, External
<1>. HIDE DEF c
<1>9. RowsOK' /\ SweepOK'
  BY <1>1, <1>7 DEF RowsOK, SweepOK
<1>10. \A v \in Workers : worker'[v].at = worker[v].at /\ worker'[v].todo = worker[v].todo
                          /\ worker'[v].number = worker[v].number
  BY <1>2, <1>4 DEF c
<1>11. CountsInv' /\ BoundedAttempts' /\ AttemptsInv' /\ AtWorkInv'
  BY <1>1, <1>10 DEF CountsInv, BoundedAttempts, AttemptsInv, AtWorkInv,
                     Allowed, Tries, Tried, Active, Holds
<1>12. ConfirmedInv'
  <2>1. Tried(c, Tries(c) + 1)
    BY <1>5 DEF AtWorkInv, c
  <2>2. \A x \in External : confirmed'[x] = 1 => Tried(x, Tries(x) + 1)'
    BY <1>1, <1>5, <1>7, <2>1 DEF ConfirmedInv, Tried, Tries
  <2>3. delivery[c].status # "delivered"
    BY <1>5, <1>6 DEF ConfirmedInv
  <2>4. \A x \in External : delivery'[x].status = "delivered" => confirmed'[x] = 1
    BY <1>1, <1>5, <1>7, <2>3 DEF ConfirmedInv
  <2>5. \A x \in Channels : confirmed'[x] <= 1
    BY <1>5, <1>7 DEF ConfirmedInv
  <2>6. ASSUME NEW v \in Workers, NEW x \in External, worker'[v].at = x
        PROVE  confirmed'[x] = 1 <=>
                 worker'[v].step \in {"record", "commit"} /\ worker'[v].result = "delivered"
    <3>1. CASE v = w
      BY <1>3, <1>4, <1>7, <2>6, <3>1
    <3>2. CASE v # w
      BY <1>2, <1>5, <1>7, <1>8, <2>6, <3>2 DEF ConfirmedInv
    <3>. QED BY <3>1, <3>2
  <2>. QED BY <2>2, <2>4, <2>5, <2>6 DEF ConfirmedInv
<1>13. LocksInv' /\ AloneInv'
  BY <1>1, <1>2, <1>3 DEF LocksInv, AloneInv, Committing, Outcoming
<1>14. AgreesInv'
  BY <1>1, <1>10 DEF AgreesInv, Settled, Active, Idle
<1>. QED BY <1>2, <1>9, <1>11, <1>12, <1>13, <1>14

\* The transaction of a record opens: nothing is written yet.
LEMMA RecordKeepsInv == ASSUME Inv, NEW w \in Workers, Record(w) PROVE Inv'
<1>. USE DEF Inv, Typed
<1>1. /\ UNCHANGED <<intent, delivery, attempts, sweep, confirmed, retries, faults>>
      /\ worker[w].step = "record" /\ worker[w].at \notin sweep.rows
      /\ skewed' = (skewed \/ OpenTransaction)
  BY DEF Record
<1>2. WorkersOK' /\ \A v \in Workers \ {w} : worker'[v] = worker[v]
  BY RecordOpens DEF Others
<1>3. /\ worker'[w].step = "commit"
      /\ worker'[w].lost = (delivery[worker[w].at].status # "processing")
      /\ worker'[w].todo = worker[w].todo /\ worker'[w].at = worker[w].at
      /\ worker'[w].number = worker[w].number /\ worker'[w].result = worker[w].result
      /\ worker'[w].read = Derived(Outcoming(w)')
  BY RecordOpens
<1>4. \A v \in Workers : worker'[v].at = worker[v].at /\ worker'[v].todo = worker[v].todo
                         /\ worker'[v].number = worker[v].number
                         /\ worker'[v].result = worker[v].result
                         /\ (worker'[v].step \in {"record", "commit"} <=>
                               worker[v].step \in {"record", "commit"})
  BY <1>1, <1>2, <1>3
<1>5. RowsOK' /\ SweepOK'
  BY <1>1 DEF RowsOK, SweepOK, OpenTransaction
<1>6. CountsInv' /\ BoundedAttempts' /\ AttemptsInv' /\ AtWorkInv'
  BY <1>1, <1>4 DEF CountsInv, BoundedAttempts, AttemptsInv, AtWorkInv,
                    Allowed, Tries, Tried, Active, Holds
<1>7. ConfirmedInv'
  BY <1>1, <1>4 DEF ConfirmedInv, Tried, Tries
<1>8. LocksInv'
  <2>1. ASSUME NEW v \in Workers, Committing(v)', ~worker'[v].lost
        PROVE  worker'[v].at \notin sweep'.rows /\ delivery'[worker'[v].at].status = "processing"
    <3>1. CASE v = w
      BY <1>1, <1>3, <2>1, <3>1
    <3>2. CASE v # w
      BY <1>1, <1>2, <2>1, <3>2 DEF LocksInv, Committing
    <3>. QED BY <3>1, <3>2
  <2>. QED BY <1>1, <2>1 DEF LocksInv
<1>9. AloneInv'
  <2>. SUFFICES ASSUME ~skewed'
                PROVE  /\ \A u, v \in Workers : Committing(u)' /\ Committing(v)' => u = v
                       /\ \A v \in Workers : Committing(v)' =>
                             sweep'.rows = {} /\ worker'[v].read = Derived(Outcoming(v)')
    BY DEF AloneInv
  <2>1. sweep.rows = {} /\ \A v \in Workers : ~Committing(v)
    BY <1>1 DEF OpenTransaction, Committing
  <2>2. \A v \in Workers : Committing(v)' => v = w
    BY <1>2, <2>1 DEF Committing
  <2>. QED BY <1>1, <2>1, <2>2, <1>3
<1>10. AgreesInv'
  BY <1>1, <1>4 DEF AgreesInv, Settled, Active, Idle, OpenTransaction
<1>. QED BY <1>2, <1>5, <1>6, <1>7, <1>8, <1>9, <1>10

\* The recovery's transaction opens.
LEMMA RecoverKeepsInv == ASSUME Inv, Recover PROVE Inv'
<1>. USE DEF Inv, Typed
<1>1. PICK rows \in SUBSET {c \in External : Stale(c)} :
         /\ rows # {}
         /\ IF \E c \in rows, w \in Workers : Holds(w, c) THEN Fault ELSE UNCHANGED faults
         /\ sweep' = [rows |-> rows, read |-> Derived(RecoveredRows(rows))]
  BY DEF Recover
<1>2. /\ UNCHANGED <<intent, delivery, attempts, worker, confirmed, retries>>
      /\ skewed' = (skewed \/ OpenTransaction)
  BY DEF Recover
<1>3. faults' \in 0..MaxFaults
  BY <1>1, NotificationAssumption DEF Fault, RowsOK
<1>4. /\ sweep'.rows = rows /\ rows # {} /\ sweep'.read # "absent"
      /\ sweep' \in [rows : SUBSET External, read : IntentStatuses]
  <2>1. Derived(RecoveredRows(rows)) \in IntentStatuses \ {"absent"}
    BY DerivedType
  <2>. QED BY <1>1, <2>1
<1>5. RowsOK' /\ SweepOK' /\ WorkersOK'
  BY <1>2, <1>3, <1>4 DEF RowsOK, SweepOK, WorkersOK, OpenTransaction
<1>6. CountsInv' /\ BoundedAttempts' /\ AttemptsInv' /\ AtWorkInv' /\ ConfirmedInv'
  BY <1>2 DEF CountsInv, BoundedAttempts, AttemptsInv, AtWorkInv, ConfirmedInv,
              Allowed, Tries, Tried, Active, Holds
<1>7. LocksInv'
  BY <1>1, <1>2, <1>4 DEF LocksInv, Committing, Stale, Locked
<1>8. AloneInv'
  BY <1>2 DEF AloneInv, Committing, OpenTransaction
<1>9. AgreesInv'
  BY <1>2 DEF AgreesInv, Settled, Active, Idle
<1>. QED BY <1>5, <1>6, <1>7, <1>8, <1>9

\* A worker dies.
LEMMA CrashKeepsInv == ASSUME Inv, NEW w \in Workers, WorkerCrash(w) PROVE Inv'
<1>1. faults' \in 0..MaxFaults
  BY NotificationAssumption DEF Inv, Typed, RowsOK, WorkerCrash, Fault
<1>. QED BY <1>1, DropKeepsInv DEF WorkerCrash

\* The transaction of a record is committed: the row has its outcome, the attempt its end.
LEMMA CommitKeepsInv == ASSUME Inv, NEW w \in Workers, Commit(w) PROVE Inv'
<1>. USE DEF Inv, Typed
<1>c. PICK c : c = worker[w].at
  OBVIOUS
<1>n. PICK n : n = worker[w].number[c]
  OBVIOUS
<1>1. UNCHANGED <<sweep, confirmed, retries, faults, skewed>> /\ Committing(w)
  BY DEF Commit, Committing
<1>2. CASE Refused(worker[w].read)
  BY <1>1, <1>2, DropKeepsInv DEF Commit, RowsOK
<1>3. CASE ~Refused(worker[w].read)
  <2>1. WorkersOK' /\ \A v \in Workers \ {w} : worker'[v] = worker[v]
    BY <1>3, CommitIs DEF Others
  <2>2. /\ worker'[w].step = "idle" /\ worker'[w].at = None
        /\ worker'[w].todo = worker[w].todo
        /\ worker'[w].number = worker[w].number \/ worker'[w] = NoWork
        /\ delivery' = Outcoming(w) /\ intent' = worker[w].read
    BY <1>3, CommitIs
  <2>3. /\ c \in External /\ c \in Channels /\ c # None /\ External \subseteq Channels
        /\ InApp \notin External /\ worker[w].result \in Answers
        /\ worker[w].read \in IntentStatuses \ {"absent"}
    BY <1>c, <1>1, AtRow DEF Committing, WorkersOK, External, Batch
  <2>4. n = Tries(c) + 1 /\ n \in Numbers /\ Tries(c) \in Nat /\ attempts[c][n] # "none"
        /\ \A v \in Workers \ {w} : worker[v].at # c
    BY <1>c, <1>n, <2>3 DEF AtWorkInv, Tried, RowsOK, Tries
  <2>5. n <= Allowed
    BY <1>n, <2>3, <2>4 DEF CountsInv
  <2>6. attempts' = [attempts EXCEPT ![c][n] = Finished(attempts[c][n])]
    BY <1>c, <1>n, <1>3 DEF Commit
  <2>7. /\ attempts' \in [Channels -> [Numbers -> AttemptStatuses]]
        /\ \A x \in Channels, m \in Numbers : attempts'[x][m] # "none" <=> attempts[x][m] # "none"
    BY <2>3, <2>4, <2>6 DEF RowsOK, AttemptStatuses, Finished
  \* What becomes of the rows: an attempt is counted unless it delivered, or the row is lost.
  <2>8. /\ \A x \in Channels \ {c} : delivery'[x] = delivery[x]
        /\ delivery'[c] \in [status : DeliveryStatuses, tries : Nat]
        /\ \/ delivery'[c] = delivery[c] /\ worker[w].lost
           \/ /\ ~worker[w].lost
              /\ \/ /\ delivery'[c].status = "delivered" /\ delivery'[c].tries = Tries(c)
                    /\ worker[w].result = "delivered"
                 \/ /\ delivery'[c].status \in {"blocked", "failed", "dead_lettered", "retry_wait"}
                    /\ delivery'[c].tries = n
                    /\ worker[w].result # "delivered"
                    /\ delivery'[c].status = "retry_wait" => n < MaxAttempts
        /\ delivery' \in [Channels -> [status : DeliveryStatuses, tries : Nat]]
    <3>1. delivery \in [Channels -> [status : DeliveryStatuses, tries : Nat]]
      BY DEF RowsOK
    <3>2. CASE worker[w].lost
      BY <2>2, <2>3, <3>1, <3>2 DEF Outcoming
    <3>3. CASE ~worker[w].lost
      <4>. DEFINE row == Recorded(delivery[c], worker[w].result, n)
      <4>1. delivery' = [delivery EXCEPT ![c] = row]
        BY <1>c, <1>n, <2>2, <3>3 DEF Outcoming
      <4>2. n \in Nat /\ MaxAttempts \in Nat /\ (~Exhausted(n) => n < MaxAttempts)
        BY <2>4, NotificationAssumption DEF Exhausted
      <4>3. CASE worker[w].result = "delivered"
        <5>1. row.status = "delivered" /\ row.tries = Tries(c)
              /\ row \in [status : DeliveryStatuses, tries : Nat]
          BY <2>3, <3>1, <4>3 DEF Recorded, Outcome, Tries, DeliveryStatuses
        <5>. QED BY <3>1, <4>1, <5>1, <2>3, <3>3, <4>3
      <4>4. CASE worker[w].result # "delivered"
        <5>1. row = [status |-> Outcome(worker[w].result, n), tries |-> n]
          BY <4>4 DEF Recorded
        <5>2. /\ Outcome(worker[w].result, n) \in {"blocked", "failed", "dead_lettered", "retry_wait"}
              /\ Outcome(worker[w].result, n) = "retry_wait" => n < MaxAttempts
          BY <2>3, <4>2, <4>4 DEF Outcome, Answers
        <5>3. row \in [status : DeliveryStatuses, tries : Nat]
          BY <4>2, <5>1, <5>2 DEF DeliveryStatuses, ActiveStatuses
        <5>4. delivery'[c] = row /\ \A x \in Channels \ {c} : delivery'[x] = delivery[x]
          BY <2>3, <3>1, <4>1
        <5>5. delivery' \in [Channels -> [status : DeliveryStatuses, tries : Nat]]
          BY <2>3, <3>1, <4>1, <5>3
        <5>6. row.status = Outcome(worker[w].result, n) /\ row.tries = n
          BY <5>1
        <5>. HIDE DEF row
        <5>. QED BY <5>2, <3>3, <5>3, <4>4, <5>4, <5>5, <5>6
      <4>. QED BY <4>3, <4>4
    <3>. QED BY <3>2, <3>3
  <2>9. /\ Tries(c)' \in {Tries(c), Tries(c) + 1}
        /\ \A x \in Channels \ {c} : Tries(x)' = Tries(x) /\ delivery'[x].status = delivery[x].status
    BY <2>4, <2>8 DEF Tries
  <2>10. RowsOK' /\ SweepOK'
    BY <1>1, <2>2, <2>3, <2>7, <2>8 DEF RowsOK, SweepOK
  <2>11. \A v \in Workers, x \in Channels :
            /\ Holds(v, x)' /\ x # None => Holds(v, x) /\ worker'[v].number = worker[v].number
            /\ worker'[v].number[x] = worker[v].number[x] \/ worker'[v].number[x] = 0
    <3>1. ASSUME NEW x \in Channels
          PROVE  /\ Holds(w, x)' /\ x # None => Holds(w, x) /\ worker'[w].number = worker[w].number
                 /\ worker'[w].number[x] = worker[w].number[x] \/ worker'[w].number[x] = 0
      BY <2>2 DEF Holds, NoWork
    <3>. QED BY <2>1, <3>1 DEF Holds
  <2>12. CountsInv'
    <3>1. Allowed' = Allowed /\ Allowed \in Nat /\ MaxAttempts \in Nat /\ MaxAttempts <= Allowed
      BY <1>1, AllowedIs DEF Allowed
    <3>2. ASSUME NEW x \in Channels
          PROVE  Tries(x)' <= Allowed /\ (Active(x)' \/ delivery'[x].status = "absent" => Tries(x)' < Allowed)
      <4>1. CASE x # c
        BY <2>9, <4>1 DEF CountsInv, Active
      <4>2. CASE x = c
        BY <2>3, <2>4, <2>5, <2>8, <3>1, <4>2 DEF CountsInv, Active, ActiveStatuses, Tries
      <4>. QED BY <4>1, <4>2
    <3>3. ASSUME NEW v \in Workers, NEW x \in Channels
          PROVE  worker'[v].number[x] <= Allowed /\ (Holds(v, x)' => worker'[v].number[x] > 0)
      BY <2>11, <3>1, NotificationAssumption DEF CountsInv
    <3>. QED BY <3>1, <3>2, <3>3 DEF CountsInv
  <2>13. BoundedAttempts'
    BY <1>1, <2>7 DEF BoundedAttempts
  <2>14. AttemptsInv'
    <3>1. \A x \in Channels, m \in Numbers :
             /\ m <= Tries(x)' => attempts'[x][m] # "none"
             /\ attempts'[x][m] # "none" => m <= Tries(x)' + 1
      <4>1. \A m \in Numbers : m \in Nat
        BY DEF Numbers
      <4>2. ASSUME NEW x \in Channels, NEW m \in Numbers
            PROVE  /\ m <= Tries(x)' => attempts'[x][m] # "none"
                   /\ attempts'[x][m] # "none" => m <= Tries(x)' + 1
        <5>1. CASE x # c
          BY <2>7, <2>9, <5>1 DEF AttemptsInv
        <5>2. CASE x = c
          <6>1. /\ m <= Tries(c) => attempts[c][m] # "none"
                /\ attempts[c][m] # "none" => m <= Tries(c) + 1
            BY <2>3 DEF AttemptsInv
          <6>2. m \in Nat /\ (attempts'[c][m] # "none" <=> attempts[c][m] # "none")
            BY <2>3, <2>7, <4>1
          <6>. QED BY <6>1, <5>2, <6>2, <2>4, <2>9
        <5>. QED BY <5>1, <5>2
      <4>. QED BY <4>2
    <3>2. ASSUME NEW v \in Workers, NEW x \in Channels, Holds(v, x)'
          PROVE  worker'[v].number[x] <= Tries(x)' + 1
      <4>1. worker'[v].number[x] = worker[v].number[x] /\ Holds(v, x) /\ worker[v].number[x] \in Nat
        BY <2>11, <3>2, NotificationAssumption DEF WorkersOK, Batch
      <4>2. worker[v].number[x] <= Tries(x) + 1
        BY <4>1 DEF AttemptsInv
      <4>. QED BY <4>1, <4>2, <2>4, <2>9
    <3>. QED BY <3>1, <3>2 DEF AttemptsInv
  <2>15. \A v \in Workers, x \in External : worker'[v].at = x =>
            /\ v # w /\ x # c /\ worker[v].at = x /\ worker'[v] = worker[v]
            /\ Tries(x)' = Tries(x) /\ delivery'[x].status = delivery[x].status
    <3>1. \A x \in External : x # None /\ x \in Channels
      BY <2>3, NotificationAssumption
    <3>. QED BY <2>1, <3>1, <2>2, <2>4, <2>9
  <2>16. AtWorkInv'
    <3>1. \A u, v \in Workers : worker'[u].at = worker'[v].at /\ worker'[u].at # None => u = v
      BY <2>1, <2>2 DEF AtWorkInv
    <3>. QED BY <2>3, <2>7, <2>15, <3>1 DEF AtWorkInv, Tried
  <2>17. ConfirmedInv'
    <3>1. confirmed[c] = 1 <=> worker[w].result = "delivered"
      BY <1>c, <1>1, <2>3 DEF ConfirmedInv, Committing
    <3>2. ASSUME NEW x \in External
          PROVE  /\ confirmed'[x] = 1 => Tried(x, Tries(x) + 1)'
                 /\ delivery'[x].status = "delivered" => confirmed'[x] = 1
      <4>1. CASE x # c
        BY <1>1, <2>3, <2>7, <2>9, <4>1 DEF ConfirmedInv, Tried
      <4>2. CASE x = c
        <5>1. confirmed[c] = 1 => Tries(c)' = Tries(c)
          BY <2>8, <3>1 DEF Tries
        <5>2. delivery'[c].status = "delivered" => confirmed[c] = 1
          BY <2>3, <2>8, <3>1 DEF ConfirmedInv
        <5>. QED BY <1>1, <2>3, <2>7, <4>2, <5>1, <5>2 DEF ConfirmedInv, Tried
      <4>. QED BY <4>1, <4>2
    <3>. QED BY <1>1, <2>15, <3>2 DEF ConfirmedInv
  <2>18. LocksInv'
    <3>1. \A x \in sweep.rows : delivery'[x].status = "processing"
      <4>1. sweep.rows \subseteq Channels
        BY <2>3 DEF SweepOK
      <4>2. ~worker[w].lost => c \notin sweep.rows
        BY <1>c, <1>1 DEF LocksInv
      <4>. QED BY <2>8, <4>1, <4>2 DEF LocksInv
    <3>2. ASSUME NEW v \in Workers, Committing(v)', ~worker'[v].lost
          PROVE  worker'[v].at \notin sweep.rows /\ delivery'[worker'[v].at].status = "processing"
      <4>1. v # w /\ worker'[v] = worker[v] /\ Committing(v)
        BY <2>1, <2>2, <3>2 DEF Committing
      <4>2. worker[v].at \in Channels /\ worker[v].at # c
        BY <2>3, <2>4, <4>1, AtRow DEF Committing
      <4>. QED BY <2>8, <3>2, <4>1, <4>2 DEF LocksInv
    <3>. QED BY <1>1, <3>1, <3>2 DEF LocksInv
  <2>19. AloneInv'
    <3>1. ~skewed => \A v \in Workers : ~Committing(v)'
      BY <1>1, <2>1, <2>2 DEF AloneInv, Committing
    <3>. QED BY <1>1, <3>1 DEF AloneInv
  <2>20. AgreesInv'
    <3>1. ~skewed => intent' = Derived(delivery')
      BY <1>1, <2>2 DEF AloneInv
    <3>2. Derived(delivery)' = Derived(delivery')
      BY DEF Derived, ActiveStatuses
    <3>3. ~Active(InApp)'
      BY <2>3, <2>8, NotificationAssumption DEF AgreesInv, Active
    <3>. QED BY <1>1, <2>2, <2>3, <3>1, <3>2, <3>3 DEF AgreesInv
  <2>. QED BY <2>1, <2>10, <2>12, <2>13, <2>14, <2>16, <2>17, <2>18, <2>19, <2>20
<1>. QED BY <1>2, <1>3

\* The recovery's transaction is committed: its rows wait for another attempt.
LEMMA CommitRecoveryKeepsInv == ASSUME Inv, CommitRecovery PROVE Inv'
<1>. USE DEF Inv, Typed
<1>1. /\ UNCHANGED <<worker, confirmed, retries, faults, skewed>>
      /\ sweep # NoSweep /\ sweep' = NoSweep
      /\ External \subseteq Channels /\ InApp \notin External
  BY DEF CommitRecovery, External
<1>2. WorkersOK' /\ SweepOK' /\ sweep'.rows = {} /\ sweep.rows # {} /\ sweep.read # "absent"
      /\ sweep.rows \subseteq External /\ sweep.read \in IntentStatuses
  BY <1>1 DEF WorkersOK, SweepOK, NoSweep, IntentStatuses
<1>3. CASE Refused(sweep.read)
  <2>1. UNCHANGED <<intent, delivery, attempts>>
    BY <1>3 DEF CommitRecovery
  <2>2. /\ RowsOK' /\ CountsInv' /\ BoundedAttempts' /\ AttemptsInv'
        /\ AtWorkInv' /\ ConfirmedInv'
    BY <1>1, <2>1 DEF RowsOK, CountsInv, BoundedAttempts, AttemptsInv, AtWorkInv, ConfirmedInv,
                      Allowed, Tries, Tried, Active, Holds
  <2>3. LocksInv' /\ AloneInv'
    BY <1>1, <1>2, <2>1 DEF LocksInv, AloneInv, Committing, Outcoming
  <2>4. AgreesInv'
    BY <1>1, <2>1 DEF AgreesInv, Settled, Active, Idle
  <2>. QED BY <1>2, <2>2, <2>3, <2>4
<1>4. CASE ~Refused(sweep.read)
  <2>1. /\ delivery' = RecoveredRows(sweep.rows)
        /\ attempts' = [c \in Channels |-> [n \in Numbers |->
                          IF c \in sweep.rows THEN Finished(attempts[c][n]) ELSE attempts[c][n]]]
        /\ intent' = sweep.read
    BY <1>4 DEF CommitRecovery
  <2>2. /\ delivery' \in [Channels -> [status : DeliveryStatuses, tries : Nat]]
        /\ \A c \in Channels : /\ delivery'[c].tries = delivery[c].tries
                               /\ c \in sweep.rows => delivery'[c].status = "retry_wait"
                               /\ c \notin sweep.rows => delivery'[c] = delivery[c]
    BY <2>1 DEF RecoveredRows, RecoveredRow, RowsOK, DeliveryStatuses, ActiveStatuses
  <2>3. /\ attempts' \in [Channels -> [Numbers -> AttemptStatuses]]
        /\ \A c \in Channels, n \in Numbers : attempts'[c][n] # "none" <=> attempts[c][n] # "none"
    BY <2>1 DEF RowsOK, AttemptStatuses, Finished
  <2>4. /\ \A c \in Channels : Tries(c)' = Tries(c) /\ (Active(c)' <=> Active(c))
        /\ \A c \in Channels : delivery'[c].status = "absent" <=> delivery[c].status = "absent"
        /\ \A c \in Channels : delivery'[c].status = "delivered" <=> delivery[c].status = "delivered"
    BY <1>2, <2>2 DEF Tries, Active, LocksInv, ActiveStatuses
  <2>5. RowsOK'
    BY <1>1, <1>2, <2>1, <2>2, <2>3 DEF RowsOK
  <2>6. CountsInv' /\ BoundedAttempts'
    BY <1>1, <2>3, <2>4 DEF CountsInv, BoundedAttempts, Allowed, Holds
  <2>7. AttemptsInv'
    BY <1>1, <2>3, <2>4 DEF AttemptsInv, Holds
  <2>8. AtWorkInv'
    BY <1>1, <2>3, <2>4 DEF AtWorkInv, Tried
  <2>9. ConfirmedInv'
    BY <1>1, <2>3, <2>4 DEF ConfirmedInv, Tried
  <2>10. LocksInv'
    <3>1. ASSUME NEW w \in Workers, Committing(w)', ~worker'[w].lost
          PROVE  delivery'[worker'[w].at].status = "processing"
      <4>1. worker[w].at \in Channels /\ worker[w].at \notin sweep.rows
            /\ delivery[worker[w].at].status = "processing"
        BY <1>1, <3>1, AtRow DEF LocksInv, Committing
      <4>. QED BY <1>1, <4>1, <2>2
    <3>. QED BY <1>2, <3>1 DEF LocksInv
  <2>11. AloneInv'
    BY <1>1, <1>2 DEF AloneInv, Committing
  <2>12. AgreesInv'
    <3>1. PICK c \in sweep.rows : c \in External /\ c \in Channels
      BY <1>1, <1>2
    <3>2. Active(c)'
      BY <2>2, <3>1 DEF Active, ActiveStatuses
    <3>3. ~Active(InApp)'
      BY <2>4, NotificationAssumption DEF AgreesInv
    <3>. QED BY <1>2, <2>1, <3>1, <3>2, <3>3 DEF AgreesInv, Settled
  <2>. QED BY <1>2, <2>5, <2>6, <2>7, <2>8, <2>9, <2>10, <2>11, <2>12
<1>. QED BY <1>3, <1>4

\* The initial state.
LEMMA InitInv == ASSUME Init PROVE Inv
<1>. USE DEF Init
<1>1. /\ \A c \in Channels : delivery[c].status = "absent" /\ Tries(c) = 0 /\ confirmed[c] = 0
      /\ \A c \in Channels, n \in Numbers : attempts[c][n] = "none"
      /\ \A w \in Workers : worker[w] = NoWork
      /\ sweep.rows = {}
  BY DEF Tries, NoSweep
<1>2. RowsOK
  <2>1. MaxRetries \in Nat /\ MaxFaults \in Nat
    BY NotificationAssumption
  <2>2. 0 \in 0..MaxRetries /\ 0 \in 0..MaxFaults
    BY <2>1
  <2>3. delivery \in [Channels -> [status : DeliveryStatuses, tries : Nat]]
    BY DEF DeliveryStatuses
  <2>4. attempts \in [Channels -> [Numbers -> AttemptStatuses]]
    BY DEF AttemptStatuses
  <2>. QED BY <2>2, <2>3, <2>4 DEF RowsOK, IntentStatuses
<1>3. NoWork \in Batch /\ NoWork.at = None /\ NoWork.step = "idle" /\ NoWork.todo = {}
      /\ \A c \in Channels : NoWork.number[c] = 0
  BY DEF NoWork, Batch, External, Results, IntentStatuses
<1>4. WorkersOK /\ SweepOK
  BY <1>1, <1>3 DEF WorkersOK, SweepOK, NoSweep, IntentStatuses
<1>5. CountsInv /\ BoundedAttempts
  <2>1. CountsInv
    BY <1>1, <1>2, <1>3, AllowedIs, NotificationAssumption DEF CountsInv, Holds
  <2>2. BoundedAttempts
    BY <1>1 DEF BoundedAttempts
  <2>. QED BY <2>1, <2>2
<1>6. AttemptsInv
  BY <1>1, <1>3, NotificationAssumption DEF AttemptsInv, Holds, Numbers
<1>7. AtWorkInv /\ ConfirmedInv
  BY <1>1, <1>3, NotificationAssumption DEF AtWorkInv, ConfirmedInv, External
<1>8. LocksInv /\ AloneInv
  BY <1>1, <1>3 DEF LocksInv, AloneInv, Committing
<1>9. AgreesInv
  BY <1>1, <1>3, NotificationAssumption DEF AgreesInv, Settled, Active, ActiveStatuses, Idle, External
<1>. QED BY <1>2, <1>4, <1>5, <1>6, <1>7, <1>8, <1>9 DEF Inv, Typed

\* Every step keeps it.
LEMMA NextInv == ASSUME Inv, [Next]_vars PROVE Inv'
<1>1. CASE Enqueue
  BY <1>1, EnqueueKeepsInv
<1>2. CASE ManualRetry
  BY <1>2, RetryKeepsInv
<1>3. ASSUME NEW w \in Workers, WorkerStep(w) \/ WorkerCrash(w) PROVE Inv'
  BY <1>3, ClaimKeepsInv, StartKeepsInv, SendKeepsInv, RecordKeepsInv, CommitKeepsInv, CrashKeepsInv
     DEF WorkerStep
<1>4. CASE Recover \/ CommitRecovery
  BY <1>4, RecoverKeepsInv, CommitRecoveryKeepsInv
<1>5. CASE UNCHANGED vars
  <2>1. Typed'
    BY <1>5 DEF vars, Inv, Typed, RowsOK, WorkersOK, SweepOK
  <2>2. CountsInv' /\ BoundedAttempts' /\ AttemptsInv'
    BY <1>5 DEF vars, Inv, CountsInv, BoundedAttempts, AttemptsInv, Allowed, Tries, Active, Holds
  <2>3. AtWorkInv' /\ ConfirmedInv'
    BY <1>5 DEF vars, Inv, AtWorkInv, ConfirmedInv, Tries, Tried
  <2>4. LocksInv' /\ AloneInv'
    BY <1>5 DEF vars, Inv, LocksInv, AloneInv, Committing, Outcoming
  <2>5. AgreesInv'
    BY <1>5 DEF vars, Inv, AgreesInv, Settled, Active, Idle
  <2>. QED BY <2>1, <2>2, <2>3, <2>4, <2>5 DEF Inv
<1>. QED BY <1>1, <1>2, <1>3, <1>4, <1>5 DEF Next

\* The strengthened invariant holds: the deliveries' numbers, the attempts that were started,
\* the workers at a row, what the provider confirmed and the open transactions belong together.
THEOREM Invariant == Spec => []Inv
<1>1. Init => Inv
  BY InitInv
<1>2. Inv /\ [Next]_vars => Inv'
  BY NextInv
<1>. QED BY <1>1, <1>2, PTL DEF Spec

-----------------------------------------------------------------------------
(* What follows from the invariant. *)

\* The state of the notification has the types it should have: no counter passes the limit.
THEOREM TypeCorrect == Spec => []TypeOK
<1>1. Inv => TypeOK
  <2>. SUFFICES ASSUME Inv PROVE TypeOK
    OBVIOUS
  <2>. USE DEF Inv, Typed
  <2>. DEFINE M == MaxAttempts + MaxRetries
  <2>1. M \in Nat /\ M >= 1 /\ Allowed \in Nat /\ Allowed <= M
    BY AllowedIs
  <2>. HIDE DEF M
  <2>2. delivery \in [Channels -> [status : DeliveryStatuses, tries : 0..M]]
    <3>1. \A c \in Channels : delivery[c] \in [status : DeliveryStatuses, tries : Nat] /\ delivery[c].tries <= M
      BY <2>1 DEF RowsOK, CountsInv, Tries
    <3>2. \A c \in Channels : delivery[c] \in [status : DeliveryStatuses, tries : 0..M]
      BY <2>1, <3>1
    <3>. QED BY <3>2 DEF RowsOK
  <2>3. confirmed \in [Channels -> 0..M]
    BY <2>1 DEF RowsOK, ConfirmedInv
  <2>4. ASSUME NEW w \in Workers
        PROVE  worker[w] \in [todo : SUBSET External, at : External \cup {None},
                              number : [Channels -> 0..M],
                              step : {"idle", "send", "record", "commit"},
                              result : Results, lost : BOOLEAN, read : IntentStatuses]
    <3>1. worker[w] \in Batch
      BY DEF WorkersOK
    <3>2. \A c \in Channels : worker[w].number[c] \in Nat /\ worker[w].number[c] <= Allowed
      BY <3>1 DEF CountsInv, Batch
    <3>3. worker[w].number \in [Channels -> 0..M]
      BY <2>1, <3>1, <3>2 DEF Batch
    <3>. QED BY <3>1, <3>3 DEF Batch
  <2>5. worker \in [Workers -> [todo : SUBSET External, at : External \cup {None},
                                number : [Channels -> 0..M],
                                step : {"idle", "send", "record", "commit"},
                                result : Results, lost : BOOLEAN, read : IntentStatuses]]
    BY <2>4 DEF WorkersOK
  <2>. QED BY <2>2, <2>3, <2>5 DEF TypeOK, RowsOK, SweepOK, M
<1>. QED BY <1>1, Invariant, PTL

\* However slow a worker is and whatever the recovery gives to another, the provider never has
\* a delivery twice at a time, and is never sent what it confirmed.
THEOREM Once == Spec => []SentOnce
<1>1. Inv => SentOnce
  <2>. SUFFICES ASSUME Inv, NEW c \in Channels
                PROVE  /\ confirmed[c] <= 1
                       /\ Cardinality({w \in Workers : worker[w].at = c /\ worker[w].step = "send"}) <= 1
                       /\ \A w \in Workers : worker[w].at = c /\ worker[w].step = "send" => confirmed[c] = 0
    BY DEF SentOnce
  <2>. USE DEF Inv, Typed
  <2>. DEFINE Senders == {w \in Workers : worker[w].at = c /\ worker[w].step = "send"}
  <2>1. confirmed[c] <= 1 /\ confirmed[c] \in Nat /\ c # None
    BY NotificationAssumption DEF ConfirmedInv, RowsOK
  <2>2. \A v, w \in Senders : v = w
    BY <2>1 DEF AtWorkInv
  <2>3. Cardinality(Senders) <= 1
    <3>1. CASE Senders = {}
      <4>1. Cardinality({}) = 0
        BY FS_EmptySet
      <4>. QED BY <3>1, <4>1
    <3>2. CASE Senders # {}
      <4>1. PICK w \in Senders : TRUE
        BY <3>2
      <4>2. Senders = {w}
        BY <2>2, <4>1
      <4>. HIDE DEF Senders
      <4>3. Cardinality({w}) = 1
        BY FS_Singleton
      <4>. QED BY <4>2, <4>3
    <3>. QED BY <3>1, <3>2
  <2>4. ASSUME NEW w \in Workers, worker[w].at = c, worker[w].step = "send"
        PROVE  confirmed[c] = 0
    <3>1. c \in External
      BY <2>1, <2>4, AtRow
    <3>2. ~(confirmed[c] = 1)
      BY <2>4, <3>1 DEF ConfirmedInv
    <3>. QED BY <2>1, <3>2
  <2>. QED BY <2>1, <2>3, <2>4
<1>. QED BY <1>1, Invariant, PTL

\* No attempt is started over the limit, one more for each retry by staff.
THEOREM Bounded == Spec => []BoundedAttempts
<1>1. Inv => BoundedAttempts
  BY DEF Inv
<1>. QED BY <1>1, Invariant, PTL

\* When everything has come to rest, the notification says what its rows say, and it is
\* delivered only if every provider confirmed.
THEOREM Agrees == Spec => []IntentAgrees
<1>1. Inv => IntentAgrees
  <2>. SUFFICES ASSUME Inv, ~skewed, \A c \in Channels : ~Active(c),
                       NEW d \in External, delivery[d].status # "absent"
                PROVE  /\ intent = Derived(delivery)
                       /\ intent = "delivered" =>
                            \A c \in External : delivery[c].status = "absent" \/ confirmed[c] = 1
    BY DEF IntentAgrees
  <2>. USE DEF Inv, Typed
  <2>1. intent = Derived(delivery)
    BY DEF AgreesInv, Settled, External
  <2>2. ASSUME intent = "delivered", NEW c \in External, delivery[c].status # "absent"
        PROVE  confirmed[c] = 1
    <3>. DEFINE routed == {x \in Channels : delivery[x].status # "absent"}
    <3>1. {x \in routed : delivery[x].status \in {"delivered"}} = routed
      BY <2>1, <2>2, Zenon DEF Derived
    <3>2. c \in routed
      BY <2>2 DEF External
    <3>3. delivery[c].status = "delivered"
      BY <3>1, <3>2
    <3>. QED BY <3>3 DEF ConfirmedInv
  <2>. QED BY <2>1, <2>2
<1>. QED BY <1>1, Invariant, PTL

\* An interrupted delivery whose attempt was closed and not counted is never sent again.
LEMMA OrphanedStep ==
    ASSUME Inv, [Next]_vars, NEW c \in Channels, Orphaned(c)
    PROVE  Orphaned(c)'
<1>. USE DEF Inv, Typed
<1>. DEFINE next == Tries(c) + 1
<1>1. c \in External /\ Active(c) /\ next \in Numbers /\ attempts[c][next] # "none"
      /\ \A w \in Workers : worker[w].at # c
  <2>1. c # InApp /\ Active(c)
    BY DEF Orphaned, AgreesInv
  <2>2. Tries(c) \in Nat /\ Tries(c) < Allowed
    BY <2>1 DEF CountsInv, RowsOK, Tries
  <2>. QED BY <2>1, <2>2, AllowedIs DEF Orphaned, External, Numbers, Tries
<1>2. c \in Channels /\ c # None
  BY NotificationAssumption
\* It is enough that the row stays active, its count and its attempts stay, and nobody comes.
<1>3. SUFFICES /\ Active(c)' /\ delivery'[c].tries = delivery[c].tries
               /\ attempts'[c][next] # "none"
               /\ \A w \in Workers : worker'[w].at # c
  BY <1>1 DEF Orphaned, Tries
<1>. HIDE DEF next
<1>4. CASE Enqueue
  BY <1>1, <1>4 DEF Enqueue, AgreesInv, Active, ActiveStatuses
<1>5. CASE ManualRetry
  <2>1. delivery'[c] = delivery[c]
    BY <1>1, <1>2, <1>5 DEF ManualRetry, Active, ActiveStatuses, Retryable
  <2>. QED BY <1>1, <1>5, <2>1 DEF ManualRetry, Active
<1>6. ASSUME NEW w \in Workers, ClaimBatch(w)
      PROVE  /\ Active(c)' /\ delivery'[c].tries = delivery[c].tries
             /\ attempts'[c][next] # "none"
             /\ \A v \in Workers : worker'[v].at # c
  <2>1. PICK claimed \in SUBSET External : Takes(w, claimed)
    BY <1>6, ClaimIs
  <2>2. \A v \in Workers : worker'[v].at # c
    BY <1>1, <1>2, <1>6, <2>1, ClaimIs DEF Takes, Others
  <2>3. CASE c \in claimed
    <3>1. delivery'[c] = [status |-> "processing", tries |-> Tries(c)]
      BY <2>1, <2>3 DEF Takes
    <3>2. delivery'[c].status = "processing" /\ delivery'[c].tries = Tries(c)
      BY <3>1
    <3>3. attempts' = attempts
      BY <1>6 DEF ClaimBatch
    <3>. QED BY <1>1, <2>2, <3>2, <3>3 DEF Active, ActiveStatuses, Tries
  <2>4. CASE c \notin claimed
    <3>1. delivery'[c] = delivery[c]
      BY <1>2, <2>1, <2>4 DEF Takes
    <3>. QED BY <1>1, <1>6, <2>2, <3>1 DEF ClaimBatch, Active
  <2>. QED BY <2>3, <2>4
<1>7. ASSUME NEW w \in Workers, StartAttempt(w)
      PROVE  /\ Active(c)' /\ delivery'[c].tries = delivery[c].tries
             /\ attempts'[c][next] # "none"
             /\ \A v \in Workers : worker'[v].at # c
  <2>1. delivery' = delivery
    BY <1>7 DEF StartAttempt
  <2>2. CASE Dropped(w) /\ UNCHANGED attempts
    <3>1. worker'[w] = NoWork /\ Others(w)
      BY <2>2, DroppedIs
    <3>. QED BY <1>1, <1>2, <2>1, <2>2, <3>1 DEF Others, NoWork, Active
  <2>3. CASE ~(Dropped(w) /\ UNCHANGED attempts)
    <3>1. PICK d \in worker[w].todo :
             /\ Unused(d, worker[w].number[d])
             /\ attempts' = [attempts EXCEPT ![d][worker[w].number[d]] = "started"]
             /\ worker'[w].at = d
      BY <1>7, <2>3, StartIs
    <3>2. Others(w)
      BY <1>7, <2>3, StartIs
    \* Its number is taken: one of those before it, or the one that was not counted.
    <3>3. d # c
      <4>. SUFFICES ASSUME d = c PROVE FALSE
        OBVIOUS
      <4>. DEFINE n == worker[w].number[c]
      <4>1. n \in Nat /\ n > 0 /\ n <= Tries(c) + 1 /\ n <= Allowed /\ Tries(c) \in Nat
        BY <1>2, <3>1 DEF CountsInv, AttemptsInv, Holds, RowsOK, Tries, WorkersOK, Batch
      <4>2. n \in Numbers /\ attempts[c][n] = "none"
        BY <3>1, <4>1, AllowedIs DEF Numbers, Unused
      <4>. HIDE DEF n
      <4>3. ~(n <= Tries(c))
        BY <4>2 DEF AttemptsInv
      <4>4. n = next
        BY <4>1, <4>3 DEF next
      <4>. QED BY <1>1, <4>2, <4>4
    <3>4. attempts'[c] = attempts[c]
      BY <1>2, <3>1, <3>3 DEF RowsOK
    <3>. QED BY <1>1, <2>1, <3>1, <3>2, <3>3, <3>4 DEF Others, Active
  <2>. QED BY <2>2, <2>3
<1>8. ASSUME NEW w \in Workers, Send(w) \/ Record(w)
      PROVE  /\ Active(c)' /\ delivery'[c].tries = delivery[c].tries
             /\ attempts'[c][next] # "none"
             /\ \A v \in Workers : worker'[v].at # c
  <2>1. delivery' = delivery /\ attempts' = attempts
    BY <1>8 DEF Send, Record
  <2>2. worker'[w].at = worker[w].at /\ Others(w)
    BY <1>8, SendIs, RecordOpens
  <2>. QED BY <1>1, <2>1, <2>2 DEF Others, Active
<1>9. ASSUME NEW w \in Workers, WorkerCrash(w)
      PROVE  /\ Active(c)' /\ delivery'[c].tries = delivery[c].tries
             /\ attempts'[c][next] # "none"
             /\ \A v \in Workers : worker'[v].at # c
  <2>1. delivery' = delivery /\ attempts' = attempts /\ Dropped(w)
    BY <1>9 DEF WorkerCrash
  <2>2. worker'[w] = NoWork /\ Others(w)
    BY <2>1, DroppedIs
  <2>. QED BY <1>1, <1>2, <2>1, <2>2 DEF Others, NoWork, Active
<1>10. ASSUME NEW w \in Workers, Commit(w)
       PROVE  /\ Active(c)' /\ delivery'[c].tries = delivery[c].tries
              /\ attempts'[c][next] # "none"
              /\ \A v \in Workers : worker'[v].at # c
  <2>1. CASE Refused(worker[w].read)
    <3>1. delivery' = delivery /\ attempts' = attempts /\ Dropped(w)
      BY <1>10, <2>1 DEF Commit
    <3>2. worker'[w] = NoWork /\ Others(w)
      BY <3>1, DroppedIs
    <3>. QED BY <1>1, <1>2, <3>1, <3>2 DEF Others, NoWork, Active
  <2>2. CASE ~Refused(worker[w].read)
    <3>1. worker'[w].at = None /\ Others(w) /\ delivery' = Outcoming(w)
      BY <1>10, <2>2, CommitIs
    <3>2. delivery'[c] = delivery[c]
      BY <1>1, <1>2, <3>1 DEF Outcoming, RowsOK
    <3>3. attempts'[c] = attempts[c]
      BY <1>1, <1>2, <1>10, <2>2 DEF Commit, RowsOK
    <3>. QED BY <1>1, <1>2, <3>1, <3>2, <3>3 DEF Others, Active
  <2>. QED BY <2>1, <2>2
<1>11. CASE Recover
  BY <1>1, <1>11 DEF Recover, Active
<1>12. CASE CommitRecovery
  <2>1. worker' = worker
    BY <1>12 DEF CommitRecovery
  <2>2. CASE Refused(sweep.read)
    BY <1>1, <1>12, <2>1, <2>2 DEF CommitRecovery, Active
  <2>3. CASE ~Refused(sweep.read)
    <3>1. delivery' = RecoveredRows(sweep.rows)
      BY <1>12, <2>3 DEF CommitRecovery
    <3>2. delivery'[c].tries = delivery[c].tries /\ Active(c)'
      BY <1>1, <1>2, <3>1 DEF RecoveredRows, RecoveredRow, RowsOK, Active, ActiveStatuses
    <3>3. attempts'[c][next] = attempts[c][next] \/ attempts'[c][next] = Finished(attempts[c][next])
      BY <1>1, <1>2, <1>12, <2>3 DEF CommitRecovery
    <3>. QED BY <1>1, <2>1, <3>2, <3>3 DEF Finished
  <2>. QED BY <2>2, <2>3
<1>13. CASE UNCHANGED vars
  BY <1>1, <1>13 DEF vars, Active
<1>. QED BY <1>4, <1>5, <1>6, <1>7, <1>8, <1>9, <1>10, <1>11, <1>12, <1>13 DEF Next, WorkerStep

\* Why RequeuedIsTried fails: whatever staff, workers and recoveries do, a row whose next
\* attempt was closed and not counted (recoverStaleProcessing) is never tried again.
THEOREM Stuck == Spec => [][\A c \in Channels : Orphaned(c) => Orphaned(c)']_vars
<1>1. Inv /\ [Next]_vars => [\A c \in Channels : Orphaned(c) => Orphaned(c)']_vars
  BY OrphanedStep
<1>. QED BY <1>1, Invariant, PTL DEF Spec
=============================================================================
