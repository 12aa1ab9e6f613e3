---------------------------- MODULE Notifications ----------------------------
(***************************************************************************)
(* One notification and its deliveries, a row per channel: the workers     *)
(* that claim and send them, the provider, the scheduler that takes stale  *)
(* rows back, and the staff that have a notification tried again.          *)
(*                                                                         *)
(* A claim, the insertion of an attempt, the call of the provider and the  *)
(* recording of its answer are four steps.  The last one, like the         *)
(* recovery, reads the statuses of the sibling rows before it commits its  *)
(* own, without a lock on them: it is two steps here.                      *)
(***************************************************************************)
EXTENDS Naturals, FiniteSets

CONSTANTS
    Channels, Workers,
    InApp,          \* the channel that needs no sending
    None,           \* no channel
    MaxAttempts,    \* attempts before a delivery is dead-lettered
    MaxRetries,     \* bound: retries by staff
    MaxFaults       \* bound: crashes, failed transactions, workers slower than the timeout

ASSUME NotificationAssumption ==
    /\ InApp \in Channels /\ None \notin Channels
    /\ MaxAttempts \in Nat \ {0}
    /\ {MaxRetries, MaxFaults} \subseteq Nat

VARIABLES
    intent,         \* status of the notification
    delivery,       \* status and retry_count of each row
    attempts,       \* delivery_attempts, unique by delivery and number
    worker,
    sweep,          \* the recovery's open transaction: its rows and the status it read
    confirmed,      \* how often it answered "delivered"
    retries, faults,
    skewed          \* TRUE once two transactions that refresh the intent overlapped

vars == <<intent, delivery, attempts, worker, sweep, confirmed, retries, faults, skewed>>

External == Channels \ {InApp}
Numbers == 1..(MaxAttempts + MaxRetries)

IntentStatuses == {"absent", "queued", "processing", "partially_delivered", "delivered",
                   "failed", "dead_lettered"}
ActiveStatuses == {"pending", "processing", "retry_wait"}
DeliveryStatuses ==
    ActiveStatuses \cup {"absent", "delivered", "blocked", "failed", "dead_lettered"}
AttemptStatuses == {"none", "started", "finished"}
Answers == {"delivered", "retryable", "permanent", "blocked"}
Results == Answers \cup {"none"}

NoWork == [todo |-> {}, at |-> None, number |-> [c \in Channels |-> 0],
           step |-> "idle", result |-> "none", lost |-> FALSE, read |-> "absent"]
NoSweep == [rows |-> {}, read |-> "absent"]

Active(c) == delivery[c].status \in ActiveStatuses
Fault == faults < MaxFaults /\ faults' = faults + 1

Init ==
    /\ intent = "absent"
    /\ delivery = [c \in Channels |-> [status |-> "absent", tries |-> 0]]
    /\ attempts = [c \in Channels |-> [n \in Numbers |-> "none"]]
    /\ worker = [w \in Workers |-> NoWork]
    /\ sweep = NoSweep
    /\ confirmed = [c \in Channels |-> 0]
    /\ retries = 0 /\ faults = 0
    /\ skewed = FALSE
-----------------------------------------------------------------------------
(* The notification *)

\* refreshIntent: what the statuses of the rows make of the notification.
Derived(rows) ==
    LET routed == {c \in Channels : rows[c].status # "absent"}
        With(statuses) == {c \in routed : rows[c].status \in statuses}
    IN  CASE With({"delivered"}) = routed -> "delivered"
          [] With({"delivered"}) \notin {{}, routed} -> "partially_delivered"
          [] With({"delivered"}) = {} /\ With(ActiveStatuses) # {} -> "processing"
          [] routed # {} /\ With({"dead_lettered"}) = routed -> "dead_lettered"
          [] OTHER -> "failed"

\* The trigger of the intents: these are left by a retry of the staff only.
Closed == {"delivered", "dead_lettered"}
Refused(status) == intent \in Closed /\ status # intent

\* A notification is written with a row for each channel it is routed to.
Enqueue ==
    /\ intent = "absent"
    /\ intent' = "queued"
    /\ \E routed \in SUBSET Channels \ {{}} :
          delivery' = [c \in Channels |->
                         [delivery[c] EXCEPT !.status = IF c \notin routed THEN "absent"
                                                        ELSE IF c = InApp THEN "delivered"
                                                        ELSE "pending"]]
    /\ UNCHANGED <<attempts, worker, sweep, confirmed, retries, faults, skewed>>

Retryable == {"blocked", "failed", "dead_lettered"}

OpenTransaction == sweep.rows # {} \/ \E w \in Workers : worker[w].step = "commit"

\* manualRetry.  A row in retry_wait is among those it updates, and the rows' trigger
\* refuses that: the whole retry fails.
ManualRetry ==
    LET rows == {c \in External : delivery[c].status \in Retryable} IN
    /\ retries < MaxRetries /\ retries' = retries + 1
    /\ rows # {}
    /\ \A c \in External : delivery[c].status # "retry_wait"
    /\ delivery' = [c \in Channels |-> IF c \in rows THEN [delivery[c] EXCEPT !.status = "pending"]
                                                     ELSE delivery[c]]
    /\ intent' = IF intent \in {"failed", "dead_lettered", "partially_delivered", "processing"}
                   THEN "queued" ELSE intent
    /\ skewed' = (skewed \/ OpenTransaction)
    /\ UNCHANGED <<attempts, worker, sweep, confirmed, faults>>
-----------------------------------------------------------------------------
(* The workers *)

Idle(w) == worker[w].todo = {} /\ worker[w].at = None
Dropped(w) == worker' = [worker EXCEPT ![w] = NoWork]

ClaimBatch(w) ==
    /\ Idle(w)
    /\ \E claimed \in SUBSET {c \in External : delivery[c].status \in {"pending", "retry_wait"}} :
          /\ claimed # {}
          /\ delivery' = [c \in Channels |->
                            IF c \in claimed THEN [delivery[c] EXCEPT !.status = "processing"]
                                             ELSE delivery[c]]
          /\ worker' = [worker EXCEPT
                          ![w].todo = claimed,
                          ![w].number = [c \in Channels |-> IF c \in claimed
                                                            THEN delivery[c].tries + 1 ELSE 0]]
    /\ intent' = IF intent \in {"queued", "failed", "partially_delivered"}
                   THEN "processing" ELSE intent
    /\ UNCHANGED <<attempts, sweep, confirmed, retries, faults, skewed>>

Unused(c, n) == attempts[c][n] = "none"

\* startAttempt, for a row with a provider and a destination, or for one that is blocked.  The
\* number comes from the claim; a duplicate is an error, which ends the whole batch.
StartAttempt(w) ==
    /\ worker[w].at = None
    /\ \E c \in worker[w].todo :
          IF Unused(c, worker[w].number[c])
            THEN /\ attempts' = [attempts EXCEPT ![c][worker[w].number[c]] = "started"]
                 /\ \E blocked \in BOOLEAN :
                       worker' = [worker EXCEPT ![w].todo = @ \ {c}, ![w].at = c,
                                    ![w].step = IF blocked THEN "record" ELSE "send",
                                    ![w].result = IF blocked THEN "blocked" ELSE "none"]
            ELSE Dropped(w) /\ UNCHANGED attempts
    /\ UNCHANGED <<intent, delivery, sweep, confirmed, retries, faults, skewed>>

\* provider.send, outside of any transaction; an exception counts as retryable.
Send(w) ==
    LET c == worker[w].at IN
    /\ worker[w].step = "send"
    /\ \E answer \in Answers :
          /\ worker' = [worker EXCEPT ![w].step = "record", ![w].result = answer]
          /\ confirmed' = [confirmed EXCEPT ![c] = IF answer = "delivered" THEN @ + 1 ELSE @]
    /\ UNCHANGED <<intent, delivery, attempts, sweep, retries, faults, skewed>>

\* Mutant: one attempt more than allowed.
ExhaustedLate(n) == n > MaxAttempts
Exhausted(n) == n >= MaxAttempts

\* Mutant: the answer of the provider is stored as it came.
AsAnswered(result, n) == result

\* finalize and finalizeBlocked: what the row becomes.
Outcome(result, n) ==
    CASE result = "delivered" -> "delivered"
      [] result = "blocked" -> "blocked"
      [] result = "permanent" -> "failed"
      [] OTHER -> IF Exhausted(n) THEN "dead_lettered" ELSE "retry_wait"

Recorded(row, result, n) ==
    IF result = "delivered" THEN [row EXCEPT !.status = Outcome(result, n)]
                            ELSE [status |-> Outcome(result, n), tries |-> n]

\* Mutant: the siblings are read before the row is written.
RefreshedTooEarly(c, row) == Derived(delivery)
Refreshed(c, row) == Derived([delivery EXCEPT ![c] = row])

\* The transaction up to its reading of the siblings: a row that is not processing any more
\* is left alone (lost), one that is stays locked until the commit.
Record(w) ==
    LET c == worker[w].at
        lost == delivery[c].status # "processing"
        row == IF lost THEN delivery[c]
                       ELSE Recorded(delivery[c], worker[w].result, worker[w].number[c])
    IN
    /\ worker[w].step = "record"
    /\ c \notin sweep.rows
    /\ worker' = [worker EXCEPT ![w].step = "commit", ![w].lost = lost,
                                ![w].read = Refreshed(c, row)]
    /\ skewed' = (skewed \/ OpenTransaction)
    /\ UNCHANGED <<intent, delivery, attempts, sweep, confirmed, retries, faults>>

Finished(status) == IF status = "started" THEN "finished" ELSE status

\* Its end: the intent is updated, or its trigger refuses and everything is rolled back.  The
\* attempt is finished even when the row is lost.
Commit(w) ==
    LET c == worker[w].at
        n == worker[w].number[c]
    IN
    /\ worker[w].step = "commit"
    /\ IF Refused(worker[w].read)
         THEN Dropped(w) /\ UNCHANGED <<intent, delivery, attempts>>
         ELSE /\ delivery' = IF worker[w].lost THEN delivery
                             ELSE [delivery EXCEPT ![c] = Recorded(delivery[c], worker[w].result, n)]
              /\ attempts' = [attempts EXCEPT ![c][n] = Finished(attempts[c][n])]
              /\ intent' = worker[w].read
              /\ worker' = [worker EXCEPT ![w] =
                              IF worker[w].todo = {} THEN NoWork
                              ELSE [NoWork EXCEPT !.todo = worker[w].todo,
                                                  !.number = worker[w].number]]
    /\ UNCHANGED <<sweep, confirmed, retries, faults, skewed>>

\* The process dies, or a statement fails: an open transaction is rolled back, the rest of
\* the batch stays in processing.
WorkerCrash(w) ==
    /\ ~Idle(w)
    /\ Fault
    /\ Dropped(w)
    /\ UNCHANGED <<intent, delivery, attempts, sweep, confirmed, retries, skewed>>
-----------------------------------------------------------------------------
(* The recovery of stale rows *)

Holds(w, c) == c \in worker[w].todo \cup {worker[w].at}
Locked(c) == \E w \in Workers : worker[w].at = c /\ worker[w].step = "commit"
                                /\ ~worker[w].lost

\* Mutant: the recovery counts the attempt it closes.
CountedRow(row) == [row EXCEPT !.status = "retry_wait", !.tries = @ + 1]
RecoveredRow(row) == [row EXCEPT !.status = "retry_wait"]
RecoveredRows(rows) ==
    [c \in Channels |-> IF c \in rows THEN RecoveredRow(delivery[c]) ELSE delivery[c]]

\* Mutant: only rows with an attempt under way are found.
StaleStarted(c) == /\ delivery[c].status = "processing" /\ ~Locked(c)
                   /\ \E n \in Numbers : attempts[c][n] = "started"
Stale(c) == delivery[c].status = "processing" /\ ~Locked(c)

\* Rows in processing for longer than the timeout: their worker is gone, or slow (a fault).
Recover ==
    /\ sweep = NoSweep
    /\ \E rows \in SUBSET {c \in External : Stale(c)} :
          /\ rows # {}
          /\ IF \E c \in rows, w \in Workers : Holds(w, c) THEN Fault ELSE UNCHANGED faults
          /\ sweep' = [rows |-> rows, read |-> Derived(RecoveredRows(rows))]
    /\ skewed' = (skewed \/ OpenTransaction)
    /\ UNCHANGED <<intent, delivery, attempts, worker, confirmed, retries>>

CommitRecovery ==
    /\ sweep # NoSweep
    /\ sweep' = NoSweep
    /\ IF Refused(sweep.read)
         THEN UNCHANGED <<intent, delivery, attempts>>
         ELSE /\ delivery' = RecoveredRows(sweep.rows)
              /\ attempts' = [c \in Channels |-> [n \in Numbers |->
                                IF c \in sweep.rows THEN Finished(attempts[c][n]) ELSE attempts[c][n]]]
              /\ intent' = sweep.read
    /\ UNCHANGED <<worker, confirmed, retries, faults, skewed>>
-----------------------------------------------------------------------------
WorkerStep(w) == ClaimBatch(w) \/ StartAttempt(w) \/ Send(w) \/ Record(w) \/ Commit(w)

Next ==
    \/ Enqueue \/ ManualRetry
    \/ \E w \in Workers : WorkerStep(w) \/ WorkerCrash(w)
    \/ Recover \/ CommitRecovery

Spec == Init /\ [][Next]_vars

\* The workers' loop and the scheduler go on; staff and faults need not come.
Fairness ==
    /\ \A w \in Workers : WF_vars(WorkerStep(w))
    /\ WF_vars(Recover \/ CommitRecovery)

FairSpec == Spec /\ Fairness
-----------------------------------------------------------------------------
(* Properties *)

\* Types of the notification's state.
TypeOK ==
    /\ intent \in IntentStatuses
    /\ delivery \in [Channels -> [status : DeliveryStatuses,
                                  tries : 0..(MaxAttempts + MaxRetries)]]
    /\ attempts \in [Channels -> [Numbers -> AttemptStatuses]]
    /\ worker \in [Workers -> [todo : SUBSET External, at : External \cup {None},
                               number : [Channels -> 0..(MaxAttempts + MaxRetries)],
                               step : {"idle", "send", "record", "commit"},
                               result : Results, lost : BOOLEAN, read : IntentStatuses]]
    /\ sweep \in [rows : SUBSET External, read : IntentStatuses]
    /\ confirmed \in [Channels -> 0..(MaxAttempts + MaxRetries)]
    /\ retries \in 0..MaxRetries /\ faults \in 0..MaxFaults
    /\ skewed \in BOOLEAN

\* However slow a worker is and whatever the recovery gives to another (claim, startAttempt,
\* recoverStaleProcessing), a delivery is never in the hands of the provider twice at a time,
\* and what the provider confirmed is not sent again, recorded or not.
SentOnce ==
    \A c \in Channels :
        /\ confirmed[c] <= 1
        /\ Cardinality({w \in Workers : worker[w].at = c /\ worker[w].step = "send"}) <= 1
        /\ \A w \in Workers : worker[w].at = c /\ worker[w].step = "send" => confirmed[c] = 0

\* Crashes, recoveries and slow workers start no attempt over the limit of finalize; each
\* retry by staff (manualRetry) allows at most one more.
BoundedAttempts ==
    \A c \in Channels, n \in Numbers : attempts[c][n] # "none" => n <= MaxAttempts + retries

\* When everything has come to rest, the notification says what its rows say (refreshIntent),
\* and it is delivered only if every provider confirmed.  Left out: transactions that
\* refreshed it at the same time, and a notification for the application alone, which nothing
\* refreshes.
IntentAgrees ==
    /\ ~skewed /\ ~OpenTransaction
    /\ \A c \in Channels : ~Active(c)
    /\ \E c \in External : delivery[c].status # "absent"
    => /\ intent = Derived(delivery)
       /\ intent = "delivered" => \A c \in External : delivery[c].status = "absent" \/ confirmed[c] = 1

\* A row whose next attempt already exists: nobody can start it.
Orphaned(c) ==
    /\ Active(c)
    /\ attempts[c][delivery[c].tries + 1] # "none"
    /\ \A w \in Workers : worker[w].at # c

\* A row that waits to be tried again, put there by a worker or by the recovery
\* (recoverStaleProcessing), is tried again or decided.  This is what is said of the recovery;
\* it closes an interrupted attempt without counting it, and the next claim computes its
\* number again.
RequeuedIsTried ==
    \A c \in External :
        delivery[c].status = "retry_wait"
            ~> (\E w \in Workers : worker[w].at = c) \/ ~Active(c) \/ intent \in Closed

\* The deliveries come to an end, whatever crashes: the scheduler gives stale rows back and
\* the workers go on.  What the code does leave behind is named: a row whose interrupted
\* attempt was closed and not counted, and rows of a notification that is closed.
EventuallySettled ==
    (\E c \in External : Active(c))
        ~> (\A c \in External : ~Active(c)) \/ (\E c \in External : Orphaned(c)) \/ intent \in Closed
=============================================================================
