---------------------------- MODULE EventPipeline ----------------------------
(***************************************************************************)
(* From a committed business change to its consumers: the outbox rows and  *)
(* the publishers that claim them, the BullMQ job of each event, and the   *)
(* consumer inbox that records which consumer has handled which event.     *)
(*                                                                         *)
(* A delivery is one run of a job.  Its consumers run side by side in      *)
(* transactions of their own, and Promise.all gives the job up at the      *)
(* first rejection, so a sibling may still be at work when BullMQ starts   *)
(* the next delivery.                                                      *)
(***************************************************************************)
EXTENDS Naturals, FiniteSets

CONSTANTS
    Events, Publishers, Consumers,
    None,           \* no event
    OutboxAttempts, \* OUTBOX_MAX_ATTEMPTS
    JobAttempts,    \* the "attempts" of the BullMQ job
    MaxStalls,      \* BullMQ's maxStalledCount
    MaxFaults       \* bound: crashes, stalls, lost connections

ASSUME PipelineAssumption ==
    /\ None \notin Events
    /\ {OutboxAttempts, JobAttempts} \subseteq Nat \ {0}
    /\ {MaxStalls, MaxFaults} \subseteq Nat

VARIABLES
    outbox,         \* status of the outbox row
    tries,          \* attempt_count of the row, up to OutboxAttempts
    batch,          \* what a publisher has claimed and not finished
    seen,           \* the attempt_count a publisher's claim returned
    item,           \* the event of the batch it is at, and what it does with it
    job,            \* the BullMQ job of an event
    thread,         \* a consumer's part of a delivery
    inbox,          \* events.consumer_inbox
    effects,        \* how often the consumer's work was committed, up to 2
    calm,           \* FALSE once a delivery began beside another or a connection was lost
    faults

outboxVars == <<outbox, tries>>
publisherVars == <<batch, seen, item>>
consumerVars == <<thread, inbox, effects, calm>>
vars == <<outboxVars, publisherVars, job, consumerVars, faults>>

OutboxStatuses == {"absent", "pending", "processing", "published", "dead_letter"}
JobStates == {"none", "waiting", "active", "completed", "failed"}
InboxStatuses == {"absent", "failed", "processed"}   \* "processing" is never committed
ThreadStates == {"none", "working", "recording", "resolved", "rejected", "dead"}
ItemSteps == {"none", "add", "mark_published", "mark_failed"}

Deliveries == 0..(JobAttempts + MaxStalls)
Delivery(e) == job[e].failures + job[e].stalls      \* the current one
AtWork == {"working", "recording"}

NoItem == [event |-> None, step |-> "none"]
Capped(n, max) == IF n < max THEN n ELSE max
Fault == faults < MaxFaults /\ faults' = faults + 1

Init ==
    /\ outbox = [e \in Events |-> "absent"]
    /\ tries = [e \in Events |-> 0]
    /\ batch = [x \in Publishers |-> {}]
    /\ seen = [x \in Publishers |-> [e \in Events |-> 0]]
    /\ item = [x \in Publishers |-> NoItem]
    /\ job = [e \in Events |-> [state |-> "none", failures |-> 0, stalls |-> 0]]
    /\ thread = [e \in Events |-> [c \in Consumers |-> [d \in Deliveries |-> "none"]]]
    /\ inbox = [e \in Events |-> [c \in Consumers |-> "absent"]]
    /\ effects = [e \in Events |-> [c \in Consumers |-> 0]]
    /\ calm = TRUE
    /\ faults = 0
-----------------------------------------------------------------------------
(* The outbox and its publishers *)

\* A business transaction commits with its event.
Append(e) ==
    /\ outbox[e] = "absent"
    /\ outbox' = [outbox EXCEPT ![e] = "pending"]
    /\ UNCHANGED <<tries, publisherVars, job, consumerVars, faults>>

\* Mutant: the lock of a lost publisher is never taken over.
DuePending(e) == outbox[e] = "pending"
\* claimBatch: pending rows, and processing rows whose lock is older than the timeout.
\* Their publisher may merely be slow: no row remembers who works on it.
Due(e) == outbox[e] \in {"pending", "processing"}

ClaimBatch(x) ==
    /\ batch[x] = {}
    /\ \E claimed \in SUBSET {e \in Events : Due(e)} :
          /\ claimed # {}
          /\ batch' = [batch EXCEPT ![x] = claimed]
          /\ outbox' = [e \in Events |->
                          IF e \in claimed THEN "processing" ELSE outbox[e]]
          /\ tries' = [e \in Events |->
                         IF e \in claimed THEN Capped(tries[e] + 1, OutboxAttempts)
                                          ELSE tries[e]]
          /\ seen' = [seen EXCEPT ![x] =
                        [e \in Events |-> IF e \in claimed THEN tries'[e] ELSE 0]]
    /\ UNCHANGED <<item, job, consumerVars, faults>>

NextItem(x) ==
    /\ item[x] = NoItem
    /\ \E e \in batch[x] : item' = [item EXCEPT ![x] = [event |-> e, step |-> "add"]]
    /\ UNCHANGED <<outboxVars, batch, seen, job, consumerVars, faults>>

At(x, step) == item[x].step = step
ToStep(x, step) == item' = [item EXCEPT ![x].step = step]

\* queue.add, with the event id as job id: a job that exists is left as it is.  An error
\* says nothing of whether the job was added.
Enqueued(e) ==
    job' = IF job[e].state = "none" THEN [job EXCEPT ![e].state = "waiting"] ELSE job

\* Mutant: the publisher goes on after the queue's error.
AddJobUnchecked(x) ==
    LET e == item[x].event IN
    /\ At(x, "add")
    /\ Enqueued(e) \/ UNCHANGED job
    /\ ToStep(x, "mark_published")
    /\ UNCHANGED <<outboxVars, batch, seen, consumerVars, faults>>

AddJob(x) ==
    LET e == item[x].event IN
    /\ At(x, "add")
    /\ \/ Enqueued(e) /\ ToStep(x, "mark_published")
       \/ (Enqueued(e) \/ UNCHANGED job) /\ ToStep(x, "mark_failed")
    /\ UNCHANGED <<outboxVars, batch, seen, consumerVars, faults>>

Done(x) ==
    /\ item' = [item EXCEPT ![x] = NoItem]
    /\ batch' = [batch EXCEPT ![x] = @ \ {item[x].event}]

\* markPublished, by id alone; its own failure goes to the same catch as the queue's.
MarkPublished(x) ==
    LET e == item[x].event IN
    /\ At(x, "mark_published")
    /\ \/ /\ outbox' = [outbox EXCEPT ![e] = "published"]
          /\ Done(x)
          /\ UNCHANGED faults
       \/ /\ Fault
          /\ ToStep(x, "mark_failed")
          /\ UNCHANGED <<outbox, batch>>
    /\ UNCHANGED <<tries, seen, job, consumerVars>>

\* markFailed, by id alone; its failure ends the tick, and the batch is left locked.
MarkFailed(x) ==
    LET e == item[x].event
        dead == seen[x][e] >= OutboxAttempts
    IN
    /\ At(x, "mark_failed")
    /\ \/ /\ outbox' = [outbox EXCEPT ![e] = IF dead THEN "dead_letter" ELSE "pending"]
          /\ Done(x)
          /\ UNCHANGED faults
       \/ /\ Fault
          /\ item' = [item EXCEPT ![x] = NoItem]
          /\ batch' = [batch EXCEPT ![x] = {}]
          /\ UNCHANGED outbox
    /\ UNCHANGED <<tries, seen, job, consumerVars>>

PublisherCrash(x) ==
    /\ batch[x] # {}
    /\ Fault
    /\ item' = [item EXCEPT ![x] = NoItem]
    /\ batch' = [batch EXCEPT ![x] = {}]
    /\ UNCHANGED <<outboxVars, seen, job, consumerVars>>
-----------------------------------------------------------------------------
(* The job of an event *)

\* dispatch: every consumer of the event starts at once, beside those of an older delivery
\* that are still at work.
StartDelivery(e) ==
    /\ job[e].state = "waiting"
    /\ calm' = (calm /\ \A c \in Consumers, d \in Deliveries : thread[e][c][d] \notin AtWork)
    /\ job' = [job EXCEPT ![e].state = "active"]
    /\ thread' = [thread EXCEPT ![e] = [c \in Consumers |->
                    [thread[e][c] EXCEPT ![Delivery(e)] = "working"]]]
    /\ UNCHANGED <<outboxVars, publisherVars, inbox, effects, faults>>

\* Mutant: one consumer's success ends the job.
AnyResolved(e) ==
    \E c \in Consumers : thread[e][c][Delivery(e)] = "resolved"
AllResolved(e) == \A c \in Consumers : thread[e][c][Delivery(e)] = "resolved"

CompleteJob(e) ==
    /\ job[e].state = "active" /\ AllResolved(e)
    /\ job' = [job EXCEPT ![e].state = "completed"]
    /\ UNCHANGED <<outboxVars, publisherVars, consumerVars, faults>>

HasAttempt(e) == job[e].failures + 1 < JobAttempts

\* Promise.all rejects with the first consumer; siblings are not waited for.
FailJob(e) ==
    /\ job[e].state = "active"
    /\ \E c \in Consumers : thread[e][c][Delivery(e)] = "rejected"
    /\ job' = [job EXCEPT ![e].state = IF HasAttempt(e) THEN "waiting" ELSE "failed",
                          ![e].failures = @ + 1]
    /\ UNCHANGED <<outboxVars, publisherVars, consumerVars, faults>>

\* The worker process dies: open transactions roll back, the job stays active.
WorkerCrash(e) ==
    /\ job[e].state = "active"
    /\ Fault
    /\ thread' = [thread EXCEPT ![e] = [c \in Consumers |->
                    [d \in Deliveries |-> IF thread[e][c][d] \in AtWork
                                            THEN "dead" ELSE thread[e][c][d]]]]
    /\ UNCHANGED <<outboxVars, publisherVars, job, inbox, effects, calm>>

\* BullMQ takes an active job whose lock ran out for lost, once too often for failed.
\* The lock of a dead worker runs out; that of a blocked one may (a fault).
Abandoned(e) == \E c \in Consumers : thread[e][c][Delivery(e)] = "dead"

StallJob(e) ==
    /\ job[e].state = "active"
    /\ IF Abandoned(e) THEN UNCHANGED faults ELSE Fault
    /\ job' = [job EXCEPT ![e].state = IF job[e].stalls < MaxStalls THEN "waiting" ELSE "failed",
                          ![e].stalls = @ + 1]
    /\ UNCHANGED <<outboxVars, publisherVars, consumerVars>>
-----------------------------------------------------------------------------
(* ConsumerInboxService.execute, for one consumer of one delivery *)

SetThread(e, c, d, state) == thread' = [thread EXCEPT ![e][c][d] = state]

\* Mutant: the status of the row is not read.
NeverHandled(e, c) == FALSE
Handled(e, c) == inbox[e][c] = "processed"

\* The connection is lost at the commit or at the read of a processed row.
Disconnected == Fault /\ calm' = FALSE

\* The first transaction: the row lock serialises it with every other delivery.  It
\* finds the event processed, or commits the work with the processed row, or rolls back;
\* a lost connection looks like a rollback even where the row is processed.
Execute(e, c, d) ==
    /\ thread[e][c][d] = "working"
    /\ \/ /\ Handled(e, c)
          /\ SetThread(e, c, d, "resolved")
          /\ UNCHANGED <<inbox, effects, calm, faults>>
       \/ /\ ~Handled(e, c)
          /\ inbox' = [inbox EXCEPT ![e][c] = "processed"]
          /\ effects' = [effects EXCEPT ![e][c] = Capped(@ + 1, 2)]
          /\ \/ SetThread(e, c, d, "resolved") /\ UNCHANGED <<calm, faults>>
             \/ Disconnected /\ SetThread(e, c, d, "recording")
       \/ /\ ~Handled(e, c)
          /\ SetThread(e, c, d, "recording")
          /\ UNCHANGED <<inbox, effects, calm, faults>>
       \/ /\ Handled(e, c)
          /\ Disconnected
          /\ SetThread(e, c, d, "recording")
          /\ UNCHANGED <<inbox, effects>>
    /\ UNCHANGED <<outboxVars, publisherVars, job>>

\* The catch: an upsert that sets "failed" whatever the row says by now.  Its own error
\* is swallowed.
RecordFailure(e, c, d) ==
    /\ thread[e][c][d] = "recording"
    /\ \/ inbox' = [inbox EXCEPT ![e][c] = "failed"] /\ UNCHANGED faults
       \/ Fault /\ UNCHANGED inbox
    /\ SetThread(e, c, d, "rejected")
    /\ UNCHANGED <<outboxVars, publisherVars, job, effects, calm>>
-----------------------------------------------------------------------------
PublisherStep(x) ==
    ClaimBatch(x) \/ NextItem(x) \/ AddJob(x) \/ MarkPublished(x) \/ MarkFailed(x)

QueueStep(e) == StartDelivery(e) \/ CompleteJob(e) \/ FailJob(e) \/ StallJob(e)

ConsumerStep(e, c, d) == Execute(e, c, d) \/ RecordFailure(e, c, d)

Next ==
    \/ \E x \in Publishers : PublisherStep(x) \/ PublisherCrash(x)
    \/ \E e \in Events : Append(e) \/ QueueStep(e) \/ WorkerCrash(e)
    \/ \E e \in Events, c \in Consumers, d \in Deliveries : ConsumerStep(e, c, d)

Spec == Init /\ [][Next]_vars

\* The publisher loop, BullMQ and the consumers' transactions go on; faults are few.
Fairness ==
    /\ \A x \in Publishers : WF_vars(PublisherStep(x))
    /\ \A e \in Events : WF_vars(QueueStep(e))
    /\ \A e \in Events, c \in Consumers, d \in Deliveries : WF_vars(ConsumerStep(e, c, d))

FairSpec == Spec /\ Fairness
-----------------------------------------------------------------------------
(* Properties *)

\* Types of the pipeline's state.
TypeOK ==
    /\ outbox \in [Events -> OutboxStatuses]
    /\ tries \in [Events -> 0..OutboxAttempts]
    /\ batch \in [Publishers -> SUBSET Events]
    /\ seen \in [Publishers -> [Events -> 0..OutboxAttempts]]
    /\ item \in [Publishers -> [event : Events \cup {None}, step : ItemSteps]]
    /\ job \in [Events -> [state : JobStates, failures : 0..JobAttempts,
                           stalls : 0..(MaxStalls + 1)]]
    /\ thread \in [Events -> [Consumers -> [Deliveries -> ThreadStates]]]
    /\ inbox \in [Events -> [Consumers -> InboxStatuses]]
    /\ effects \in [Events -> [Consumers -> 0..2]]
    /\ calm \in BOOLEAN
    /\ faults \in 0..MaxFaults

\* An outbox row says published only if its job reached the queue, however many
\* publishers worked on it and in whatever order they finished.
PublishedIsQueued ==
    \A e \in Events : outbox[e] = "published" => job[e].state # "none"

\* A completed job means that every consumer's work is in the database, and a consumer
\* runs only for an event whose business change was committed.
CompletedIsApplied ==
    \A e \in Events, c \in Consumers :
        /\ job[e].state = "completed" => effects[e][c] > 0
        /\ effects[e][c] > 0 => outbox[e] # "absent"

\* The inbox keeps a consumer's work from being committed twice for one event, in every
\* redelivery, as is said of it; overlapping deliveries break that.
EffectOnce ==
    \A e \in Events, c \in Consumers : effects[e][c] <= 1

\* It does keep it, over retries, stalls, crashes and two publishers, until a delivery
\* begins beside another (registry.dispatch) or a commit's acknowledgement is lost (execute).
OnceWhileCalm == calm => EffectOnce

\* At-least-once: a committed event reaches every consumer, or it stands in the dead
\* letters or among the failed jobs.
EventuallyApplied ==
    \A e \in Events :
        outbox[e] = "pending" ~>
            \/ \A c \in Consumers : effects[e][c] > 0
            \/ outbox[e] = "dead_letter"
            \/ job[e].state = "failed"
=============================================================================
