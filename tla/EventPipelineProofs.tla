------------------------- MODULE EventPipelineProofs -------------------------
(***************************************************************************)
(* Proofs about the pipeline, for any events, publishers, consumers and    *)
(* bounds, with overlapping deliveries and lost connections; for the work  *)
(* being committed once, as long as there was neither.                     *)
(***************************************************************************)
EXTENDS EventPipeline, TLAPS

(* Types.  A job that is not over has an attempt and a stall left to count. *)

HasRoom(e) == job[e].state \in {"none", "waiting", "active"} =>
                 job[e].failures < JobAttempts /\ job[e].stalls <= MaxStalls
Bounded == TypeOK /\ \A e \in Events : HasRoom(e)

\* The types hold at first, and every job has room.
LEMMA InitBounded == Init => Bounded
BY PipelineAssumption DEF Init, Bounded, TypeOK, HasRoom, OutboxStatuses, JobStates,
   InboxStatuses, ThreadStates, ItemSteps, NoItem, Deliveries

ItemRows == [event : Events \cup {None}, step : ItemSteps]
JobRows == [state : JobStates, failures : 0..JobAttempts, stalls : 0..(MaxStalls + 1)]
Threads == [Events -> [Consumers -> [Deliveries -> ThreadStates]]]

\* What a publisher's step may do to the rows, the batches and the count of faults.
LEMMA ItemTypes ==
    ASSUME item \in [Publishers -> ItemRows], NEW x \in Publishers,
           \/ item' = item
           \/ item' = [item EXCEPT ![x] = NoItem]
           \/ \E step \in ItemSteps : ToStep(x, step)
           \/ \E e \in Events : item' = [item EXCEPT ![x] = [event |-> e, step |-> "add"]]
    PROVE  item' \in [Publishers -> ItemRows]
<1>1. NoItem \in ItemRows /\ \A e \in Events : [event |-> e, step |-> "add"] \in ItemRows
  BY DEF ItemRows, NoItem, ItemSteps
<1>2. CASE item' = [item EXCEPT ![x] = NoItem]
  BY <1>1, <1>2
<1>3. CASE \E step \in ItemSteps : ToStep(x, step)
  BY <1>3 DEF ToStep, ItemRows
<1>4. CASE \E e \in Events : item' = [item EXCEPT ![x] = [event |-> e, step |-> "add"]]
  BY <1>1, <1>4
<1>. QED BY <1>2, <1>3, <1>4

\* Faults are counted up to their bound.
LEMMA FaultTypes == ASSUME faults \in 0..MaxFaults, Fault \/ UNCHANGED faults PROVE faults' \in 0..MaxFaults
BY PipelineAssumption DEF Fault

\* Steps that leave the jobs and the consumers alone.
LEMMA PublisherTypes ==
    ASSUME Bounded, NEW x \in Publishers, UNCHANGED <<job, thread, inbox, effects, calm>>,
           outbox' \in [Events -> OutboxStatuses], tries' \in [Events -> 0..OutboxAttempts],
           batch' \in [Publishers -> SUBSET Events],
           seen' \in [Publishers -> [Events -> 0..OutboxAttempts]],
           item' \in [Publishers -> ItemRows], faults' \in 0..MaxFaults
    PROVE  Bounded'
BY DEF Bounded, TypeOK, ItemRows, HasRoom

\* A claim counts a try of every row it takes.
LEMMA ClaimKeepsTypes ==
    ASSUME Bounded, NEW x \in Publishers, ClaimBatch(x)
    PROVE  Bounded'
<1>1. PICK claimed \in SUBSET {e \in Events : Due(e)} :
         /\ batch' = [batch EXCEPT ![x] = claimed]
         /\ outbox' = [e \in Events |-> IF e \in claimed THEN "processing" ELSE outbox[e]]
         /\ tries' = [e \in Events |-> IF e \in claimed THEN Capped(tries[e] + 1, OutboxAttempts)
                                                       ELSE tries[e]]
         /\ seen' = [seen EXCEPT ![x] = [e \in Events |-> IF e \in claimed THEN tries'[e] ELSE 0]]
  BY DEF ClaimBatch
<1>2. tries' \in [Events -> 0..OutboxAttempts]
  BY <1>1, PipelineAssumption DEF Bounded, TypeOK, Capped
<1>3. seen' \in [Publishers -> [Events -> 0..OutboxAttempts]]
  <2>1. [e \in Events |-> IF e \in claimed THEN tries'[e] ELSE 0] \in [Events -> 0..OutboxAttempts]
    BY <1>2, PipelineAssumption
  <2>. QED BY <1>1, <2>1 DEF Bounded, TypeOK
<1>4. batch' \in [Publishers -> SUBSET Events]
  BY <1>1 DEF Bounded, TypeOK
<1>5. outbox' \in [Events -> OutboxStatuses]
  BY <1>1 DEF Bounded, TypeOK, OutboxStatuses
<1>6. /\ UNCHANGED <<item, job, thread, inbox, effects, calm, faults>>
      /\ item \in [Publishers -> ItemRows] /\ faults \in 0..MaxFaults
  BY DEF ClaimBatch, consumerVars, Bounded, TypeOK, ItemRows
<1>. QED BY <1>2, <1>3, <1>4, <1>5, <1>6, PublisherTypes

\* The publishers' steps keep the types.
LEMMA PublisherKeepsTypes ==
    ASSUME Bounded, NEW x \in Publishers, PublisherStep(x) \/ PublisherCrash(x)
    PROVE  Bounded'
<1>t. /\ item \in [Publishers -> ItemRows] /\ faults \in 0..MaxFaults
      /\ outbox \in [Events -> OutboxStatuses] /\ tries \in [Events -> 0..OutboxAttempts]
      /\ batch \in [Publishers -> SUBSET Events]
      /\ seen \in [Publishers -> [Events -> 0..OutboxAttempts]]
  BY DEF Bounded, TypeOK, ItemRows
<1>1. CASE ClaimBatch(x)
  BY <1>1, ClaimKeepsTypes
<1>2. CASE NextItem(x)
  <2>1. item' \in [Publishers -> ItemRows]
    BY <1>2, <1>t, ItemTypes DEF NextItem
  <2>. QED BY <1>2, <1>t, <2>1, PublisherTypes DEF NextItem, outboxVars, consumerVars
<1>3. CASE AddJob(x)
  <2>1. item' \in [Publishers -> ItemRows]
    BY <1>3, <1>t, ItemTypes DEF AddJob, ItemSteps
  <2>2. job' = job \/ Enqueued(item[x].event)
    BY <1>3 DEF AddJob
  <2>3. job' \in [Events -> JobRows] /\ \A e \in Events : HasRoom(e)'
    <3>1. job \in [Events -> JobRows] /\ \A e \in Events : HasRoom(e)
      BY DEF Bounded, TypeOK, JobRows
    <3>2. CASE job' = job
      BY <3>1, <3>2 DEF HasRoom
    <3>3. CASE job' = [job EXCEPT ![item[x].event].state = "waiting"]
                /\ job[item[x].event].state = "none"
      BY <3>1, <3>3 DEF HasRoom, JobRows, JobStates
    <3>. QED BY <2>2, <3>2, <3>3 DEF Enqueued
  <2>. QED BY <1>3, <1>t, <2>1, <2>3 DEF AddJob, outboxVars, consumerVars, Bounded, TypeOK, JobRows, ItemRows
<1>4. CASE MarkPublished(x)
  <2>1. item' \in [Publishers -> ItemRows]
    BY <1>4, <1>t, ItemTypes DEF MarkPublished, Done, ItemSteps
  <2>2. outbox' \in [Events -> OutboxStatuses]
    BY <1>4, <1>t DEF MarkPublished, OutboxStatuses
  <2>4. batch' \in [Publishers -> SUBSET Events]
    BY <1>4, <1>t DEF MarkPublished, Done
  <2>3. faults' \in 0..MaxFaults
    BY <1>4, <1>t, FaultTypes DEF MarkPublished
  <2>. QED BY <1>4, <1>t, <2>1, <2>2, <2>3, <2>4, PublisherTypes DEF MarkPublished, consumerVars
<1>5. CASE MarkFailed(x)
  <2>1. item' \in [Publishers -> ItemRows]
    BY <1>5, <1>t, ItemTypes DEF MarkFailed, Done
  <2>2. outbox' \in [Events -> OutboxStatuses]
    BY <1>5, <1>t DEF MarkFailed, OutboxStatuses
  <2>4. batch' \in [Publishers -> SUBSET Events]
    BY <1>5, <1>t DEF MarkFailed, Done
  <2>3. faults' \in 0..MaxFaults
    BY <1>5, <1>t, FaultTypes DEF MarkFailed
  <2>. QED BY <1>5, <1>t, <2>1, <2>2, <2>3, <2>4, PublisherTypes DEF MarkFailed, consumerVars
<1>6. CASE PublisherCrash(x)
  <2>1. item' \in [Publishers -> ItemRows]
    BY <1>6, <1>t, ItemTypes DEF PublisherCrash
  <2>2. batch' \in [Publishers -> SUBSET Events]
    BY <1>6, <1>t DEF PublisherCrash
  <2>3. faults' \in 0..MaxFaults
    BY <1>6, <1>t, FaultTypes DEF PublisherCrash
  <2>. QED BY <1>6, <1>t, <2>1, <2>2, <2>3, PublisherTypes
       DEF PublisherCrash, outboxVars, consumerVars
<1>. QED BY <1>1, <1>2, <1>3, <1>4, <1>5, <1>6 DEF PublisherStep

\* The queue's steps keep the types: a job is redelivered only while it has room.
LEMMA JobKeepsTypes ==
    ASSUME Bounded, NEW e \in Events, Append(e) \/ QueueStep(e) \/ WorkerCrash(e)
    PROVE  Bounded'
<1>t. /\ job \in [Events -> JobRows] /\ \A x \in Events : HasRoom(x)
      /\ thread \in Threads /\ faults \in 0..MaxFaults
  BY DEF Bounded, TypeOK, JobRows, Threads
<1>b. {JobAttempts, MaxStalls} \subseteq Nat
  BY PipelineAssumption
<1>1. CASE Append(e)
  BY <1>1 DEF Append, HasRoom, Bounded, TypeOK, OutboxStatuses, publisherVars, consumerVars
<1>2. CASE StartDelivery(e)
  <2>1. thread' \in Threads
    BY <1>2, <1>t DEF StartDelivery, ThreadStates, Threads
  <2>2. \A x \in Events : job'[x] \in JobRows /\ HasRoom(x)'
    BY <1>2, <1>t DEF StartDelivery, HasRoom, JobStates, JobRows
  <2>. QED BY <1>2, <1>t, <2>1, <2>2 DEF StartDelivery, Bounded, TypeOK, JobRows, Threads,
             outboxVars, publisherVars
<1>3. CASE CompleteJob(e)
  <2>2. \A x \in Events : job'[x] \in JobRows /\ HasRoom(x)'
    BY <1>3, <1>t DEF CompleteJob, HasRoom, JobStates, JobRows
  <2>. QED BY <1>3, <1>t, <2>2 DEF CompleteJob, Bounded, TypeOK, JobRows, outboxVars,
             publisherVars, consumerVars
<1>4. CASE FailJob(e)
  <2>1. job[e].failures \in 0..(JobAttempts - 1) /\ job[e].stalls \in 0..MaxStalls
    BY <1>4, <1>t, <1>b DEF FailJob, HasRoom, JobRows
  <2>3. job'[e] \in JobRows /\ HasRoom(e)'
    <3>1. job[e] \in JobRows
      BY <1>t
    <3>2. job'[e] = [job[e] EXCEPT !.state = IF HasAttempt(e) THEN "waiting" ELSE "failed",
                                   !.failures = job[e].failures + 1]
      BY <1>4, <1>t DEF FailJob
    <3>3. job'[e] = [state |-> IF HasAttempt(e) THEN "waiting" ELSE "failed",
                     failures |-> job[e].failures + 1, stalls |-> job[e].stalls]
      BY <3>1, <3>2 DEF JobRows
    <3>. QED BY <1>b, <2>1, <3>3 DEF HasAttempt, HasRoom, JobStates, JobRows
  <2>4. \A x \in Events \ {e} : job'[x] = job[x]
    BY <1>4, <1>t DEF FailJob
  <2>2. \A x \in Events : job'[x] \in JobRows /\ HasRoom(x)'
    BY <1>t, <2>3, <2>4 DEF HasRoom
  <2>. QED BY <1>4, <1>t, <2>2 DEF FailJob, Bounded, TypeOK, JobRows, outboxVars,
             publisherVars, consumerVars
<1>5. CASE StallJob(e)
  <2>1. job[e].failures \in 0..(JobAttempts - 1) /\ job[e].stalls \in 0..MaxStalls
    BY <1>5, <1>t, <1>b DEF StallJob, HasRoom, JobRows
  <2>4. job'[e] \in JobRows /\ HasRoom(e)'
    <3>1. job[e] \in JobRows
      BY <1>t
    <3>2. job'[e] = [job[e] EXCEPT !.state = IF job[e].stalls < MaxStalls THEN "waiting" ELSE "failed",
                                   !.stalls = job[e].stalls + 1]
      BY <1>5, <1>t DEF StallJob
    <3>3. job'[e] = [state |-> IF job[e].stalls < MaxStalls THEN "waiting" ELSE "failed",
                     failures |-> job[e].failures, stalls |-> job[e].stalls + 1]
      BY <3>1, <3>2 DEF JobRows
    <3>. QED BY <1>b, <2>1, <3>3 DEF HasRoom, JobStates, JobRows
  <2>5. \A x \in Events \ {e} : job'[x] = job[x]
    BY <1>5, <1>t DEF StallJob
  <2>2. \A x \in Events : job'[x] \in JobRows /\ HasRoom(x)'
    BY <1>t, <2>4, <2>5 DEF HasRoom
  <2>3. faults' \in 0..MaxFaults
    BY <1>5, <1>t, FaultTypes DEF StallJob
  <2>. QED BY <1>5, <1>t, <2>2, <2>3 DEF StallJob, Bounded, TypeOK, JobRows, outboxVars,
             publisherVars, consumerVars
<1>6. CASE WorkerCrash(e)
  <2>1. thread' \in Threads
    BY <1>6, <1>t DEF WorkerCrash, ThreadStates, Threads
  <2>3. faults' \in 0..MaxFaults
    BY <1>6, <1>t, FaultTypes DEF WorkerCrash
  <2>. QED BY <1>6, <2>1, <2>3 DEF WorkerCrash, Bounded, TypeOK, HasRoom, Threads, outboxVars,
             publisherVars
<1>. QED BY <1>1, <1>2, <1>3, <1>4, <1>5, <1>6 DEF QueueStep

\* One entry of a table by event and consumer is replaced.
LEMMA TableUpdate ==
    ASSUME NEW S, NEW t \in [Events -> [Consumers -> S]], NEW e \in Events, NEW c \in Consumers,
           NEW n \in S
    PROVE  [t EXCEPT ![e][c] = n] \in [Events -> [Consumers -> S]]
OBVIOUS

\* The consumers' steps keep the types.
LEMMA ConsumerKeepsTypes ==
    ASSUME Bounded, NEW e \in Events, NEW c \in Consumers, NEW d \in Deliveries,
           ConsumerStep(e, c, d)
    PROVE  Bounded'
<1>t. /\ thread \in Threads /\ faults \in 0..MaxFaults
      /\ inbox \in [Events -> [Consumers -> InboxStatuses]]
      /\ effects \in [Events -> [Consumers -> 0..2]]
  BY DEF Bounded, TypeOK, Threads
<1>1. thread' \in Threads
  <2>1. \E state \in ThreadStates : SetThread(e, c, d, state)
    BY DEF ConsumerStep, Execute, RecordFailure, ThreadStates
  <2>. QED BY <1>t, <2>1 DEF SetThread, Threads
<1>2. inbox' \in [Events -> [Consumers -> InboxStatuses]]
  <2>1. inbox' = inbox \/ \E status \in InboxStatuses : inbox' = [inbox EXCEPT ![e][c] = status]
    BY DEF ConsumerStep, Execute, RecordFailure, InboxStatuses
  <2>. QED BY <1>t, <2>1
<1>3. effects' \in [Events -> [Consumers -> 0..2]]
  <2>1. effects' = effects \/ effects' = [effects EXCEPT ![e][c] = Capped(@ + 1, 2)]
    BY DEF ConsumerStep, Execute, RecordFailure
  <2>2. effects[e][c] \in 0..2 /\ Capped(effects[e][c] + 1, 2) \in 0..2
    BY <1>t DEF Capped
  <2>3. \A n \in 0..2 : [effects EXCEPT ![e][c] = n] \in [Events -> [Consumers -> 0..2]]
    BY <1>t, TableUpdate
  <2>4. [effects EXCEPT ![e][c] = Capped(effects[e][c] + 1, 2)] \in [Events -> [Consumers -> 0..2]]
    BY <2>2, <2>3
  <2>. QED BY <1>t, <2>1, <2>4
<1>4. faults' \in 0..MaxFaults
  BY <1>t, FaultTypes DEF ConsumerStep, Execute, RecordFailure, Disconnected
<1>5. UNCHANGED <<outbox, tries, batch, seen, item, job>> /\ calm' \in BOOLEAN
  BY DEF ConsumerStep, Execute, RecordFailure, Disconnected, Bounded, TypeOK, outboxVars, publisherVars
<1>. QED BY <1>1, <1>2, <1>3, <1>4, <1>5 DEF Bounded, TypeOK, HasRoom, Threads

\* A stutter keeps the types.
LEMMA BoundedStutters == ASSUME Bounded, UNCHANGED vars PROVE Bounded'
BY DEF Bounded, TypeOK, HasRoom, vars, outboxVars, publisherVars, consumerVars

\* Every step keeps the types.
LEMMA StepKeepsTypes == ASSUME Bounded, [Next]_vars PROVE Bounded'
<1>. SUFFICES ASSUME Next PROVE Bounded'
  BY BoundedStutters
<1>. QED BY PublisherKeepsTypes, JobKeepsTypes, ConsumerKeepsTypes DEF Next

\* The rows, batches, jobs, deliveries and inboxes of the pipeline keep their types, and no
\* job is counted beyond its attempts and stalls.
THEOREM TypeCorrect == Spec => []TypeOK
<1>1. Bounded => TypeOK
  BY DEF Bounded
<1>. QED BY <1>1, InitBounded, StepKeepsTypes, PTL DEF Spec

(* The chain from a committed event to its effects: every link keeps the one before it. *)

Queued(e) == job[e].state # "none"

RowInv(e) ==
    /\ outbox[e] = "published" => Queued(e)
    /\ Queued(e) => outbox[e] # "absent"

PublisherInv(x) ==
    /\ \A e \in batch[x] : outbox[e] # "absent"
    /\ item[x].step # "none" => item[x].event \in Events /\ outbox[item[x].event] # "absent"
    /\ item[x].step = "mark_published" => Queued(item[x].event)

WorkInv(e, c) ==
    /\ \A d \in Deliveries : thread[e][c][d] # "none" => Queued(e)
    /\ \A d \in Deliveries : thread[e][c][d] = "resolved" => effects[e][c] > 0
    /\ inbox[e][c] = "processed" => effects[e][c] > 0
    /\ job[e].state = "completed" => effects[e][c] > 0
    /\ effects[e][c] > 0 => Queued(e)

Rows == \A e \in Events : RowInv(e)
AllPublishers == \A x \in Publishers : PublisherInv(x)
Works == \A e \in Events, c \in Consumers : WorkInv(e, c)
Chain == Rows /\ AllPublishers /\ Works

\* The chain holds at first, as nothing is published.
LEMMA InitChain == Init => Chain
BY DEF Init, Chain, Rows, AllPublishers, Works, RowInv, PublisherInv, WorkInv, Queued, NoItem

\* Nothing in the chain depends on the counts of attempts and faults.
LEMMA WorksKept ==
    ASSUME Works, UNCHANGED <<thread, inbox, effects>>,
           \A e \in Events : \/ job'[e] = job[e]
                             \/ Queued(e)' /\ job'[e].state # "completed"
    PROVE  Works'
BY DEF Works, WorkInv, Queued

\* Steps elsewhere leave a publisher what it relies on: rows stay, and so do queued jobs.
LEMMA PublishersKept ==
    ASSUME AllPublishers, TypeOK, UNCHANGED <<batch, item>>,
           \A e \in Events : /\ outbox[e] # "absent" => outbox'[e] # "absent"
                             /\ Queued(e) => Queued(e)'
    PROVE  AllPublishers'
BY DEF AllPublishers, PublisherInv, TypeOK

\* What a publisher does with one item keeps the chain.
LEMMA PublisherKeepsChain ==
    ASSUME Bounded, Chain, NEW x \in Publishers, PublisherStep(x) \/ PublisherCrash(x)
    PROVE  Chain'
<1>t. TypeOK /\ Rows /\ AllPublishers /\ Works
  BY DEF Bounded, Chain
<1>1. CASE ClaimBatch(x)
  <2>1. PICK claimed \in SUBSET {e \in Events : Due(e)} :
          /\ batch' = [batch EXCEPT ![x] = claimed]
          /\ outbox' = [e \in Events |-> IF e \in claimed THEN "processing" ELSE outbox[e]]
    BY <1>1 DEF ClaimBatch
  <2>2. UNCHANGED <<item, job, thread, inbox, effects>>
    BY <1>1 DEF ClaimBatch, consumerVars
  <2>3. \A e \in Events : /\ outbox[e] # "absent" => outbox'[e] # "absent"
                          /\ outbox'[e] = "published" => outbox[e] = "published"
                          /\ Queued(e)' <=> Queued(e)
    BY <2>1, <2>2 DEF Queued
  <2>4. Rows'
    BY <1>t, <2>3 DEF Rows, RowInv, Queued
  <2>5. AllPublishers'
    <3>1. \A e \in claimed : outbox'[e] # "absent"
      BY <2>1
    <3>2. \A y \in Publishers : batch'[y] = claimed \/ batch'[y] = batch[y]
      BY <1>t, <2>1 DEF TypeOK
    <3>3. \A y \in Publishers : batch[y] \subseteq Events
      BY <1>t DEF TypeOK
    <3>4. SUFFICES ASSUME NEW y \in Publishers PROVE PublisherInv(y)'
      BY DEF AllPublishers
    <3>5. PublisherInv(y) /\ item'[y] = item[y]
      BY <1>t, <2>2 DEF AllPublishers
    <3>6. \A e \in batch'[y] : outbox'[e] # "absent"
      BY <2>3, <3>1, <3>2, <3>3, <3>5 DEF PublisherInv
    <3>. QED BY <2>2, <2>3, <3>5, <3>6 DEF PublisherInv, Queued
  <2>. QED BY <1>t, <2>2, <2>4, <2>5, WorksKept DEF Chain
<1>2. CASE NextItem(x)
  <2>1. PICK e \in batch[x] : item' = [item EXCEPT ![x] = [event |-> e, step |-> "add"]]
    BY <1>2 DEF NextItem
  <2>2. UNCHANGED <<outbox, batch, job, thread, inbox, effects>>
    BY <1>2 DEF NextItem, outboxVars, consumerVars
  <2>3. e \in Events /\ outbox[e] # "absent"
    BY <1>t DEF TypeOK, AllPublishers, PublisherInv
  <2>4. \A y \in Publishers : item'[y] = item[y] \/ item'[y] = [event |-> e, step |-> "add"]
    BY <1>t, <2>1 DEF TypeOK
  <2>5. AllPublishers'
    BY <1>t, <2>2, <2>3, <2>4 DEF AllPublishers, PublisherInv, Queued
  <2>. QED BY <1>t, <2>2, <2>5, WorksKept DEF Chain, Rows, RowInv, Queued
<1>3. CASE AddJob(x)
  <2>1. item[x].step = "add" /\ UNCHANGED <<outbox, batch, thread, inbox, effects>>
    BY <1>3 DEF AddJob, At, outboxVars, consumerVars
  <2>2. PICK e \in Events : e = item[x].event /\ outbox[e] # "absent"
    BY <1>t, <2>1 DEF AllPublishers, PublisherInv
  <2>3. /\ Enqueued(e) \/ job' = job
        /\ \/ Enqueued(e) /\ ToStep(x, "mark_published")
           \/ ToStep(x, "mark_failed")
    BY <1>3, <2>2 DEF AddJob
  <2>4. /\ \A y \in Events : job'[y] = job[y] \/ (y = e /\ job'[y].state = "waiting")
        /\ Enqueued(e) => Queued(e)'
    <3>1. job \in [Events -> JobRows]
      BY <1>t DEF TypeOK, JobRows
    <3>2. [job EXCEPT ![e].state = "waiting"][e].state = "waiting"
      BY <3>1, <2>2 DEF JobRows
    <3>3. \A y \in Events \ {e} : [job EXCEPT ![e].state = "waiting"][y] = job[y]
      BY <3>1
    <3>4. Enqueued(e) => job'[e].state # "none"
      BY <3>2 DEF Enqueued
    <3>. QED BY <2>2, <2>3, <3>2, <3>3, <3>4 DEF Enqueued, Queued
  <2>5. Rows'
    BY <1>t, <2>1, <2>2, <2>4 DEF Rows, RowInv, Queued
  <2>6. Works'
    BY <1>t, <2>1, <2>4, WorksKept DEF Queued
  <2>7. \A y \in Publishers : \/ item'[y] = item[y]
                              \/ /\ item'[y].event = e /\ item'[y].step \in ItemSteps
                                 /\ item'[y].step = "mark_published" => Queued(e)'
    BY <1>t, <2>2, <2>3, <2>4 DEF TypeOK, ToStep, ItemSteps
  <2>8. \A y \in Events : Queued(y) => Queued(y)'
    BY <2>4 DEF Queued
  <2>9. AllPublishers'
    BY <1>t, <2>1, <2>2, <2>7, <2>8 DEF AllPublishers, PublisherInv
  <2>. QED BY <2>5, <2>6, <2>9 DEF Chain
<1>4. CASE MarkPublished(x) \/ MarkFailed(x) \/ PublisherCrash(x)
  <2> DEFINE e == item[x].event
  <2>1. UNCHANGED <<job, thread, inbox, effects>>
    BY <1>4 DEF MarkPublished, MarkFailed, PublisherCrash, consumerVars
  <2>2. \/ outbox' = outbox
        \/ /\ item[x].step = "mark_published"
           /\ outbox' = [outbox EXCEPT ![e] = "published"]
        \/ /\ item[x].step = "mark_failed"
           /\ outbox' \in {[outbox EXCEPT ![e] = "dead_letter"], [outbox EXCEPT ![e] = "pending"]}
    BY <1>4 DEF MarkPublished, MarkFailed, PublisherCrash, At, outboxVars
  <2>3. \A y \in Events : /\ outbox[y] # "absent" => outbox'[y] # "absent"
                          /\ outbox'[y] = "published" => outbox[y] = "published" \/ Queued(y)
                          /\ Queued(y)' <=> Queued(y)
    BY <1>t, <2>1, <2>2 DEF TypeOK, AllPublishers, PublisherInv, Queued
  <2>4. Rows'
    BY <1>t, <2>3 DEF Rows, RowInv, Queued
  <2>5. \/ ToStep(x, "mark_failed") /\ batch' = batch /\ item[x].step = "mark_published"
        \/ /\ item' = [item EXCEPT ![x] = NoItem]
           /\ batch' \in {[batch EXCEPT ![x] = {}], [batch EXCEPT ![x] = batch[x] \ {e}]}
    BY <1>4 DEF MarkPublished, MarkFailed, PublisherCrash, Done, At
  <2>6. ASSUME NEW y \in Publishers PROVE PublisherInv(y)'
    <3>1. PublisherInv(y) /\ batch[y] \subseteq Events
      BY <1>t DEF AllPublishers, TypeOK
    <3>2. batch'[y] \subseteq batch[y]
      <4>1. batch \in [Publishers -> SUBSET Events]
        BY <1>t DEF TypeOK
      <4>2. CASE batch' = batch
        BY <4>2
      <4>3. CASE batch' = [batch EXCEPT ![x] = {}]
        BY <4>1, <4>3
      <4>4. CASE batch' = [batch EXCEPT ![x] = batch[x] \ {e}]
        <5>1. batch'[y] = batch[y] \/ batch'[y] = batch[y] \ {e}
          BY <4>1, <4>4
        <5>. QED BY <5>1
      <4>. QED BY <2>5, <4>2, <4>3, <4>4
    <3>3. \/ item'[y] = item[y]
          \/ item'[y] = NoItem
          \/ /\ item[y].step = "mark_published"
             /\ item'[y].event = item[y].event /\ item'[y].step = "mark_failed"
      BY <1>t, <2>5 DEF TypeOK, ToStep
    <3>. QED BY <2>3, <3>1, <3>2, <3>3 DEF PublisherInv, NoItem, Queued
  <2>. QED BY <1>t, <2>1, <2>4, <2>6, WorksKept DEF Chain, AllPublishers
<1>. QED BY <1>1, <1>2, <1>3, <1>4 DEF PublisherStep

\* What a job and its deliveries do keeps the chain.
LEMMA JobKeepsChain ==
    ASSUME Bounded, Chain, NEW e \in Events, Append(e) \/ QueueStep(e) \/ WorkerCrash(e)
    PROVE  Chain'
<1>t. /\ TypeOK /\ Rows /\ AllPublishers /\ Works
      /\ HasRoom(e) /\ job \in [Events -> JobRows] /\ thread \in Threads
  BY DEF Bounded, Chain, TypeOK, JobRows, Threads
<1>d. job[e].state = "active" => Delivery(e) \in Deliveries
  <2>1. job[e] \in JobRows /\ {JobAttempts, MaxStalls} \subseteq Nat
    BY <1>t, PipelineAssumption
  <2>. QED BY <1>t, <2>1 DEF HasRoom, Delivery, Deliveries, JobRows
<1>1. CASE Append(e)
  <2>1. UNCHANGED <<batch, item, job, thread, inbox, effects>>
    BY <1>1 DEF Append, publisherVars, consumerVars
  <2>2. outbox[e] = "absent" /\ outbox' = [outbox EXCEPT ![e] = "pending"]
    BY <1>1 DEF Append
  <2>3. \A y \in Events : outbox'[y] = outbox[y] \/ outbox'[y] = "pending"
    BY <1>t, <2>2 DEF TypeOK
  <2>4. Rows'
    BY <1>t, <2>1, <2>3 DEF Rows, RowInv, Queued
  <2>5. AllPublishers'
    BY <1>t, <2>1, <2>3, PublishersKept DEF Queued
  <2>. QED BY <1>t, <2>1, <2>4, <2>5, WorksKept DEF Chain
<1>2. ASSUME Queued(e), Queued(e)', \A y \in Events \ {e} : job'[y] = job[y],
             job'[e].state = "completed" => \A c \in Consumers : effects[e][c] > 0,
             UNCHANGED <<outbox, batch, item, inbox, effects>>,
             \A y \in Events, c \in Consumers, d \in Deliveries :
                /\ thread'[y][c][d] # "none" => Queued(y)
                /\ thread'[y][c][d] = "resolved" => thread[y][c][d] = "resolved"
      PROVE  Chain'
  <2>1. \A y \in Events : Queued(y)' <=> Queued(y)
    BY <1>2 DEF Queued
  <2>2. Rows'
    BY <1>t, <1>2, <2>1 DEF Rows, RowInv, Queued
  <2>3. AllPublishers'
    BY <1>t, <1>2, <2>1, PublishersKept
  <2>4. Works'
    BY <1>t, <1>2, <2>1 DEF Works, WorkInv, Queued
  <2>. QED BY <2>2, <2>3, <2>4 DEF Chain
<1>3. CASE StartDelivery(e)
  <2>1. \A y \in Events, c \in Consumers, d \in Deliveries :
           thread'[y][c][d] = thread[y][c][d] \/ (y = e /\ thread'[y][c][d] = "working")
    BY <1>t, <1>3 DEF StartDelivery, Threads
  <2>2. /\ Queued(e) /\ Queued(e)' /\ job'[e].state # "completed"
        /\ \A y \in Events \ {e} : job'[y] = job[y]
    BY <1>t, <1>3 DEF StartDelivery, Queued, JobRows
  <2>3. \A y \in Events, c \in Consumers, d \in Deliveries :
           /\ thread'[y][c][d] # "none" => Queued(y)
           /\ thread'[y][c][d] = "resolved" => thread[y][c][d] = "resolved"
    BY <1>t, <2>1, <2>2 DEF Works, WorkInv
  <2>. QED BY <1>2, <1>3, <2>2, <2>3 DEF StartDelivery, outboxVars, publisherVars
<1>4. CASE WorkerCrash(e)
  <2>1. \A y \in Events, c \in Consumers, d \in Deliveries :
           \/ thread'[y][c][d] = thread[y][c][d]
           \/ thread[y][c][d] \in AtWork /\ thread'[y][c][d] = "dead"
    BY <1>t, <1>4 DEF WorkerCrash, Threads
  <2>2. \A y \in Events, c \in Consumers, d \in Deliveries :
           /\ thread'[y][c][d] # "none" => Queued(y)
           /\ thread'[y][c][d] = "resolved" => thread[y][c][d] = "resolved"
    BY <1>t, <2>1 DEF Works, WorkInv, AtWork
  <2>. QED BY <1>2, <1>4, <2>2 DEF WorkerCrash, outboxVars, publisherVars, Queued
<1>5. CASE CompleteJob(e)
  <2>1. \A c \in Consumers : effects[e][c] > 0
    BY <1>t, <1>d, <1>5 DEF CompleteJob, AllResolved, Works, WorkInv
  <2>2. /\ Queued(e) /\ Queued(e)'
        /\ \A y \in Events \ {e} : job'[y] = job[y]
    BY <1>t, <1>5 DEF CompleteJob, Queued, JobRows
  <2>. QED BY <1>t, <1>2, <1>5, <2>1, <2>2
       DEF CompleteJob, outboxVars, publisherVars, consumerVars, Works, WorkInv
<1>6. CASE FailJob(e) \/ StallJob(e)
  <2>1. /\ Queued(e) /\ job'[e].state \in {"waiting", "failed"}
        /\ \A y \in Events \ {e} : job'[y] = job[y]
    BY <1>t, <1>6 DEF FailJob, StallJob, Queued, JobRows
  <2>. QED BY <1>t, <1>2, <1>6, <2>1
       DEF FailJob, StallJob, outboxVars, publisherVars, consumerVars, Works, WorkInv, Queued
<1>. QED BY <1>1, <1>3, <1>4, <1>5, <1>6 DEF QueueStep

\* One consumer's transaction touches its own entries alone.
LEMMA OwnEntries ==
    ASSUME TypeOK, NEW e \in Events, NEW c \in Consumers, NEW d \in Deliveries,
           ConsumerStep(e, c, d)
    PROVE  /\ \A y \in Events, k \in Consumers : (y = e /\ k = c) \/
                 /\ thread'[y][k] = thread[y][k]
                 /\ inbox'[y][k] = inbox[y][k] /\ effects'[y][k] = effects[y][k]
           /\ \A x \in Deliveries \ {d} : thread'[e][c][x] = thread[e][c][x]
           /\ calm' => calm
           /\ \/ /\ thread[e][c][d] = "working" /\ thread'[e][c][d] \in {"resolved", "recording"}
                 /\ inbox'[e][c] = inbox[e][c] /\ effects'[e][c] = effects[e][c]
                 /\ thread'[e][c][d] = "resolved" => inbox[e][c] = "processed"
                 /\ thread'[e][c][d] = "recording" => inbox[e][c] # "processed" \/ ~calm'
              \/ /\ thread[e][c][d] = "working" /\ thread'[e][c][d] \in {"resolved", "recording"}
                 /\ inbox[e][c] # "processed" /\ inbox'[e][c] = "processed"
                 /\ effects'[e][c] = Capped(effects[e][c] + 1, 2)
                 /\ thread'[e][c][d] = "recording" => ~calm'
              \/ /\ thread[e][c][d] = "recording" /\ thread'[e][c][d] = "rejected"
                 /\ inbox'[e][c] \in {inbox[e][c], "failed"} /\ effects'[e][c] = effects[e][c]
<1>t. /\ thread \in Threads
      /\ inbox \in [Events -> [Consumers -> InboxStatuses]]
      /\ effects \in [Events -> [Consumers -> 0..2]]
  BY DEF TypeOK, Threads
<1>1. PICK state \in {"resolved", "recording", "rejected"} : SetThread(e, c, d, state)
  BY DEF ConsumerStep, Execute, RecordFailure
<1>2. /\ thread'[e][c][d] = state
      /\ \A x \in Deliveries \ {d} : thread'[e][c][x] = thread[e][c][x]
      /\ \A y \in Events, k \in Consumers :
            (y = e /\ k = c) \/ thread'[y][k] = thread[y][k]
  BY <1>t, <1>1 DEF SetThread, Threads
<1>3. \A y \in Events, k \in Consumers :
         \/ y = e /\ k = c
         \/ inbox'[y][k] = inbox[y][k] /\ effects'[y][k] = effects[y][k]
  BY <1>t DEF ConsumerStep, Execute, RecordFailure
<1>k. calm' => calm
  BY DEF ConsumerStep, Execute, RecordFailure, Disconnected
<1>4. CASE Execute(e, c, d)
  BY <1>t, <1>2, <1>k, <1>4 DEF Execute, Disconnected, SetThread, Handled, Threads
<1>5. CASE RecordFailure(e, c, d)
  BY <1>t, <1>2, <1>5 DEF RecordFailure, SetThread, Threads
<1>. QED BY <1>2, <1>3, <1>k, <1>4, <1>5 DEF ConsumerStep

\* What a consumer's transactions do keeps the chain.
LEMMA ConsumerKeepsChain ==
    ASSUME Bounded, Chain, NEW e \in Events, NEW c \in Consumers, NEW d \in Deliveries,
           ConsumerStep(e, c, d)
    PROVE  Chain'
<1>t. /\ TypeOK /\ Rows /\ AllPublishers /\ Works
      /\ effects[e][c] \in 0..2
  BY DEF Bounded, Chain, TypeOK
<1>1. UNCHANGED <<outbox, batch, item, job>>
  BY DEF ConsumerStep, Execute, RecordFailure, outboxVars, publisherVars
<1>2. Rows' /\ AllPublishers'
  BY <1>t, <1>1, PublishersKept DEF Rows, RowInv, Queued
<1>3. Queued(e) /\ WorkInv(e, c)
  BY <1>t, OwnEntries DEF Works, WorkInv
<1>4. WorkInv(e, c)'
  <2>1. Capped(effects[e][c] + 1, 2) > 0 /\ effects[e][c] \in Nat
    BY <1>t DEF Capped
  <2>. QED BY <1>t, <1>1, <1>3, <2>1, OwnEntries DEF WorkInv, Queued
<1>5. \A y \in Events, k \in Consumers : (y = e /\ k = c) \/ WorkInv(y, k)'
  BY <1>t, <1>1, OwnEntries DEF Works, WorkInv, Queued
<1>. QED BY <1>2, <1>4, <1>5 DEF Chain, Works

\* A stutter keeps the chain.
LEMMA ChainStutters == ASSUME Chain, UNCHANGED vars PROVE Chain'
BY DEF Chain, Rows, AllPublishers, Works, RowInv, PublisherInv, WorkInv, Queued, vars,
       outboxVars, publisherVars, consumerVars

\* Every step keeps the chain.
LEMMA StepKeepsChain == ASSUME Bounded, Chain, [Next]_vars PROVE Chain'
<1>. SUFFICES ASSUME Next PROVE Chain'
  BY ChainStutters
<1>. QED BY PublisherKeepsChain, JobKeepsChain, ConsumerKeepsChain DEF Next

\* Types and chain hold in every state.
LEMMA ChainHolds == Spec => [](Bounded /\ Chain)
<1>1. Init => Bounded /\ Chain
  BY InitBounded, InitChain
<1>2. Bounded /\ Chain /\ [Next]_vars => (Bounded /\ Chain)'
  BY StepKeepsTypes, StepKeepsChain
<1>. QED BY <1>1, <1>2, PTL DEF Spec

\* No outbox row is marked published without its job in the queue, whichever publishers
\* claimed it and whatever failed between the two writes.
THEOREM PublishedImpliesQueued == Spec => []PublishedIsQueued
<1>1. Chain => PublishedIsQueued
  BY DEF Chain, Rows, RowInv, Queued, PublishedIsQueued
<1>. QED BY <1>1, ChainHolds, PTL

\* A job is completed only when every consumer's work is committed, and work is committed
\* only for an event whose business change was.
THEOREM CompletedImpliesApplied == Spec => []CompletedIsApplied
<1>1. Chain => CompletedIsApplied
  BY DEF Chain, Rows, Works, RowInv, WorkInv, Queued, CompletedIsApplied
<1>. QED BY <1>1, ChainHolds, PTL

(* Work committed once, while deliveries do not overlap and no acknowledgement is lost: a
   failure is then recorded only by the one transaction at work, which knows the row is not
   processed. *)

OnceInv(e, c) ==
    /\ effects[e][c] <= 1
    /\ effects[e][c] > 0 => inbox[e][c] = "processed"
    /\ \A d \in Deliveries : thread[e][c][d] = "recording" => inbox[e][c] # "processed"
    /\ \A d1, d2 \in Deliveries :
          thread[e][c][d1] \in AtWork /\ thread[e][c][d2] \in AtWork => d1 = d2

Once == calm => \A e \in Events, c \in Consumers : OnceInv(e, c)

\* No work is committed at first.
LEMMA InitOnce == Init => Once
BY DEF Init, Once, OnceInv, AtWork

\* Steps that leave the consumers alone keep Once.
LEMMA OnceKept ==
    ASSUME Once, UNCHANGED <<thread, inbox, effects, calm>>
    PROVE  Once'
BY DEF Once, OnceInv

\* The queue keeps Once, as a delivery that starts beside another ends the calm.
LEMMA JobKeepsOnce ==
    ASSUME Bounded, Once, NEW e \in Events, Append(e) \/ QueueStep(e) \/ WorkerCrash(e)
    PROVE  Once'
<1>t. thread \in Threads
  BY DEF Bounded, TypeOK, Threads
<1>1. CASE StartDelivery(e)
  <2>1. /\ \A y \in Events \ {e}, c \in Consumers, d \in Deliveries :
              thread'[y][c][d] = thread[y][c][d]
        /\ \A c \in Consumers, d \in Deliveries :
              thread'[e][c][d] = IF d = Delivery(e) THEN "working" ELSE thread[e][c][d]
    BY <1>t, <1>1 DEF StartDelivery, Threads
  <2>2. calm' => calm /\ \A c \in Consumers, d \in Deliveries : thread[e][c][d] \notin AtWork
    BY <1>1 DEF StartDelivery
  <2>. QED BY <1>1, <2>1, <2>2 DEF StartDelivery, Once, OnceInv, AtWork
<1>2. CASE WorkerCrash(e)
  <2>1. \A y \in Events, c \in Consumers, d \in Deliveries :
           thread'[y][c][d] = thread[y][c][d] \/ thread'[y][c][d] = "dead"
    BY <1>t, <1>2 DEF WorkerCrash, Threads
  <2>. QED BY <1>2, <2>1 DEF WorkerCrash, Once, OnceInv, AtWork
<1>3. CASE Append(e) \/ CompleteJob(e) \/ FailJob(e) \/ StallJob(e)
  BY <1>3, OnceKept DEF Append, CompleteJob, FailJob, StallJob, consumerVars
<1>. QED BY <1>1, <1>2, <1>3 DEF QueueStep

\* The consumers keep Once, as a failure is recorded only where nothing was committed.
LEMMA ConsumerKeepsOnce ==
    ASSUME Bounded, Chain, Once,
           NEW e \in Events, NEW c \in Consumers, NEW d \in Deliveries, ConsumerStep(e, c, d)
    PROVE  Once'
<1>. SUFFICES ASSUME calm' PROVE \A y \in Events, k \in Consumers : OnceInv(y, k)'
  BY DEF Once
<1>t. TypeOK /\ effects[e][c] \in 0..2 /\ WorkInv(e, c) /\ OnceInv(e, c) /\ Once /\ calm
  BY OwnEntries DEF Bounded, TypeOK, Chain, Works, Once
<1>1. \A x \in Deliveries \ {d} : thread'[e][c][x] = thread[e][c][x] /\ thread[e][c][x] \notin AtWork
  BY <1>t, OwnEntries DEF OnceInv, AtWork
<1>2. /\ effects'[e][c] <= 1 /\ (effects'[e][c] > 0 => inbox'[e][c] = "processed")
      /\ thread'[e][c][d] = "recording" => inbox'[e][c] # "processed"
  BY <1>t, OwnEntries DEF OnceInv, Capped
<1>3. OnceInv(e, c)'
  BY <1>1, <1>2 DEF OnceInv, AtWork
<1>4. \A y \in Events, k \in Consumers : (y = e /\ k = c) \/ OnceInv(y, k)'
  BY <1>t, OwnEntries DEF Once, OnceInv
<1>. QED BY <1>3, <1>4

\* Every step keeps Once.
LEMMA StepKeepsOnce ==
    ASSUME Bounded, Chain, Once, [Next]_vars
    PROVE  Once'
<1>1. CASE UNCHANGED vars
  BY <1>1, OnceKept DEF vars, consumerVars
<1>2. CASE \E x \in Publishers : PublisherStep(x) \/ PublisherCrash(x)
  BY <1>2, OnceKept DEF PublisherStep, ClaimBatch, NextItem, AddJob, MarkPublished, MarkFailed,
     PublisherCrash, consumerVars
<1>. QED BY <1>1, <1>2, JobKeepsOnce, ConsumerKeepsOnce DEF Next

\* No consumer's work is committed twice for an event, in however many redeliveries, after
\* crashes and stalls, until deliveries of a job overlap or an acknowledgement is lost.
THEOREM WorkIsCommittedOnce == Spec => []OnceWhileCalm
<1>1. Once /\ Bounded /\ Chain /\ [Next]_vars => Once'
  BY StepKeepsOnce
<1>2. Once => OnceWhileCalm
  BY DEF Once, OnceInv, OnceWhileCalm, EffectOnce
<1>. QED BY <1>1, <1>2, InitOnce, ChainHolds, PTL DEF Spec
=============================================================================
