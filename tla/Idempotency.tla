---------------------------- MODULE Idempotency -----------------------------
(***************************************************************************)
(* The idempotency interceptor and its table.  Requests are HTTP requests  *)
(* on endpoints marked RequireIdempotency; a client's retry is a request   *)
(* of its own with the same key.  A key stands for the pair of scope       *)
(* (endpoint and principal) and header, a payload for the request hash.    *)
(* Every statement commits by itself: none is in a transaction with the    *)
(* handler's work, which is one step here, and a process may die between   *)
(* any two of them.                                                        *)
(***************************************************************************)
CONSTANTS
    Requests, Keys, Payloads,
    KeyOf, PayloadOf,   \* what each request carries
    None, Error         \* no answer yet; any answer but a result

ASSUME RequestsAssumption ==
    /\ KeyOf \in [Requests -> Keys]
    /\ PayloadOf \in [Requests -> Payloads]
    /\ {None, Error} \cap Requests = {} /\ None # Error

VARIABLES
    effects,    \* per key, the requests whose handler committed
    reply,      \* what each request was answered: the result of a request, or Error
    status, payload, response, \* events.idempotency_keys
    leased,     \* locked_until is set and has not passed
    pc,         \* what each request does next
    seen        \* the row a refused insert has read: its status and payload

rowVars == <<status, payload, response, leased>>
vars == <<effects, reply, rowVars, pc, seen>>

RowStatuses == {"none", "running", "completed", "failed"}
Steps == {"new", "read", "decide", "reclaim", "handle", "respond", "complete", "over"}
Unread == [status |-> "none", payload |-> None, response |-> None]

Init ==
    /\ effects = [k \in Keys |-> {}]
    /\ reply = [r \in Requests |-> None]
    /\ status = [k \in Keys |-> "none"]
    /\ payload = [k \in Keys |-> None]
    /\ response = [k \in Keys |-> None]
    /\ leased = [k \in Keys |-> FALSE]
    /\ pc = [r \in Requests |-> "new"]
    /\ seen = [r \in Requests |-> Unread]

Goto(r, step) == pc' = [pc EXCEPT ![r] = step]
Over(r, answer) ==
    /\ Goto(r, "over")
    /\ reply' = [reply EXCEPT ![r] = answer]
-----------------------------------------------------------------------------
(* claim *)

\* INSERT ... ON CONFLICT DO NOTHING: the first request of a key runs its handler.
ClaimInsert(r) ==
    LET k == KeyOf[r] IN
    /\ pc[r] = "new" /\ status[k] = "none"
    /\ status' = [status EXCEPT ![k] = "running"]
    /\ payload' = [payload EXCEPT ![k] = PayloadOf[r]]
    /\ leased' = [leased EXCEPT ![k] = TRUE]
    /\ Goto(r, "handle")
    /\ UNCHANGED <<effects, reply, response, seen>>

ClaimConflict(r) ==
    /\ pc[r] = "new" /\ status[KeyOf[r]] # "none"
    /\ Goto(r, "read")
    /\ UNCHANGED <<effects, reply, rowVars, seen>>

ClaimRead(r) ==
    LET k == KeyOf[r] IN
    /\ pc[r] = "read"
    /\ seen' = [seen EXCEPT ![r] = [status |-> status[k], payload |-> payload[k],
                                    response |-> response[k]]]
    /\ Goto(r, "decide")
    /\ UNCHANGED <<effects, reply, rowVars>>

\* Mutant: the hash of the request is not compared.
SamePayloadUnchecked(r) == TRUE
SamePayload(r) == seen[r].payload = PayloadOf[r]

\* IDEMPOTENCY_KEY_REUSED_WITH_DIFFERENT_REQUEST, IDEMPOTENCY_OUTCOME_UNKNOWN when the
\* lease of the row has run out, IDEMPOTENCY_REQUEST_IN_PROGRESS when it has not.
ClaimRefused(r) ==
    /\ pc[r] = "decide"
    /\ ~SamePayload(r) \/ seen[r].status = "running"
    /\ Over(r, Error)
    /\ UNCHANGED <<effects, rowVars, seen>>

\* Mutant: a completed row is taken for one in progress.
ReplayRefused(r) ==
    /\ pc[r] = "decide" /\ SamePayload(r) /\ seen[r].status = "completed"
    /\ Over(r, Error)
    /\ UNCHANGED <<effects, rowVars, seen>>
\* A completed row: its response, whatever has become of its lease.
Replay(r) ==
    /\ pc[r] = "decide" /\ SamePayload(r) /\ seen[r].status = "completed"
    /\ Over(r, seen[r].response)
    /\ UNCHANGED <<effects, rowVars, seen>>

\* Mutant: a row whose lease ran out is taken over as if its handler had failed.
ReclaimExpired(r) ==
    LET k == KeyOf[r] IN
    /\ pc[r] = "decide" /\ SamePayload(r) /\ seen[r].status # "completed"
    /\ status[k] = "failed" \/ (status[k] = "running" /\ ~leased[k])
    /\ status' = [status EXCEPT ![k] = "running"]
    /\ leased' = [leased EXCEPT ![k] = TRUE]
    /\ Goto(r, "handle")
    /\ UNCHANGED <<effects, reply, payload, response, seen>>
\* The update that takes over a failed row states the status and the hash again.
Reclaim(r) ==
    LET k == KeyOf[r] IN
    /\ pc[r] = "decide" /\ SamePayload(r) /\ seen[r].status = "failed"
    /\ status[k] = "failed" /\ payload[k] = PayloadOf[r]
    /\ status' = [status EXCEPT ![k] = "running"]
    /\ leased' = [leased EXCEPT ![k] = TRUE]
    /\ Goto(r, "handle")
    /\ UNCHANGED <<effects, reply, payload, response, seen>>

ReclaimLost(r) ==
    /\ pc[r] = "decide" /\ SamePayload(r) /\ seen[r].status = "failed"
    /\ status[KeyOf[r]] # "failed" \/ payload[KeyOf[r]] # PayloadOf[r]
    /\ Over(r, Error)
    /\ UNCHANGED <<effects, rowVars, seen>>
-----------------------------------------------------------------------------
(* The handler and the completion. *)

\* The business transaction of the handler commits, whatever became of the lease.
HandlerCommits(r) ==
    /\ pc[r] = "handle"
    /\ effects' = [effects EXCEPT ![KeyOf[r]] = @ \cup {r}]
    /\ Goto(r, "respond")
    /\ UNCHANGED <<reply, rowVars, seen>>

\* Fail closed: an error, before or after the commit, leaves the row running.
HandlerThrows(r) ==
    /\ pc[r] \in {"handle", "respond"}
    /\ Over(r, Error)
    /\ UNCHANGED <<effects, rowVars, seen>>

HandlerReturns(r) ==
    /\ pc[r] = "respond"
    /\ Goto(r, "complete")
    /\ UNCHANGED <<effects, reply, rowVars, seen>>

Complete(r) ==
    LET k == KeyOf[r] IN
    /\ pc[r] = "complete"
    /\ status' = [status EXCEPT ![k] = "completed"]
    /\ response' = [response EXCEPT ![k] = r]
    /\ leased' = [leased EXCEPT ![k] = FALSE]
    /\ Over(r, r)
    /\ UNCHANGED <<effects, payload, seen>>

\* IDEMPOTENCY_COMPLETION_FAILED
CompleteFails(r) ==
    /\ pc[r] = "complete"
    /\ Over(r, Error)
    /\ UNCHANGED <<effects, rowVars, seen>>
-----------------------------------------------------------------------------
(* Time, crashes and recovery. *)

LeaseExpire(k) ==
    /\ leased[k]
    /\ leased' = [leased EXCEPT ![k] = FALSE]
    /\ UNCHANGED <<effects, reply, status, payload, response, pc, seen>>

Crash(r) ==
    /\ pc[r] \notin {"new", "over"}
    /\ Goto(r, "over")
    /\ UNCHANGED <<effects, reply, rowVars, seen>>

\* markDefinitelyFailed, for a recovery that has proven that nothing was committed and
\* nothing runs: the repository offers it and does not call it yet.
ProvenUncommitted(k) ==
    /\ effects[k] = {}
    /\ \A r \in Requests : KeyOf[r] = k => pc[r] # "handle"
MarkDefinitelyFailed(k) ==
    /\ status[k] = "running" /\ ProvenUncommitted(k)
    /\ status' = [status EXCEPT ![k] = "failed"]
    /\ leased' = [leased EXCEPT ![k] = FALSE]
    /\ UNCHANGED <<effects, reply, payload, response, pc, seen>>
-----------------------------------------------------------------------------
RequestStep(r) ==
    \/ ClaimInsert(r) \/ ClaimConflict(r) \/ ClaimRead(r) \/ ClaimRefused(r)
    \/ Replay(r) \/ Reclaim(r) \/ ReclaimLost(r)
    \/ HandlerCommits(r) \/ HandlerThrows(r) \/ HandlerReturns(r)
    \/ Complete(r) \/ CompleteFails(r)

Next ==
    \/ \E r \in Requests : RequestStep(r) \/ Crash(r)
    \/ \E k \in Keys : LeaseExpire(k) \/ MarkDefinitelyFailed(k)

Spec == Init /\ [][Next]_vars

\* A process that does not die runs a request it has received to the end.
Fairness == \A r \in Requests : WF_vars(pc[r] # "new" /\ RequestStep(r))
FairSpec == Spec /\ Fairness
-----------------------------------------------------------------------------
(* Properties *)

TypeOK ==
    /\ effects \in [Keys -> SUBSET Requests]
    /\ reply \in [Requests -> Requests \cup {None, Error}]
    /\ status \in [Keys -> RowStatuses]
    /\ payload \in [Keys -> Payloads \cup {None}]
    /\ response \in [Keys -> Requests \cup {None}]
    /\ leased \in [Keys -> BOOLEAN]
    /\ pc \in [Requests -> Steps]
    /\ seen \in [Requests -> [status : RowStatuses, payload : Payloads \cup {None},
                              response : Requests \cup {None}]]

\* One request at most takes effect for a key, even if its handler outlives the lease,
\* throws after its commit, dies, or cannot record its completion.
EffectOnce == \A k \in Keys : \A r, s \in effects[k] : r = s

\* A client that asks again for what was completed gets the result of that execution,
\* unless its process dies under it.
RetryIsAnswered ==
    \A r \in Requests :
        LET k == KeyOf[r] IN
        (pc[r] = "read" /\ status[k] = "completed" /\ payload[k] = PayloadOf[r])
            ~> (reply[r] \in effects[k] \/ (pc[r] = "over" /\ reply[r] = None))

\* The keys keep the promise of OnceOnly: every result a client is given is the result
\* of the one execution that took effect, of a request with the same payload.
Promise == INSTANCE OnceOnly
ImplementsOnceOnly == Promise!Spec
=============================================================================
