------------------------- MODULE IdempotencyProofs -------------------------
(***************************************************************************)
(* Theorems about Idempotency, for any requests, keys and payloads.        *)
(***************************************************************************)
EXTENDS Idempotency, TLAPS

(* Every variable holds a value of its column or of its step. *)
THEOREM TypeCorrect == Spec => []TypeOK
<1>1. Init => TypeOK
  BY DEF Init, TypeOK, RowStatuses, Steps, Unread
<1>2. TypeOK /\ [Next]_vars => TypeOK'
  <2>. SUFFICES ASSUME TypeOK, [Next]_vars PROVE TypeOK'
    OBVIOUS
  <2>. USE RequestsAssumption DEF TypeOK, RowStatuses, Steps, Goto, Over, rowVars
  <2>1. ASSUME NEW r \in Requests, RequestStep(r) PROVE TypeOK'
    <3>1. CASE ClaimInsert(r)
      BY <3>1 DEF ClaimInsert
    <3>2. CASE ClaimConflict(r)
      BY <3>2 DEF ClaimConflict
    <3>3. CASE ClaimRead(r)
      BY <3>3 DEF ClaimRead
    <3>4. CASE ClaimRefused(r)
      BY <3>4 DEF ClaimRefused
    <3>5. CASE Replay(r)
      BY <3>5 DEF Replay
    <3>6. CASE Reclaim(r)
      BY <3>6 DEF Reclaim
    <3>7. CASE ReclaimLost(r)
      BY <3>7 DEF ReclaimLost
    <3>8. CASE HandlerCommits(r)
      BY <3>8 DEF HandlerCommits
    <3>9. CASE HandlerThrows(r) \/ CompleteFails(r)
      BY <3>9 DEF HandlerThrows, CompleteFails
    <3>10. CASE HandlerReturns(r)
      BY <3>10 DEF HandlerReturns
    <3>11. CASE Complete(r)
      BY <3>11 DEF Complete
    <3>. QED BY <2>1, <3>1, <3>2, <3>3, <3>4, <3>5, <3>6, <3>7, <3>8, <3>9, <3>10, <3>11
             DEF RequestStep
  <2>2. ASSUME NEW r \in Requests, Crash(r) PROVE TypeOK'
    BY <2>2 DEF Crash
  <2>3. ASSUME NEW k \in Keys, LeaseExpire(k) \/ MarkDefinitelyFailed(k) PROVE TypeOK'
    BY <2>3 DEF LeaseExpire, MarkDefinitelyFailed
  <2>4. CASE UNCHANGED vars
    BY <2>4 DEF vars
  <2>. QED BY <2>1, <2>2, <2>3, <2>4 DEF Next
<1>. QED BY <1>1, <1>2, PTL DEF Spec
-----------------------------------------------------------------------------
(* The inductive invariant. *)

\* A request is at work from the claim of its key until its answer.
Working(r) == pc[r] \in {"handle", "respond", "complete"}

\* It is the only one of its key, the row is running with its payload, and the key has
\* no effect but its own.
OwnsKey(r) ==
    Working(r) =>
       /\ status[KeyOf[r]] = "running" /\ payload[KeyOf[r]] = PayloadOf[r]
       /\ effects[KeyOf[r]] = IF pc[r] = "handle" THEN {} ELSE {r}
       /\ \A s \in Requests : KeyOf[s] = KeyOf[r] /\ Working(s) => s = r

\* An effect is that of one request of the key, with the payload of the row, which is
\* not failed and not free; a completed row has the result of that request.
RowTellsEffect(k) ==
    /\ \A x \in effects[k] :
          /\ effects[k] = {x} /\ KeyOf[x] = k /\ PayloadOf[x] = payload[k]
          /\ status[k] \in {"running", "completed"}
    /\ status[k] = "completed" => response[k] \in effects[k]

\* What a request has read of a completed row stays true.
SeenIsTrue(r) ==
    pc[r] = "decide" /\ seen[r].status = "completed" =>
       seen[r].response \in effects[KeyOf[r]] /\ seen[r].payload = payload[KeyOf[r]]

Unanswered(r) == pc[r] # "over" => reply[r] = None

KeyInv ==
    /\ \A r \in Requests : OwnsKey(r) /\ SeenIsTrue(r) /\ Unanswered(r)
    /\ \A k \in Keys : RowTellsEffect(k)

\* A step that leaves the rows and the effects alone, starts no handler and only takes
\* requests away from their keys.
LEMMA QuietKeepsInv ==
    ASSUME TypeOK, KeyInv, NEW r \in Requests, UNCHANGED <<effects, status, payload, response>>,
           \E step \in Steps :
              Goto(r, step) /\ (step \in {"read", "over"} \/ (step = "complete" /\ pc[r] = "respond")),
           pc[r] # "over", seen' = seen,
           reply' = reply \/ (pc'[r] = "over" /\ \E x : reply' = [reply EXCEPT ![r] = x])
    PROVE  KeyInv'
<1>. USE DEF TypeOK, KeyInv, Goto, Steps
<1>1. \A s \in Requests : /\ s # r => pc'[s] = pc[s] /\ reply'[s] = reply[s]
                          /\ Working(s)' => Working(s) /\ (pc'[s] = "handle" <=> pc[s] = "handle")
  BY DEF Working
<1>2. \A s \in Requests : OwnsKey(s)'
  BY <1>1, RequestsAssumption DEF OwnsKey
<1>3. \A s \in Requests : SeenIsTrue(s)'
  BY <1>1 DEF SeenIsTrue
<1>4. \A s \in Requests : Unanswered(s)'
  BY <1>1 DEF Unanswered
<1>5. \A k \in Keys : RowTellsEffect(k)'
  BY DEF RowTellsEffect
<1>. QED BY <1>2, <1>3, <1>4, <1>5

\* The steps of a request.
LEMMA RequestKeepsInv ==
    ASSUME TypeOK, TypeOK', KeyInv, NEW r \in Requests, RequestStep(r)
    PROVE  KeyInv'
<1>. USE RequestsAssumption DEF TypeOK, Goto, Over, rowVars
<1>1. CASE ClaimInsert(r) \/ Reclaim(r)
  <2>. USE DEF KeyInv, Working
  <2>1. /\ pc' = [pc EXCEPT ![r] = "handle"] /\ pc[r] \in {"new", "decide"}
        /\ effects' = effects /\ reply' = reply /\ response' = response /\ seen' = seen
        /\ status[KeyOf[r]] \in {"none", "failed"}
        /\ status' = [status EXCEPT ![KeyOf[r]] = "running"]
        /\ payload'[KeyOf[r]] = PayloadOf[r]
        /\ \A k \in Keys : k # KeyOf[r] => payload'[k] = payload[k]
    BY <1>1 DEF ClaimInsert, Reclaim
  <2>2. effects[KeyOf[r]] = {} /\ \A s \in Requests : KeyOf[s] = KeyOf[r] => ~Working(s)
    <3>1. RowTellsEffect(KeyOf[r]) /\ \A s \in Requests : OwnsKey(s)
      OBVIOUS
    <3>2. effects[KeyOf[r]] = {}
      BY <2>1, <3>1 DEF RowTellsEffect
    <3>3. \A s \in Requests : KeyOf[s] = KeyOf[r] => ~Working(s)
      BY <2>1, <3>1 DEF OwnsKey
    <3>. QED BY <3>2, <3>3
  <2>3. \A s \in Requests : OwnsKey(s)'
    <3>1. /\ pc'[r] = "handle" /\ \A s \in Requests : s # r => pc'[s] = pc[s]
          /\ status'[KeyOf[r]] = "running" /\ KeyOf[r] \in Keys
          /\ \A k \in Keys : k # KeyOf[r] => status'[k] = status[k]
      BY <2>1
    <3>2. OwnsKey(r)'
      BY <2>1, <2>2, <3>1 DEF OwnsKey
    <3>3. ASSUME NEW s \in Requests, s # r PROVE OwnsKey(s)'
      <4>1. CASE KeyOf[s] = KeyOf[r]
        BY <2>2, <3>1, <3>3, <4>1 DEF OwnsKey
      <4>2. CASE KeyOf[s] # KeyOf[r]
        <5>1. OwnsKey(s) /\ KeyOf[s] \in Keys
          OBVIOUS
        <5>. QED BY <2>1, <3>1, <3>3, <4>2, <5>1 DEF OwnsKey
      <4>. QED BY <4>1, <4>2
    <3>. QED BY <3>2, <3>3
  <2>4. \A s \in Requests : SeenIsTrue(s)'
    BY <2>1, <2>2 DEF SeenIsTrue
  <2>5. \A s \in Requests : Unanswered(s)'
    BY <2>1 DEF Unanswered
  <2>6. \A k \in Keys : RowTellsEffect(k)'
    BY <2>1, <2>2 DEF RowTellsEffect
  <2>. QED BY <2>3, <2>4, <2>5, <2>6
<1>2. CASE ClaimRead(r)
  <2>. USE DEF KeyInv, Working
  <2>1. \A s \in Requests : OwnsKey(s)'
    BY <1>2, ZenonT(60) DEF ClaimRead, OwnsKey
  <2>2. \A s \in Requests : SeenIsTrue(s)'
    BY <1>2 DEF ClaimRead, SeenIsTrue, RowTellsEffect
  <2>3. \A s \in Requests : Unanswered(s)'
    BY <1>2 DEF ClaimRead, Unanswered
  <2>4. \A k \in Keys : RowTellsEffect(k)'
    BY <1>2 DEF ClaimRead, RowTellsEffect
  <2>. QED BY <2>1, <2>2, <2>3, <2>4
<1>3. CASE HandlerCommits(r)
  <2>. USE DEF KeyInv, Working
  <2>1. effects' = [effects EXCEPT ![KeyOf[r]] = {r}] /\ effects[KeyOf[r]] = {}
    <3>1. OwnsKey(r) /\ pc[r] = "handle" /\ {} \cup {r} = {r}
      BY <1>3 DEF HandlerCommits
    <3>2. effects[KeyOf[r]] = {}
      BY <3>1 DEF OwnsKey
    <3>. QED BY <1>3, <3>1, <3>2 DEF HandlerCommits
  <2>2. \A s \in Requests : OwnsKey(s)'
    <3>1. \A s \in Requests : s # r /\ KeyOf[s] = KeyOf[r] => ~Working(s)
      BY <1>3 DEF HandlerCommits, OwnsKey
    <3>2. \A s \in Requests : Working(s)' <=> Working(s)
      BY <1>3 DEF HandlerCommits
    <3>3. OwnsKey(r)'
      BY <1>3, <2>1, <3>1, <3>2, ZenonT(60) DEF HandlerCommits, OwnsKey
    <3>4. ASSUME NEW s \in Requests, s # r PROVE OwnsKey(s)'
      <4>1. /\ Working(s)' => Working(s) /\ KeyOf[s] # KeyOf[r]
            /\ OwnsKey(s) /\ pc'[s] = pc[s] /\ status' = status /\ payload' = payload
        BY <1>3, <3>1, <3>2, <3>4 DEF HandlerCommits
      <4>2. KeyOf[s] # KeyOf[r] => effects'[KeyOf[s]] = effects[KeyOf[s]]
        BY <2>1
      <4>. QED BY <3>2, <4>1, <4>2 DEF OwnsKey
    <3>. QED BY <3>3, <3>4
  <2>3. \A s \in Requests : SeenIsTrue(s)'
    BY <1>3, <2>1 DEF HandlerCommits, SeenIsTrue
  <2>4. \A s \in Requests : Unanswered(s)'
    BY <1>3 DEF HandlerCommits, Unanswered
  <2>5. \A k \in Keys : RowTellsEffect(k)'
    <3>1. OwnsKey(r) /\ pc[r] = "handle" /\ \A k \in Keys : RowTellsEffect(k)
      BY <1>3 DEF HandlerCommits
    <3>2. RowTellsEffect(KeyOf[r])'
      BY <1>3, <2>1, <3>1 DEF HandlerCommits, RowTellsEffect, OwnsKey
    <3>3. ASSUME NEW k \in Keys, k # KeyOf[r] PROVE RowTellsEffect(k)'
      BY <1>3, <2>1, <3>1, <3>3 DEF HandlerCommits, RowTellsEffect
    <3>. QED BY <3>2, <3>3
  <2>. QED BY <2>2, <2>3, <2>4, <2>5
<1>4. CASE Complete(r)
  <2>. USE DEF KeyInv, Working
  <2>1. effects[KeyOf[r]] = {r}
    BY <1>4 DEF Complete, OwnsKey
  <2>2. \A s \in Requests : OwnsKey(s)'
    <3>1. /\ pc'[r] = "over" /\ \A s \in Requests : s # r => pc'[s] = pc[s]
          /\ effects' = effects /\ payload' = payload
          /\ \A k \in Keys : k # KeyOf[r] => status'[k] = status[k]
      BY <1>4 DEF Complete
    <3>2. \A s \in Requests : KeyOf[s] = KeyOf[r] /\ Working(s) => s = r
      BY <1>4 DEF Complete, OwnsKey
    <3>3. ASSUME NEW s \in Requests, Working(s)' PROVE OwnsKey(s)'
      <4>1. s # r /\ Working(s) /\ OwnsKey(s) /\ KeyOf[s] \in Keys
        BY <3>1, <3>3
      <4>2. KeyOf[s] # KeyOf[r]
        BY <3>2, <4>1
      <4>. QED BY <3>1, <4>1, <4>2 DEF OwnsKey
    <3>. QED BY <3>3 DEF OwnsKey
  <2>3. \A s \in Requests : SeenIsTrue(s)'
    BY <1>4 DEF Complete, SeenIsTrue
  <2>4. \A s \in Requests : Unanswered(s)'
    BY <1>4 DEF Complete, Unanswered
  <2>5. \A k \in Keys : RowTellsEffect(k)'
    <3>1. /\ effects' = effects /\ payload' = payload /\ KeyOf[r] \in Keys
          /\ status'[KeyOf[r]] = "completed" /\ response'[KeyOf[r]] = r
          /\ \A k \in Keys : k # KeyOf[r] => status'[k] = status[k] /\ response'[k] = response[k]
      BY <1>4 DEF Complete
    <3>2. ASSUME NEW k \in Keys PROVE RowTellsEffect(k)'
      <4>1. RowTellsEffect(k)
        OBVIOUS
      <4>2. CASE k = KeyOf[r]
        BY <2>1, <3>1, <4>1, <4>2 DEF RowTellsEffect
      <4>3. CASE k # KeyOf[r]
        BY <3>1, <4>1, <4>3 DEF RowTellsEffect
      <4>. QED BY <4>2, <4>3
    <3>. QED BY <3>2
  <2>. QED BY <2>2, <2>3, <2>4, <2>5
<1>5. CASE \/ ClaimConflict(r) \/ ClaimRefused(r) \/ Replay(r) \/ ReclaimLost(r)
           \/ HandlerThrows(r) \/ HandlerReturns(r) \/ CompleteFails(r)
  <2>1. /\ UNCHANGED <<effects, status, payload, response>>
        /\ pc[r] # "over" /\ seen' = seen
        /\ \E step \in Steps :
              Goto(r, step) /\ (step \in {"read", "over"} \/ (step = "complete" /\ pc[r] = "respond"))
        /\ reply' = reply \/ (pc'[r] = "over" /\ \E x : reply' = [reply EXCEPT ![r] = x])
    <3>1. CASE ClaimConflict(r)
      BY <3>1 DEF ClaimConflict, Steps
    <3>2. CASE HandlerReturns(r)
      BY <3>2 DEF HandlerReturns, Steps
    <3>3. CASE Replay(r)
      BY <3>3 DEF Replay, Steps
    <3>4. CASE ClaimRefused(r) \/ ReclaimLost(r) \/ HandlerThrows(r) \/ CompleteFails(r)
      BY <3>4 DEF ClaimRefused, ReclaimLost, HandlerThrows, CompleteFails, Steps
    <3>. QED BY <1>5, <3>1, <3>2, <3>3, <3>4
  <2>. QED BY <2>1, QuietKeepsInv
<1>. QED BY <1>1, <1>2, <1>3, <1>4, <1>5 DEF RequestStep

\* Crashes, time and the recovery that has proven that nothing happened.
LEMMA OutsideKeepsInv ==
    ASSUME TypeOK, TypeOK', KeyInv,
           \/ \E r \in Requests : Crash(r)
           \/ \E k \in Keys : LeaseExpire(k) \/ MarkDefinitelyFailed(k)
           \/ UNCHANGED vars
    PROVE  KeyInv'
<1>1. ASSUME NEW r \in Requests, Crash(r) PROVE KeyInv'
  <2>1. "over" \in Steps /\ Goto(r, "over") /\ pc[r] # "over" /\ reply' = reply
        /\ seen' = seen /\ UNCHANGED <<effects, status, payload, response>>
    BY <1>1 DEF Crash, rowVars, Steps
  <2>. QED BY <2>1, QuietKeepsInv
<1>2. ASSUME NEW k \in Keys, MarkDefinitelyFailed(k) PROVE KeyInv'
  <2>. USE RequestsAssumption DEF KeyInv, TypeOK
  <2>1. \A r \in Requests : KeyOf[r] = k => ~Working(r)
    BY <1>2, ZenonT(60) DEF MarkDefinitelyFailed, ProvenUncommitted, OwnsKey, Working
  <2>2. \A r \in Requests : OwnsKey(r)'
    BY <1>2, <2>1 DEF MarkDefinitelyFailed, OwnsKey, Working
  <2>3. \A r \in Requests : SeenIsTrue(r)' /\ Unanswered(r)'
    BY <1>2 DEF MarkDefinitelyFailed, SeenIsTrue, Unanswered
  <2>4. \A j \in Keys : RowTellsEffect(j)'
    BY <1>2 DEF MarkDefinitelyFailed, ProvenUncommitted, RowTellsEffect
  <2>. QED BY <2>2, <2>3, <2>4
<1>3. ASSUME UNCHANGED <<effects, reply, status, payload, response, pc, seen>> PROVE KeyInv'
  <2>1. \A r \in Requests : (OwnsKey(r) => OwnsKey(r)') /\ (SeenIsTrue(r) => SeenIsTrue(r)')
                              /\ (Unanswered(r) => Unanswered(r)')
    BY <1>3 DEF OwnsKey, SeenIsTrue, Unanswered, Working
  <2>2. \A k \in Keys : RowTellsEffect(k) => RowTellsEffect(k)'
    BY <1>3 DEF RowTellsEffect
  <2>. QED BY <2>1, <2>2 DEF KeyInv
<1>. QED BY <1>1, <1>2, <1>3 DEF LeaseExpire, vars, rowVars

\* The invariant holds in every reachable state.
THEOREM KeyInvariant == Spec => []KeyInv
<1>1. Init => KeyInv
  BY RequestsAssumption
     DEF Init, KeyInv, OwnsKey, SeenIsTrue, Unanswered, RowTellsEffect, Working
<1>2. TypeOK /\ TypeOK' /\ KeyInv /\ [Next]_vars => KeyInv'
  BY RequestKeepsInv, OutsideKeepsInv DEF Next
<1>. QED BY <1>1, <1>2, TypeCorrect, PTL DEF Spec
-----------------------------------------------------------------------------
(* What follows from it. *)

\* Two requests never both take effect under one key.
THEOREM EffectIsOnce == Spec => []EffectOnce
<1>1. KeyInv => EffectOnce
  BY DEF KeyInv, RowTellsEffect, EffectOnce
<1>. QED BY <1>1, KeyInvariant, PTL

\* The interceptor and its table implement the promise of OnceOnly: a step of theirs
\* takes an effect first, answers with the result of the one effect, refuses, or is
\* not seen.
THEOREM KeepsThePromise == Spec => ImplementsOnceOnly
<1>1. Init => Promise!Init
  BY DEF Init, Promise!Init
<1>2. TypeOK /\ KeyInv /\ [Next]_vars => [Promise!Next]_(Promise!vars)
  <2>. SUFFICES ASSUME TypeOK, KeyInv, Next, ~UNCHANGED <<effects, reply>>
                PROVE  Promise!Next
    BY DEF Promise!vars, vars
  <2>1. ASSUME NEW r \in Requests, RequestStep(r) PROVE Promise!Next
    <3>. USE RequestsAssumption DEF TypeOK, KeyInv
    <3>1. CASE HandlerCommits(r)
      <4>1. OwnsKey(r) /\ pc[r] = "handle" /\ {} \cup {r} = {r}
        BY <3>1 DEF HandlerCommits
      <4>2. effects[KeyOf[r]] = {}
        BY <4>1 DEF OwnsKey, Working
      <4>3. effects' = [effects EXCEPT ![KeyOf[r]] = {r}]
        BY <3>1, <4>1, <4>2 DEF HandlerCommits
      <4>. QED BY <3>1, <4>2, <4>3 DEF HandlerCommits, Promise!Next, Promise!TakeEffect
    <3>2. CASE Replay(r)
      <4>1. /\ reply[r] = None /\ effects' = effects
            /\ reply' = [reply EXCEPT ![r] = seen[r].response]
            /\ seen[r].response \in effects[KeyOf[r]]
        BY <3>2 DEF Replay, Over, Goto, Unanswered, SeenIsTrue
      <4>2. PayloadOf[seen[r].response] = PayloadOf[r]
        BY <3>2, <4>1 DEF Replay, SamePayload, SeenIsTrue, RowTellsEffect
      <4>. QED BY <4>1, <4>2 DEF Promise!Next, Promise!Answer
    <3>3. CASE Complete(r)
      <4>1. /\ reply[r] = None /\ effects' = effects
            /\ reply' = [reply EXCEPT ![r] = r]
            /\ r \in effects[KeyOf[r]]
        BY <3>3 DEF Complete, Over, Goto, Unanswered, OwnsKey, Working
      <4>. QED BY <4>1 DEF Promise!Next, Promise!Answer
    <3>4. CASE ClaimRefused(r) \/ ReclaimLost(r) \/ HandlerThrows(r) \/ CompleteFails(r)
      <4>1. reply[r] = None /\ reply' = [reply EXCEPT ![r] = Error] /\ effects' = effects
        BY <3>4 DEF ClaimRefused, ReclaimLost, HandlerThrows, CompleteFails, Over, Goto, Unanswered
      <4>. QED BY <4>1 DEF Promise!Next, Promise!Refuse
    <3>. QED BY <2>1, <3>1, <3>2, <3>3, <3>4
             DEF RequestStep, ClaimInsert, ClaimConflict, ClaimRead, Reclaim, HandlerReturns
  <2>. QED BY <2>1 DEF Next, Crash, LeaseExpire, MarkDefinitelyFailed
<1>. QED BY <1>1, <1>2, TypeCorrect, KeyInvariant, PTL DEF Spec, ImplementsOnceOnly, Promise!Spec
=============================================================================
