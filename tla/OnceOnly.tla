------------------------------ MODULE OnceOnly ------------------------------
(***************************************************************************)
(* What an idempotency key promises: of the requests that carry it, one at *)
(* most takes effect, and each of the others is answered what that one was *)
(* answered, or refused.  A request with another payload is never answered *)
(* with a result that is not its own.                                      *)
(***************************************************************************)
CONSTANTS Requests, Keys, KeyOf, Payloads, PayloadOf, None, Error

VARIABLES
    effects,    \* per key, the requests that took effect
    reply       \* what each request was answered: the outcome of a request, or Error

vars == <<effects, reply>>

Init ==
    /\ effects = [k \in Keys |-> {}]
    /\ reply = [r \in Requests |-> None]

TakeEffect(r) ==
    /\ effects[KeyOf[r]] = {}
    /\ effects' = [effects EXCEPT ![KeyOf[r]] = {r}]
    /\ UNCHANGED reply

Answer(r) ==
    /\ reply[r] = None
    /\ \E x \in effects[KeyOf[r]] :
          PayloadOf[x] = PayloadOf[r] /\ reply' = [reply EXCEPT ![r] = x]
    /\ UNCHANGED effects

Refuse(r) ==
    /\ reply[r] = None
    /\ reply' = [reply EXCEPT ![r] = Error]
    /\ UNCHANGED effects

Next == \E r \in Requests : TakeEffect(r) \/ Answer(r) \/ Refuse(r)

Spec == Init /\ [][Next]_vars
=============================================================================
