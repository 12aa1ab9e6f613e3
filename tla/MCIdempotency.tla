--------------------------- MODULE MCIdempotency ----------------------------
(* Four requests with one key, one of them with another payload. *)
EXTENDS Idempotency

CONSTANTS a1, a2, a3, b1, k1, p1, p2

MCRequests == {a1, a2, a3, b1}
MCKeys == {k1}
MCPayloads == {p1, p2}
MCKeyOf == [r \in MCRequests |-> k1]
MCPayloadOf == [r \in MCRequests |-> IF r = b1 THEN p2 ELSE p1]
=============================================================================
