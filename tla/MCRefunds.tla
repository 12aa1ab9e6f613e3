----------------------------- MODULE MCRefunds ------------------------------
(* Two refund rows of one payment of two units, two processes. *)
EXTENDS Refunds, TLC

CONSTANTS r1, r2, w1, w2

MCRefunds == {r1, r2}
MCWorkers == {w1, w2}
=============================================================================
