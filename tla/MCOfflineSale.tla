--------------------------- MODULE MCOfflineSale ---------------------------
(* One command of two lines, two requests at a time. *)
EXTENDS OfflineSale, TLC

CONSTANTS c1, a, b

MCCommands == {c1}
MCVariants == {1, 2}
MCPayload == [c \in MCCommands |-> (1 :> 1) @@ (2 :> 1)]
Symmetry == Permutations({a, b})
=============================================================================
