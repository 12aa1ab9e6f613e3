--------------------------- MODULE MCEventPipeline ---------------------------
(* One event, two publishers that may both claim it, two consumers of it. *)
EXTENDS EventPipeline, TLC

CONSTANTS e1, x1, x2, c1, c2

MCEvents == {e1}
MCPublishers == {x1, x2}
MCConsumers == {c1, c2}
Symmetry == Permutations(MCPublishers) \cup Permutations(MCConsumers)
=============================================================================
