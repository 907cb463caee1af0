--------------------------- MODULE MCTaskControl ---------------------------
(* Values for the constants of TaskControl that a .cfg cannot write.       *)
EXTENDS TaskControl, TLC

CONSTANTS w1, w2, h1, h2

\* Every worker with a WORKER_ID of its own.
OwnName == [w \in Workers |-> w]

HandlerSymmetry == Permutations(Handlers)
ActorSymmetry == Permutations(Handlers) \union Permutations(Workers)
=============================================================================
