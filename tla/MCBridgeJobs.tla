---------------------------- MODULE MCBridgeJobs ----------------------------
(* Values for the constants of BridgeJobs that a .cfg cannot write.        *)
EXTENDS BridgeJobs, TLC

CONSTANTS w1, w2, g1, r1

\* Every worker with a WORKER_ID of its own.
OwnName == [w \in Workers |-> w]

WorkerSymmetry == Permutations(Workers)
=============================================================================
