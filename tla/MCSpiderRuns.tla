---------------------------- MODULE MCSpiderRuns ----------------------------
(* Values for the constants of SpiderRuns that a .cfg cannot write.        *)
EXTENDS SpiderRuns, TLC

CONSTANTS r1, r2

RunSymmetry == Permutations(Runs)
=============================================================================
