--------------------------- MODULE MCComputeQueue ---------------------------
(***************************************************************************)
(* Small instances of ComputeQueue.                                        *)
(***************************************************************************)
EXTENDS ComputeQueue, TLC

CONSTANTS j1, j2, j3

\* No action treats one job other than another.
JobSymmetry == Permutations(Job)
=============================================================================
