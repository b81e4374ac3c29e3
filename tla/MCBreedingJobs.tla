--------------------------- MODULE MCBreedingJobs ---------------------------
(***************************************************************************)
(* Small instances of BreedingJobs for TLC.  The number of claims is the   *)
(* one unbounded counter; MaxLeases bounds it.                             *)
(***************************************************************************)
EXTENDS BreedingJobs, TLC

CONSTANT MaxLeases

MCNext == JobNext /\ lastLease' <= MaxLeases

MCSpec == JobInit /\ [][MCNext]_jobVars

Symmetry == Permutations(JobIds) \cup Permutations(Workers) \cup Permutations(Requests)
=============================================================================
