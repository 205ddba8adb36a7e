--------------------------- MODULE MCJobExecutor ---------------------------
(* Instances of JobExecutor for TLC.                                       *)
EXTENDS JobExecutor, TLC

Symmetry == Permutations(JobId) \cup Permutations(Handler)
=============================================================================
