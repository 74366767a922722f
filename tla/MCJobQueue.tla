------------------------------ MODULE MCJobQueue ------------------------------
(* TLC instance of JobQueue: the starts of a job are bounded only by the     *)
(* number of user retries, which JobQueue leaves free, so no bound is needed *)
(* beyond MaxJobs.                                                           *)
EXTENDS JobQueue, TLC

Symmetry == Permutations(Channels) \cup Permutations(Inputs)
=============================================================================
