---------------------------- MODULE MCJobFaults ----------------------------
(* Two submissions, two faults and one reset: the second submission can     *)
(* take the row id, and meet the semaphore, of the first.                   *)
EXTENDS JobFaults

CONSTANTS r1, r2
=============================================================================
