--------------------------- MODULE MCJobSessions ---------------------------
(* Two clients that share one session name: it is created, destroyed and    *)
(* created again while either of them submits single and bulk jobs.         *)
EXTENDS JobSessions, TLC

CONSTANTS c1, c2, id1, id2

\* Two jobs; ranges with other steps are in BulkArrays.
MCBulks == {<<1, 2, 1>>}

Symmetric == Permutations({c1, c2}) \union Permutations({id1, id2})
=============================================================================
