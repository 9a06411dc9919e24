--------------------------- MODULE MCJobLifecycle ---------------------------
(* Two clients and two jobs: two submissions may overlap, and either client *)
(* may address the other's job.                                             *)
EXTENDS JobLifecycle, TLC

CONSTANTS c1, c2, j1, j2, p1, p2

Clients == {c1, c2}
Jobs == {j1, j2}
Pids == {p1, p2}

\* Clients, jobs and pids are interchangeable.
Symmetric == Permutations(Clients) \cup Permutations(Jobs) \cup Permutations(Pids)
=============================================================================
