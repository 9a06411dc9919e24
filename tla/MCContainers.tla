---------------------------- MODULE MCContainers ----------------------------
(* Four cells for a list and a dictionary of two keys: cells are freed and  *)
(* taken again, by the other container too.                                 *)
EXTENDS Containers, TLC

CONSTANTS v1, v2, v3, a, b

Symmetric == Permutations({v1, v2, v3})
=============================================================================
