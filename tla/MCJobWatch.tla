----------------------------- MODULE MCJobWatch -----------------------------
(* Two jobs.  One client submits them, with or without a callback, and       *)
(* controls them; the other waits for them while they run and end.           *)
EXTENDS JobWatch

CONSTANTS c1, c2, j1, j2

Roles == [c \in {c1, c2} |-> IF c = c1 THEN {"submit", "register", "suspend", "resume"} ELSE WaitOp]
EmptyOrBoth == {<<>>, <<j1, j2>>}
=============================================================================
