--------------------------- MODULE MCReservations ---------------------------
(* Two clients and two session names: sessions are destroyed and created    *)
(* again, under the same name or the other, while clients request           *)
(* reservations or die.                                                     *)
EXTENDS Reservations, TLC

CONSTANTS c1, c2

Symmetric == Permutations({c1, c2})
=============================================================================
