------------------------- MODULE MCResultAuthority --------------------------
(* Instances of ResultAuthority for TLC. *)
EXTENDS ResultAuthority

CONSTANTS d1, d2, r1, r2, c1, c2
=============================================================================
