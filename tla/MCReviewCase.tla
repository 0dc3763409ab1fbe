---------------------------- MODULE MCReviewCase ----------------------------
(* Instances of ReviewCase for TLC. *)
EXTENDS ReviewCase

CONSTANTS e1, e2, v1, v2, c1, c2
=============================================================================
