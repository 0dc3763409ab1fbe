-------------------------- MODULE MCScoreExecution --------------------------
(* Instances of ScoreExecution for TLC. Workers are interchangeable, but the  *)
(* passing run checks liveness, so no symmetry is declared.                   *)
EXTENDS ScoreExecution

CONSTANTS i1, r1, w1, w2
=============================================================================
