-------------------------- MODULE MCMachineScoring --------------------------
(* Small instances of MachineScoring: two teams, and jobs that meet both.   *)
EXTENDS MachineScoring, TLC

MCTotals == 1..2

CONSTANT t1
Row(total, adopted) == MachineScore(t1, total, adopted, None)

\* A new table, and one whose first team has been scored twice.
MCEarlier == {<<>>, <<Row(2, FALSE), Row(1, TRUE)>>}
=============================================================================
