------------------------- MODULE MCTaskTransaction -------------------------
(* Instances of TaskTransaction for TLC. *)
EXTENDS TaskTransaction

CONSTANTS w1, w2, p1, p2

SameProcess  == [w \in {w1, w2} |-> p1]
TwoProcesses == [w \in {w1, w2} |-> IF w = w1 THEN p1 ELSE p2]

\* The two workers are interchangeable, with their processes.
SymmetrySame ==
  {[x \in {w1, w2} |-> x], [x \in {w1, w2} |-> IF x = w1 THEN w2 ELSE w1]}
SymmetryTwo ==
  {[x \in {w1, w2, p1, p2} |-> x],
   [x \in {w1, w2, p1, p2} |-> CASE x = w1 -> w2 [] x = w2 -> w1
                                  [] x = p1 -> p2 [] x = p2 -> p1]}
=============================================================================
