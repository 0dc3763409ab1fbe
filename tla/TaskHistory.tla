---------------------------- MODULE TaskHistory ----------------------------
(***************************************************************************)
(* What events.ndjson promises to its readers: a history of transactions   *)
(* that only grows, by one transaction at a time, each of them once.       *)
(***************************************************************************)
EXTENDS Naturals, Sequences

CONSTANT Transactions    \* every transaction that may enter the history

VARIABLE history

Init == history = <<>> \/ \E t \in Transactions : history = <<t>>

Commit(t) ==
  /\ \A k \in 1..Len(history) : history[k] # t
  /\ history' = Append(history, t)

Next == \E t \in Transactions : Commit(t)

Spec == Init /\ [][Next]_history
=============================================================================
