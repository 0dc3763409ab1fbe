--------------------------- MODULE ResultRegister ---------------------------
(* What the review of one item promises about its result: there is at most    *)
(* one, a later human decision may replace it, and once it is final it stays. *)
CONSTANTS Results, None

VARIABLES result, final

Init == result = None /\ final = FALSE

Adopt(a) == ~final /\ result' = a /\ UNCHANGED final

Finalize == result # None /\ final' = TRUE /\ UNCHANGED result

Next == (\E a \in Results : Adopt(a)) \/ Finalize

Spec == Init /\ [][Next]_<<result, final>>
=============================================================================
