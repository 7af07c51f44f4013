--------------------------- MODULE MCLedTriggers ---------------------------
(* Instances of LedTriggers for TLC. *)
EXTENDS LedTriggers, TLC

CONSTANTS l1, l2, t1, t2, p1, p2, p3

\* Both LEDs, or only the first, have the first trigger as their default.
BothDefault == [l \in Leds |-> t1]
FirstDefault == [l \in Leds |-> IF l = l1 THEN t1 ELSE NoTrigger]

ThreadSymmetry == Permutations(Threads)
=============================================================================
