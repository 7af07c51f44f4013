------------------------------- MODULE MCLoop -------------------------------
(* Instances of Loop for TLC. *)
EXTENDS Loop, TLC

CONSTANTS d1, d2, r1, r2, n1, n2, n3, x1, p1, p2, b1, b2

\* The first node is of the first device, all others are of the second.
TwoNodes == [n \in Nodes |-> IF n = n1 THEN d1 ELSE d2]

AllFirst == [n \in Nodes |-> d1]

ProcSymmetry == Permutations(Procs)
=============================================================================
