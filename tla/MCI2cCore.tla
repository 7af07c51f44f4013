------------------------------ MODULE MCI2cCore ------------------------------
(* Instances of I2cCore for TLC. *)
EXTENDS I2cCore, TLC

CONSTANTS a1, a2, a3, p1, p2, p3

Symmetry == Permutations(Procs) \cup Permutations(Adapters)
=============================================================================
