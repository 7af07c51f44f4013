----------------------------- MODULE MCAtmelTwi -----------------------------
(* Instances of AtmelTwi for TLC. *)
EXTENDS AtmelTwi
=============================================================================
