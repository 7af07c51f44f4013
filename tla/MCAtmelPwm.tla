----------------------------- MODULE MCAtmelPwm -----------------------------
(* Instances of AtmelPwm for TLC. *)
EXTENDS AtmelPwm
=============================================================================
