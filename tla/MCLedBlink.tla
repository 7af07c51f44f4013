----------------------------- MODULE MCLedBlink -----------------------------
(* Instances of LedBlink for TLC. *)
EXTENDS LedBlink
=============================================================================
