----------------------------- MODULE MCLedsGpio -----------------------------
(* The instance of LedsGpio for TLC: three LEDs, two of them on an expander. *)
EXTENDS LedsGpio, TLC

CONSTANT u1
=============================================================================
