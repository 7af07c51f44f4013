----------------------------- MODULE LedBinding -----------------------------
(***************************************************************************)
(* What the trigger core promises of an LED (led_trigger_set and           *)
(* led_trigger_event in drivers/leds/led-triggers.c), without its locks,   *)
(* lists and threads: an LED is bound to no trigger or to one, moves from  *)
(* one to another through darkness, and shines by the one it is bound to   *)
(* or by user space's hand.                                                *)
(***************************************************************************)
CONSTANTS Leds, Triggers, NoTrigger

VARIABLES
    bound,    \* the trigger that drives each LED
    light     \* who set its brightness last: "off", "user" or a trigger

Init == bound = [l \in Leds |-> NoTrigger] /\ light = [l \in Leds |-> "off"]

\* deactivate and LED_OFF.
Unbind(l) ==
    /\ bound[l] # NoTrigger
    /\ bound' = [bound EXCEPT ![l] = NoTrigger]
    /\ light' = [light EXCEPT ![l] = "off"]

\* The new trigger's list and activate.
Bind(l, t) ==
    /\ bound[l] = NoTrigger
    /\ bound' = [bound EXCEPT ![l] = t]
    /\ UNCHANGED light

\* A trigger event reaches any of the LEDs bound to the trigger; user space and
\* a trigger's own timer reach one.
Drive ==
    /\ \E lit \in [Leds -> {"off", "user"} \cup Triggers] :
          /\ \A l \in Leds : lit[l] \in {light[l], "off", "user", bound[l]}
          /\ light' = lit
    /\ UNCHANGED bound

Next == Drive \/ \E l \in Leds : Unbind(l) \/ \E t \in Triggers : Bind(l, t)

Spec == Init /\ [][Next]_<<bound, light>>
=============================================================================
