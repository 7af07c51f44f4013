------------------------------ MODULE LedsGpio ------------------------------
(***************************************************************************)
(* The GPIO LED driver, drivers/leds/leds-gpio.c, with the parts of the    *)
(* LED class that call it.                                                 *)
(*                                                                         *)
(* One platform device has LEDs 1 .. N, each on a GPIO of its own.  Their  *)
(* brightness is set by processes (the attribute brightness, and LED_OFF   *)
(* when a trigger is taken off) and by triggers, from timers.  A GPIO of   *)
(* an expander can sleep: a timer's level for it is left to a work item,   *)
(* which the one worker thread of the kernel carries out.                  *)
(*                                                                         *)
(* Setting a level from a thread takes two steps: brightness is stored     *)
(* with the level computed, and the GPIO changes later, as timers may come *)
(* in between and the transfer to an expander sleeps.                      *)
(***************************************************************************)
EXTENDS Integers

CONSTANTS
    N,                   \* num_leds
    ActiveLow, CanSleep, \* the LEDs with active_low, and those with can_sleep
    Brightness,          \* brightness values; 0 is LED_OFF
    Users,               \* processes using the LED class
    Core, Worker,        \* the process that binds and unbinds the device; events/0
    NoSet                \* nothing in flight

Leds == 1 .. N
Actors == Users \cup {Core, Worker}

ASSUME NAssumption == N \in Nat \ {0} /\ ActiveLow \subseteq Leds /\ CanSleep \subseteq Leds
ASSUME BrightnessAssumption == 0 \in Brightness /\ Brightness \subseteq Nat
ASSUME ActorsAssumption == Core \notin Users /\ Worker \notin Users \cup {Core}

\* A level on its way to the GPIO of an LED, from a store to brightness, a holder of
\* trigger_lock or the work.
Sets == [led : Leds, level : {0, 1}, by : {"store", "trigger_lock", "work"}]
ASSUME SetsAssumption == NoSet \notin Sets

VARIABLES
    phase, at,           \* what Core does (leds_data exists unless "unbound"), to which LED
    class,               \* the LED in the LED class
    timer,               \* whether the LED has a trigger, which drives it from timers
    brightness, newLevel,
    gpio, pin,           \* whether the GPIO is requested; its level
    pending,             \* the LEDs whose work is queued
    inFlight,            \* the level each actor is putting on a GPIO, and how it came to
    raced                \* history: the last set of the LED met another one in flight

vars == <<phase, at, class, timer, brightness, newLevel, gpio, pin, pending, inFlight, raced>>
bindVars == <<phase, at, gpio, class>>

Init ==
    /\ phase = "unbound" /\ at = 1 /\ class = [l \in Leds |-> "no"]
    /\ timer = [l \in Leds |-> FALSE]
    /\ brightness = [l \in Leds |-> 0] /\ newLevel = [l \in Leds |-> 0]
    /\ gpio = [l \in Leds |-> FALSE] /\ pin = [l \in Leds |-> 0]
    /\ pending = {} /\ inFlight = [a \in Actors |-> NoSet]
    /\ raced = [l \in Leds |-> FALSE]

Busy(a, l) == inFlight[a] # NoSet /\ inFlight[a].led = l
Racing(l) == \E a \in Actors \ {Worker} : Busy(a, l)
\* trigger_lock is free.
Unlocked(l) == \A a \in Actors : Busy(a, l) => inFlight[a].by # "trigger_lock"

-----------------------------------------------------------------------------
\* gpio_led_set: the level; from a thread, and from a timer.
Level_Raw(l, value) ==                       \* mutant: the brightness itself is the level
    IF l \in ActiveLow THEN (IF value = 0 THEN 1 ELSE 0) ELSE value
Level(l, value) == IF (value = 0) = (l \in ActiveLow) THEN 1 ELSE 0

SetFromThread(a, l, value, by) ==
    /\ inFlight[a] = NoSet
    /\ brightness' = [brightness EXCEPT ![l] = value]
    /\ inFlight' = [inFlight EXCEPT ![a] = [led |-> l, level |-> Level(l, value), by |-> by]]
    /\ raced' = [raced EXCEPT ![l] = Racing(l) \/ Busy(Worker, l) \/ l \in pending]

EndSet(a) ==
    /\ inFlight[a] # NoSet
    /\ pin' = [pin EXCEPT ![inFlight[a].led] = inFlight[a].level]
    /\ inFlight' = [inFlight EXCEPT ![a] = NoSet]
    /\ UNCHANGED <<bindVars, timer, brightness, newLevel, pending, raced>>

\* new_level, then schedule_work, which does nothing to work that is queued.
Defer_Once(l, level) ==                      \* mutant: new_level stays while work is queued
    /\ newLevel' = IF l \in pending THEN newLevel ELSE [newLevel EXCEPT ![l] = level]
    /\ pending' = pending \cup {l}
Defer(l, level) ==
    newLevel' = [newLevel EXCEPT ![l] = level] /\ pending' = pending \cup {l}

SetFromTimer(l, value) ==
    /\ timer[l] /\ Unlocked(l) /\ brightness' = [brightness EXCEPT ![l] = value]
    /\ IF l \in CanSleep
       THEN Defer(l, Level(l, value)) /\ UNCHANGED pin
       ELSE pin' = [pin EXCEPT ![l] = Level(l, value)] /\ UNCHANGED <<newLevel, pending>>
    /\ raced' = [raced EXCEPT ![l] = Racing(l)]
    /\ UNCHANGED <<bindVars, timer, inFlight>>

\* gpio_led_work; the queued mark goes before the function runs.
Work(l) ==
    /\ l \in pending /\ inFlight[Worker] = NoSet
    /\ pending' = pending \ {l}
    /\ inFlight' = [inFlight EXCEPT ![Worker] =
                        [led |-> l, level |-> newLevel[l], by |-> "work"]]
    /\ UNCHANGED <<bindVars, timer, brightness, newLevel, pin, raced>>

-----------------------------------------------------------------------------
\* The LED class.  An LED is "created" with the attribute brightness and a place on
\* leds_list, "registered" once it has the attribute trigger, "leaving" without the
\* attributes, "cleared" when its trigger was taken off, and "unlisted" after that.
\* One whose registration "failed" late, or that left leds_list with a trigger
\* ("lost"), may be used by triggers after its memory is freed.
Listed == {"created", "registered", "leaving", "cleared"}
Stray(l) == class[l] \in {"failed", "lost"}
Used(l) == timer[l] \/ l \in pending \/ \E a \in Actors : Busy(a, l)

Store(p, l, value) ==
    /\ class[l] \in {"created", "registered"} /\ SetFromThread(p, l, value, "store")
    /\ UNCHANGED <<bindVars, timer, newLevel, pin, pending>>

\* Who may change the trigger: Core, in led_trigger_set_default; a process, by the
\* attribute trigger or walking leds_list when a trigger comes or goes.  A walk may
\* still stand on an LED whose registration failed: that one leaves the list
\* without its lock.
MayChange(a, l) ==
    /\ Unlocked(l)
    /\ IF a = Core THEN phase = "registering" /\ at = l /\ class[l] = "registered"
                   ELSE class[l] \in Listed \cup {"failed"}

\* led_trigger_set, under trigger_lock: to a trigger, and to none.
\* heartbeat_trig_activate sets the LED before it starts the timer.
Attach(a, l) ==
    /\ MayChange(a, l) /\ ~ timer[l]
    /\ timer' = [timer EXCEPT ![l] = TRUE]
    /\ \/ \E v \in Brightness : SetFromThread(a, l, v, "trigger_lock")
       \/ UNCHANGED <<brightness, inFlight, raced>>
    /\ UNCHANGED <<bindVars, newLevel, pin, pending>>

TurnOff(a, l) ==
    /\ timer[l] /\ timer' = [timer EXCEPT ![l] = FALSE]
    /\ SetFromThread(a, l, 0, "trigger_lock")

Detach(a, l) ==
    /\ MayChange(a, l) /\ TurnOff(a, l)
    /\ UNCHANGED <<bindVars, newLevel, pin, pending>>

-----------------------------------------------------------------------------
\* gpio_led_probe: kzalloc, then for each LED the GPIO and the registration.  The
\* model ends where freed memory of an earlier binding is still in use.
Probe ==
    /\ phase = "unbound" /\ phase' = "requesting" /\ at' = 1
    /\ \A l \in Leds : Stray(l) => ~ Used(l)
    /\ class' = [l \in Leds |-> "no"]
    /\ brightness' = [l \in Leds |-> 0] /\ newLevel' = [l \in Leds |-> 0]
    /\ UNCHANGED <<timer, gpio, pin, pending, inFlight, raced>>

Unwound_Early(i) == i < 3                    \* mutant: "i > 0" became "i > 1"
Unwound(i) == i = 1

\* The label err, for the LEDs before the failing one.
Fail ==
    IF Unwound(at) THEN phase' = "unbound" /\ UNCHANGED at
                   ELSE phase' = "unwinding" /\ at' = at - 1

Request ==
    /\ phase = "requesting"
    /\ \/ Fail /\ UNCHANGED <<gpio, pin>>
       \/ /\ gpio' = [gpio EXCEPT ![at] = TRUE]
          /\ pin' = [pin EXCEPT ![at] = IF at \in ActiveLow THEN 1 ELSE 0]
          /\ phase' = "registering" /\ UNCHANGED at
    /\ raced' = [raced EXCEPT ![at] = FALSE]
    /\ UNCHANGED <<class, timer, brightness, newLevel, pending, inFlight>>

\* led_classdev_register, in two parts: the attribute brightness and the list,
\* the attribute trigger.
Create ==
    /\ phase = "registering" /\ class[at] = "no"
    /\ class' = [class EXCEPT ![at] = "created"]
    /\ UNCHANGED <<phase, at, gpio, timer, brightness, newLevel, pin, pending, inFlight, raced>>

CreateTrigger ==
    /\ phase = "registering" /\ class[at] = "created"
    /\ class' = [class EXCEPT ![at] = "registered"]
    /\ UNCHANGED <<phase, at, gpio, timer, brightness, newLevel, pin, pending, inFlight, raced>>

\* The default trigger is set, if there is one: on to the next LED.
Registered ==
    /\ phase = "registering" /\ class[at] = "registered" /\ inFlight[Core] = NoSet
    /\ IF at = N THEN phase' = "bound" /\ UNCHANGED at
                 ELSE phase' = "requesting" /\ at' = at + 1
    /\ UNCHANGED <<class, gpio, timer, brightness, newLevel, pin, pending, inFlight, raced>>

\* Removing an attribute waits for the stores inside it.
StoresOver == \A p \in Users : Busy(p, at) => inFlight[p].by # "store"

\* Either part may fail.  The trigger a walk has attached after the first one is not
\* taken off, nobody who sets the LED is waited for but the stores, and
\* gpio_led_probe frees the GPIO and does not cancel the work.
RegisterFails ==
    /\ phase = "registering" /\ class[at] \in {"no", "created"} /\ StoresOver
    /\ class' = [class EXCEPT ![at] = IF class[at] = "created" THEN "failed" ELSE "no"]
    /\ gpio' = [gpio EXCEPT ![at] = FALSE]
    /\ Fail
    /\ UNCHANGED <<timer, brightness, newLevel, pin, pending, inFlight, raced>>

Remove ==
    /\ phase = "bound" /\ phase' = "removing" /\ at' = 1
    /\ UNCHANGED <<class, gpio, timer, brightness, newLevel, pin, pending, inFlight, raced>>

\* led_classdev_unregister: the attributes go; then the trigger, under trigger_lock;
\* and, after device_unregister, the LED leaves leds_list, where no walk may be.
RemoveFiles ==
    /\ phase \in {"unwinding", "removing"} /\ class[at] = "registered" /\ StoresOver
    /\ class' = [class EXCEPT ![at] = "leaving"]
    /\ UNCHANGED <<phase, at, gpio, timer, brightness, newLevel, pin, pending, inFlight, raced>>

ClearTrigger ==
    /\ phase \in {"unwinding", "removing"} /\ class[at] = "leaving" /\ Unlocked(at)
    /\ class' = [class EXCEPT ![at] = "cleared"]
    /\ \/ TurnOff(Core, at)
       \/ ~ timer[at] /\ UNCHANGED <<timer, brightness, inFlight, raced>>
    /\ UNCHANGED <<phase, at, gpio, newLevel, pin, pending>>

Unlist ==
    /\ phase \in {"unwinding", "removing"} /\ class[at] = "cleared"
    /\ inFlight[Core] = NoSet /\ Unlocked(at)
    /\ class' = [class EXCEPT ![at] = IF timer[at] THEN "lost" ELSE "unlisted"]
    /\ UNCHANGED <<phase, at, gpio, timer, brightness, newLevel, pin, pending, inFlight, raced>>

\* cancel_work_sync also waits for the work that runs.
Cancels_NoSync(l) == pending' = pending \ {l}     \* mutant: cancel_work
Cancels(l) == ~ Busy(Worker, l) /\ pending' = pending \ {l}

\* Then gpio_free, and kfree after the last LED: upwards in gpio_led_remove,
\* downwards in gpio_led_probe.
Free ==
    /\ phase \in {"unwinding", "removing"} /\ class[at] \in {"unlisted", "lost"}
    /\ Cancels(at)
    /\ class' = [class EXCEPT ![at] = IF Stray(at) THEN "lost" ELSE "no"]
    /\ gpio' = [gpio EXCEPT ![at] = FALSE]
    /\ IF phase = "unwinding" THEN Fail
       ELSE IF at = N THEN phase' = "unbound" /\ UNCHANGED at
       ELSE at' = at + 1 /\ UNCHANGED phase
    /\ UNCHANGED <<timer, brightness, newLevel, pin, inFlight, raced>>

-----------------------------------------------------------------------------
Bind == Probe \/ Request \/ Create \/ CreateTrigger \/ Registered \/ RegisterFails
Unbind == Remove \/ RemoveFiles \/ ClearTrigger \/ Unlist \/ Free

Next ==
    \/ Bind \/ Unbind
    \/ \E l \in Leds, v \in Brightness : SetFromTimer(l, v) \/ \E p \in Users : Store(p, l, v)
    \/ \E l \in Leds : Work(l)
    \/ \E l \in Leds, a \in Users \cup {Core} : Attach(a, l) \/ Detach(a, l)
    \/ \E a \in Actors : EndSet(a)

Spec == Init /\ [][Next]_vars

-----------------------------------------------------------------------------
TypeOK ==
    /\ phase \in {"unbound", "requesting", "registering", "bound", "unwinding", "removing"}
    /\ at \in Leds
    /\ class \in [Leds -> Listed \cup {"no", "unlisted", "failed", "lost"}]
    /\ timer \in [Leds -> BOOLEAN] /\ gpio \in [Leds -> BOOLEAN]
    /\ brightness \in [Leds -> Brightness]
    /\ newLevel \in [Leds -> {0, 1}] /\ pin \in [Leds -> {0, 1}]
    /\ pending \subseteq Leds /\ inFlight \in [Actors -> Sets \cup {NoSet}]
    /\ raced \in [Leds -> BOOLEAN]

\* Whatever may still change the level of an LED (a trigger's timer, queued or
\* running work, a thread in the middle of a set) finds leds_data allocated and
\* the GPIO requested, through failing probes and removals, and a process's store
\* does so whatever becomes of the LED; and an unbound device has let go of every
\* GPIO and every LED.  Only a trigger that a walk of leds_list attached to an LED
\* being unregistered or failing to register is beyond the driver's care.
ResourcesHeld ==
    /\ \A l \in Leds : Used(l) /\ ~ Stray(l) => phase # "unbound" /\ gpio[l]
    /\ \A p \in Users, l \in Leds :
          Busy(p, l) /\ inFlight[p].by = "store" => phase # "unbound" /\ gpio[l]
    /\ phase = "unbound" => \A l \in Leds : ~ gpio[l] /\ (Stray(l) \/ class[l] = "no")

\* No level is lost on the way through the work item: once nothing is in flight
\* the GPIO shows the brightness of the LED, unless a thread's set crossed another
\* one, of a timer or a thread.
SettledLevel ==
    \A l \in Leds :
        /\ class[l] \in {"created", "registered"} /\ ~ raced[l]
        /\ l \notin pending /\ \A a \in Actors : ~ Busy(a, l)
        => pin[l] = Level(l, brightness[l])
=============================================================================
