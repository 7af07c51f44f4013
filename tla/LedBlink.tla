------------------------------ MODULE LedBlink ------------------------------
(***************************************************************************)
(* The two blinking triggers, drivers/leds/ledtrig-timer.c and             *)
(* ledtrig-heartbeat.c, on one LED without hardware blinking.              *)
(*                                                                         *)
(* Both keep a structure with a kernel timer in led_cdev->trigger_data.    *)
(* led_trigger_set activates and deactivates them (one caller at a time:   *)
(* it holds the LED's trigger_lock); meanwhile the timer fires from the    *)
(* softirq, and user space writes the attributes delay_on and delay_off    *)
(* the timer trigger creates.  On the board's single CPU a timer callback  *)
(* is atomic for the threads, and a thread loses the CPU only where it     *)
(* sleeps: in kzalloc and in the creation and removal of attributes.       *)
(***************************************************************************)
EXTENDS Integers, FiniteSets

CONSTANTS
    Objects,   \* memory kzalloc can return
    NoObject,  \* NULL
    Writers,   \* user threads storing to the attributes
    Delays,    \* values they store, in ms
    MayFail,   \* allocations that may fail: "alloc", "delay_on", "delay_off"
    HZ,        \* timer ticks per second
    Loads      \* values of avenrun[0], fixed point with FSHIFT = 11

ASSUME BlinkAssumption ==
    /\ NoObject \notin Objects /\ 0 \in Delays /\ Delays \subseteq Nat
    /\ MayFail \subseteq {"alloc", "delay_on", "delay_off"}
    /\ HZ \in Nat \ {0} /\ 1000 % HZ = 0 /\ Loads \subseteq Nat

VARIABLES
    trigger, target, setPc,   \* led_cdev->trigger; led_trigger_set: its argument, its step
    data,                     \* led_cdev->trigger_data
    mem,                      \* what each object holds: nothing, a timer_trig_data or
                              \* a heartbeat_trig_data
    armed,                    \* objects whose timer is pending
    delay,                    \* ticks the last armed heartbeat timer was given
    lit,                      \* led_cdev->brightness # LED_OFF
    attrs,                    \* which of delay_on and delay_off exist
    storing, storeTo          \* the attribute each writer is in, the data it looked up

setVars   == <<trigger, target, setPc>>
writeVars == <<storing, storeTo>>
vars == <<setVars, data, mem, armed, delay, lit, attrs, writeVars>>

Kinds == {"timer", "heartbeat"}
Blank(kind) == [kind |-> kind, delay_on |-> 0, delay_off |-> 0, phase |-> 0, period |-> 0]

Init ==
    /\ trigger = "none" /\ target = "none" /\ setPc = "idle"
    /\ data = NoObject
    /\ mem = [o \in Objects |-> Blank("free")]
    /\ armed = {} /\ delay = 0 /\ lit = FALSE /\ attrs = {}
    /\ storing = [w \in Writers |-> "idle"]
    /\ storeTo = [w \in Writers |-> NoObject]

Removing(a) ==
    \/ a = "delay_on" /\ setPc \in {"remove_on", "undo_on"}
    \/ a = "delay_off" /\ setPc = "remove_off"
InStore_Ignored(a) == FALSE   \* mutant: removal does not wait for the writers
InStore(a) == \E w \in Writers : storing[w] = a
Free(o) == mem' = [mem EXCEPT ![o] = Blank("free")]

-----------------------------------------------------------------------------
(***************************************************************************)
(* Timers.  A callback finds its data through led_cdev->trigger_data.      *)
(***************************************************************************)
Ticks(ms) == (ms + 1000 \div HZ - 1) \div (1000 \div HZ)   \* msecs_to_jiffies

Toggled == ~ lit

\* led_timer_function
TimerFunction(o) ==
    /\ o \in armed /\ mem[o].kind = "timer" /\ data # NoObject
    /\ IF mem[data].delay_on = 0 \/ mem[data].delay_off = 0
       THEN lit' = FALSE /\ armed' = armed \ {o}
       ELSE lit' = Toggled /\ armed' = (armed \ {o}) \cup {data}
    /\ UNCHANGED <<setVars, data, mem, delay, attrs, writeVars>>

\* The period under a load: f(0) = 1260 ms ... f(inf) = 300 ms.
BeatPeriod(load) == Ticks(300 + (6720 * 2048) \div (5 * load + 7 * 2048))

Pause_Long(ph, p) ==          \* mutant: 90 ms beats
    CASE ph \in {0, 2} -> Ticks(90)
      [] ph = 1        -> p \div 4 - Ticks(90)
      [] OTHER         -> p - p \div 4 - Ticks(90)

\* The pause after each of the four phases, given the period.
Pause(ph, p) ==
    CASE ph \in {0, 2} -> Ticks(70)
      [] ph = 1        -> p \div 4 - Ticks(70)
      [] OTHER         -> p - p \div 4 - Ticks(70)

NextPhase_NoReset(ph) == ph + 1   \* mutant: phase is not reset after the last
NextPhase(ph) == (ph + 1) % 4

\* led_heartbeat_function for the data it looked up; the load counts in phase 0.
Beat(o) ==
    LET ph == mem[o].phase IN
    \E p \in IF ph = 0 THEN {BeatPeriod(load) : load \in Loads} ELSE {mem[o].period} :
        /\ mem' = [mem EXCEPT ![o].period = p, ![o].phase = NextPhase(ph)]
        /\ delay' = Pause(ph, p)
        /\ lit' = (ph \in {0, 2})

HeartbeatFunction(o) ==
    /\ o \in armed /\ mem[o].kind = "heartbeat" /\ data # NoObject
    /\ Beat(data)
    /\ armed' = (armed \ {o}) \cup {data}
    /\ UNCHANGED <<setVars, data, attrs, writeVars>>

-----------------------------------------------------------------------------
(***************************************************************************)
(* led_trigger_set: deactivate the old trigger and turn the LED off,       *)
(* activate the new one, assign it.                                        *)
(***************************************************************************)
SetTrigger(t) ==
    /\ setPc = "idle"
    /\ target' = t
    /\ setPc' = CASE trigger = "none" -> "activate"
                  [] trigger = "timer" /\ data # NoObject -> "remove_on"
                  [] OTHER -> "stop"
    /\ UNCHANGED <<trigger, data, mem, armed, delay, lit, attrs, writeVars>>

\* device_remove_file lets nobody in any more and waits for those inside.
RemoveOn ==
    /\ setPc = "remove_on" /\ ~ InStore("delay_on")
    /\ attrs' = attrs \ {"delay_on"} /\ setPc' = "remove_off"
    /\ UNCHANGED <<trigger, target, data, mem, armed, delay, lit, writeVars>>

RemoveOff ==
    /\ setPc = "remove_off" /\ ~ InStore("delay_off")
    /\ attrs' = attrs \ {"delay_off"} /\ setPc' = "stop"
    /\ UNCHANGED <<trigger, target, data, mem, armed, delay, lit, writeVars>>

Discard_NoDelTimer == UNCHANGED armed /\ Free(data)                  \* mutant
Discard == armed' = armed \ {data} /\ Free(data)

\* del_timer_sync, kfree, LED_OFF; trigger_data keeps its value.
Stop ==
    /\ setPc = "stop" /\ setPc' = "activate"
    /\ IF data = NoObject THEN UNCHANGED <<armed, mem>> ELSE Discard
    /\ lit' = FALSE
    /\ UNCHANGED <<trigger, target, data, delay, attrs, writeVars>>

\* kzalloc and the set-up of the data; the heartbeat beats at once, at phase 0.
Activate ==
    /\ setPc = "activate"
    /\ \/ /\ target = "none" \/ "alloc" \in MayFail
          /\ setPc' = "assign"
          /\ UNCHANGED <<data, mem, armed, delay, lit>>
       \/ \E o \in Objects, load \in Loads :
          /\ target # "none" /\ mem[o].kind = "free"
          /\ data' = o
          /\ IF target = "timer"
             THEN /\ mem' = [mem EXCEPT ![o] = Blank("timer")]
                  /\ setPc' = "create_on"
                  /\ UNCHANGED <<armed, delay, lit>>
             ELSE /\ mem' = [mem EXCEPT ![o] = [Blank("heartbeat") EXCEPT
                                !.phase = 1, !.period = BeatPeriod(load)]]
                  /\ delay' = Pause(0, BeatPeriod(load)) /\ lit' = TRUE
                  /\ armed' = armed \cup {o}
                  /\ setPc' = "assign"
    /\ UNCHANGED <<trigger, target, attrs, writeVars>>

Abandon_KeepsPointer == Free(data) /\ UNCHANGED data    \* mutant
Abandon == Free(data) /\ data' = NoObject

\* The error labels free the data and forget it.
CreateOn ==
    /\ setPc = "create_on"
    /\ \/ /\ attrs' = attrs \cup {"delay_on"} /\ setPc' = "create_off"
          /\ UNCHANGED <<data, mem>>
       \/ /\ "delay_on" \in MayFail
          /\ Abandon /\ setPc' = "assign"
          /\ UNCHANGED attrs
    /\ UNCHANGED <<trigger, target, armed, delay, lit, writeVars>>

CreateOff ==
    /\ setPc = "create_off"
    /\ \/ attrs' = attrs \cup {"delay_off"} /\ setPc' = "assign"
       \/ "delay_off" \in MayFail /\ setPc' = "undo_on" /\ UNCHANGED attrs
    /\ UNCHANGED <<trigger, target, data, mem, armed, delay, lit, writeVars>>

\* err_out_delayon deletes no timer: one that a store has armed meanwhile stays
\* pending in freed memory. From there the program is undefined, and not modelled.
UndoOn ==
    /\ setPc = "undo_on" /\ ~ InStore("delay_on")
    /\ attrs' = attrs \ {"delay_on"}
    /\ Abandon /\ setPc' = IF data \in armed THEN "undefined" ELSE "assign"
    /\ UNCHANGED <<trigger, target, armed, delay, lit, writeVars>>

Assign ==
    /\ setPc = "assign" /\ setPc' = "idle"
    /\ trigger' = target
    /\ UNCHANGED <<target, data, mem, armed, delay, lit, attrs, writeVars>>

-----------------------------------------------------------------------------
(***************************************************************************)
(* led_delay_on_store and led_delay_off_store: a value that differs is     *)
(* stored, then the timer is deleted and armed for the next tick.          *)
(***************************************************************************)
StoreDelay(w, a, v) ==
    /\ storing[w] = "idle" /\ a \in attrs /\ ~ Removing(a) /\ data # NoObject
    /\ mem[data][a] # v
    /\ mem' = [mem EXCEPT ![data][a] = v]
    /\ storing' = [storing EXCEPT ![w] = a]
    /\ storeTo' = [storeTo EXCEPT ![w] = data]
    /\ UNCHANGED <<setVars, data, armed, delay, lit, attrs>>

ModTimer_Missing(o) == armed' = armed \ {o}   \* mutant: deleted and not armed
ModTimer_Locked(o) ==         \* mutant: the store takes trigger_lock
    setPc = "idle" /\ armed' = armed \cup {o}
ModTimer(o) == armed' = armed \cup {o}

Rearm(w) ==
    /\ storing[w] # "idle"
    /\ ModTimer(storeTo[w])
    /\ storing' = [storing EXCEPT ![w] = "idle"]
    /\ UNCHANGED <<setVars, data, mem, delay, lit, attrs, storeTo>>

\* led_brightness_store
StoreBrightness ==
    /\ lit' = ~ lit
    /\ UNCHANGED <<setVars, data, mem, armed, delay, attrs, writeVars>>

-----------------------------------------------------------------------------
Set == RemoveOn \/ RemoveOff \/ Stop \/ Activate \/ CreateOn \/ CreateOff \/ UndoOn \/ Assign
Fire == \E o \in Objects : TimerFunction(o) \/ HeartbeatFunction(o)

Next ==
    \/ \E t \in Kinds \cup {"none"} : SetTrigger(t)
    \/ Set \/ Fire
    \/ \E w \in Writers : \/ \E a \in attrs, v \in Delays : StoreDelay(w, a, v)
                          \/ Rearm(w)
    \/ StoreBrightness

\* Pending timers expire and started operations run; nobody has to start one.
Spec == Init /\ [][Next]_vars
FairSpec == Spec /\ WF_vars(Fire) /\ WF_vars(Set) /\ \A w \in Writers : WF_vars(Rearm(w))

-----------------------------------------------------------------------------
(***************************************************************************)
(* Properties.                                                             *)
(***************************************************************************)
TypeOK ==
    /\ trigger \in Kinds \cup {"none"} /\ target \in Kinds \cup {"none"}
    /\ setPc \in {"idle", "remove_on", "remove_off", "stop", "activate", "create_on",
                  "create_off", "undo_on", "assign", "undefined"}
    /\ data \in Objects \cup {NoObject}
    /\ mem \in [Objects -> [kind : Kinds \cup {"free"}, delay_on : Delays,
                            delay_off : Delays, phase : 0 .. 3, period : Nat]]
    /\ armed \in SUBSET Objects /\ delay \in Int /\ lit \in BOOLEAN
    /\ attrs \in SUBSET {"delay_on", "delay_off"}
    /\ storing \in [Writers -> {"idle", "delay_on", "delay_off"}]
    /\ storeTo \in [Writers -> Objects \cup {NoObject}]

\* No timer is pending in freed memory, or for data the LED no longer has: a
\* callback, which goes through led_cdev->trigger_data, finds its own data. The
\* one exception is UndoOn's (ledtrig-timer.c:184).
TimersOwnData ==
    setPc # "undefined" => \A o \in armed : data = o /\ mem[o].kind # "free"

\* While an attribute exists, or a writer is inside it, the data behind it is
\* that of an active timer trigger.
AttributesOwnData ==
    /\ attrs # {} => data # NoObject /\ mem[data].kind = "timer"
    /\ \A w \in Writers : storing[w] # "idle" => mem[storeTo[w]].kind = "timer"

\* Deactivation frees only data that is still allocated.
DataFreedOnce == setPc = "stop" /\ data # NoObject => mem[data].kind # "free"

NoWriter == \A w \in Writers : storing[w] = "idle"
Blinking ==
    /\ setPc = "idle" /\ NoWriter /\ data # NoObject
    /\ \/ trigger = "heartbeat"
       \/ trigger = "timer" /\ mem[data].delay_on > 0 /\ mem[data].delay_off > 0

\* The pauses of a heartbeat are computed in unsigned arithmetic: none of them
\* goes below zero or beyond a period, at any load; at the shortest period, 300 ms,
\* the second one is 0 ticks at HZ = 250.
PausesFit ==
    \A o \in armed : mem[o].kind = "heartbeat" => delay \in 0 .. mem[o].period

\* An LED left to blink goes on and off for ever: no order of expiries, of stores, a
\* zero delay among them, and of writes to its brightness loses the timer.
BlinksForEver == <>[]Blinking => []<>lit /\ []<>~lit

\* led_trigger_set returns: it holds trigger_lock while it waits for the writers
\* inside the attributes it removes, none of whom waits for it, and no new one comes.
SetReturns == setPc # "idle" ~> setPc \in {"idle", "undefined"}
=============================================================================
