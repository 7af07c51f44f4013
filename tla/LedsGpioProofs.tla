--------------------------- MODULE LedsGpioProofs ---------------------------
(***************************************************************************)
(* Proofs about LedsGpio: whatever may still set the level of an LED finds *)
(* its data and its GPIO, and no level is lost on the way through the work *)
(* item, for any number of LEDs and processes.                             *)
(***************************************************************************)
EXTENDS LedsGpio, TLAPS

-----------------------------------------------------------------------------
Threads == Users \cup {Core}
Ending == {"registered", "leaving", "cleared", "unlisted", "lost"}
Gone == {"no", "failed", "lost"}

\* Where Core is says which LEDs are registered, and those have their GPIO.
Stages ==
    /\ phase = "unbound" => \A l \in Leds : class[l] \in Gone
    /\ phase = "bound" => \A l \in Leds : class[l] = "registered"
    /\ phase = "requesting" => class[at] = "no"
    /\ phase = "registering" => class[at] \in {"no", "created", "registered"}
    /\ phase \in {"unwinding", "removing"} => class[at] \in Ending
    /\ phase \in {"requesting", "registering"} =>
          \A l \in Leds : (l < at => class[l] = "registered") /\ (l > at => class[l] = "no")
    /\ phase = "unwinding" =>
          \A l \in Leds : (l < at => class[l] = "registered") /\ (l > at => class[l] \in Gone)
    /\ phase = "removing" =>
          \A l \in Leds : (l < at => class[l] \in Gone) /\ (l > at => class[l] = "registered")
    /\ \A l \in Leds : gpio[l] <=>
          \/ class[l] \in Listed \cup {"unlisted"}
          \/ phase = "registering" /\ l = at
          \/ phase \in {"unwinding", "removing"} /\ l = at /\ class[l] = "lost"

\* What is in flight belongs to an LED of the class, no later than the class waits
\* for it, or to one that left with a trigger.
InUse ==
    /\ \A l \in Leds : timer[l] => class[l] \in Listed \cup {"failed", "lost"}
    /\ \A l \in pending : class[l] # "no" /\ l \in CanSleep
    /\ \A l \in Leds : Busy(Worker, l) => class[l] # "no" /\ l \in CanSleep
    /\ \A l \in Leds : Busy(Core, l) =>
          /\ l = at /\ inFlight[Core].by = "trigger_lock"
          /\ \/ phase = "registering" /\ class[l] = "registered"
             \/ phase \in {"unwinding", "removing"} /\ class[l] = "cleared"
    /\ \A p \in Users, l \in Leds : Busy(p, l) =>
          \/ inFlight[p].by = "store" /\ class[l] \in {"created", "registered"}
          \/ inFlight[p].by = "trigger_lock" /\ class[l] \in Listed \cup {"failed"}

\* The level an LED will come to have: its only thread in flight carries it, or the
\* queued work, or the running work, or else the GPIO has it.
Shown(l) == Level(l, brightness[l])
Carried(l) ==
    \/ /\ l \notin pending /\ ~ Busy(Worker, l) /\ Racing(l)
       /\ \A a \in Threads : Busy(a, l) => inFlight[a].level = Shown(l)
                                           /\ \A b \in Threads : Busy(b, l) => b = a
    \/ /\ ~ Racing(l)
       /\ l \in pending => newLevel[l] = Shown(l)
       /\ l \notin pending /\ Busy(Worker, l) => inFlight[Worker].level = Shown(l)
       /\ l \notin pending /\ ~ Busy(Worker, l) => pin[l] = Shown(l)
Settling ==
    \A l \in Leds : class[l] \in {"created", "registered"} /\ ~ raced[l] => Carried(l)

\* An LED that is not in the class yet is off.
Fresh ==
    /\ phase = "requesting" => \A l \in Leds : l >= at => brightness[l] = 0
    /\ phase = "registering" =>
          /\ \A l \in Leds : l > at => brightness[l] = 0
          /\ class[at] = "no" => brightness[at] = 0 /\ pin[at] = Shown(at)

IInv == TypeOK /\ Stages /\ InUse /\ Settling /\ Fresh

-----------------------------------------------------------------------------
\* A level is one bit.
LEMMA LevelType == \A l, v : Level(l, v) \in {0, 1}
  BY DEF Level

\* What a set from a thread leaves behind.
LEMMA SetTypes ==
    ASSUME TypeOK, NEW a \in Actors, NEW l \in Leds, NEW v \in Brightness,
           NEW by \in {"store", "trigger_lock", "work"}, SetFromThread(a, l, v, by)
    PROVE  /\ brightness' \in [Leds -> Brightness]
           /\ inFlight' \in [Actors -> Sets \cup {NoSet}]
           /\ raced' \in [Leds -> BOOLEAN]
  BY LevelType DEF TypeOK, SetFromThread, Sets, Racing, Busy

\* Every step keeps the types; the indices of Core stay within the LEDs.
LEMMA TypeStep == IInv /\ [Next]_vars => TypeOK'
<1> SUFFICES ASSUME IInv, [Next]_vars PROVE TypeOK'
  OBVIOUS
<1> USE NAssumption, BrightnessAssumption, LevelType
       DEF IInv, TypeOK, Leds, Actors, Sets, bindVars, Listed
<1>1. CASE Probe
  BY <1>1 DEF Probe, Stray, Used
<1>2. CASE Request
  <2>1. raced' \in [Leds -> BOOLEAN] /\ gpio' \in [Leds -> BOOLEAN] /\ pin' \in [Leds -> {0, 1}]
    BY <1>2 DEF Request
  <2>2. at' \in Leds /\ phase' \in {"unbound", "registering", "unwinding"}
    BY <1>2 DEF Request, Fail, Unwound
  <2> QED
    BY <1>2, <2>1, <2>2 DEF Request
<1>3. CASE Create
  BY <1>3 DEF Create
<1>4. CASE Registered
  BY <1>4 DEF Registered
<1>5. CASE RegisterFails
  BY <1>5 DEF RegisterFails, Fail, Unwound, StoresOver
<1>6. CASE Remove
  BY <1>6 DEF Remove
<1>7. CASE RemoveFiles
  BY <1>7 DEF RemoveFiles, StoresOver
<1>8. CASE ClearTrigger
  <2>1. /\ brightness' \in [Leds -> Brightness]
        /\ inFlight' \in [Actors -> Sets \cup {NoSet}]
        /\ raced' \in [Leds -> BOOLEAN]
    BY <1>8, SetTypes DEF ClearTrigger, TurnOff
  <2> QED
    BY <1>8, <2>1 DEF ClearTrigger, TurnOff
<1>9. CASE Free
  BY <1>9 DEF Free, Stray, Fail, Unwound, Cancels
<1>10. ASSUME NEW l \in Leds, NEW v \in Brightness, SetFromTimer(l, v) PROVE TypeOK'
  <2>1. brightness' \in [Leds -> Brightness] /\ raced' \in [Leds -> BOOLEAN]
    BY <1>10 DEF SetFromTimer, Racing, Busy
  <2>2. Level(l, v) \in {0, 1}
    BY LevelType
  <2>3. newLevel' \in [Leds -> {0, 1}] /\ pending' \subseteq Leds
    <3>1. CASE newLevel' = [newLevel EXCEPT ![l] = Level(l, v)] /\ pending' = pending \cup {l}
      BY <2>2, <3>1
    <3>2. CASE newLevel' = newLevel /\ pending' = pending
      BY <3>2
    <3> QED
      BY <1>10, <3>1, <3>2 DEF SetFromTimer, Defer
  <2>4. pin' \in [Leds -> {0, 1}]
    <3>1. CASE pin' = [pin EXCEPT ![l] = Level(l, v)]
      BY <2>2, <3>1
    <3> QED
      BY <1>10, <3>1 DEF SetFromTimer
  <2> QED
    BY <1>10, <2>1, <2>3, <2>4 DEF SetFromTimer
<1>11. ASSUME NEW l \in Leds, NEW v \in Brightness, NEW p \in Users, Store(p, l, v)
       PROVE TypeOK'
  BY <1>11, SetTypes DEF Store, TurnOff
<1>12. ASSUME NEW l \in Leds, Work(l) PROVE TypeOK'
  BY <1>12 DEF Work
<1>13. ASSUME NEW l \in Leds, NEW a \in Users \cup {Core}, Detach(a, l) PROVE TypeOK'
  BY <1>13, SetTypes DEF Detach, MayChange, TurnOff
<1>14. ASSUME NEW l \in Leds, NEW a \in Users \cup {Core}, Attach(a, l) PROVE TypeOK'
  <2>1. /\ brightness' \in [Leds -> Brightness]
        /\ inFlight' \in [Actors -> Sets \cup {NoSet}]
        /\ raced' \in [Leds -> BOOLEAN]
    BY <1>14, SetTypes DEF Attach
  <2> QED
    BY <1>14, <2>1 DEF Attach
<1>15. ASSUME NEW a \in Actors, EndSet(a) PROVE TypeOK'
  BY <1>15 DEF EndSet
<1>16. CASE CreateTrigger
  BY <1>16 DEF CreateTrigger
<1>17. CASE Unlist
  BY <1>17 DEF Unlist, Unlocked
<1>18. CASE UNCHANGED vars
  BY <1>18 DEF vars, bindVars
<1> QED
  BY <1>1, <1>2, <1>3, <1>4, <1>5, <1>6, <1>7, <1>8, <1>9, <1>10, <1>11, <1>12,
     <1>13, <1>14, <1>15, <1>16, <1>17, <1>18 DEF Next, Bind, Unbind

\* Only Core moves LEDs between the stages, one at a time.
LEMMA StagesStep == IInv /\ [Next]_vars => Stages'
<1> SUFFICES ASSUME IInv, [Next]_vars PROVE Stages'
  OBVIOUS
<1> USE NAssumption DEF IInv, TypeOK, Stages, Leds, bindVars, Ending, Gone, Listed
<1>1. CASE Probe
  <2>1. phase = "unbound" /\ \A l \in Leds : ~ gpio[l]
    BY <1>1 DEF Probe
  <2>2. phase' = "requesting" /\ at' = 1 /\ gpio' = gpio /\ class' = [l \in Leds |-> "no"]
    BY <1>1 DEF Probe
  <2> QED
    BY <2>1, <2>2
<1>2. CASE Request
  BY <1>2 DEF Request, Fail, Unwound
<1>3. CASE Create
  BY <1>3 DEF Create
<1>4. CASE Registered
  BY <1>4 DEF Registered
<1>5. CASE RegisterFails
  BY <1>5 DEF RegisterFails, Fail, Unwound, StoresOver
<1>6. CASE Remove
  BY <1>6 DEF Remove
<1>7. CASE RemoveFiles
  BY <1>7 DEF RemoveFiles, StoresOver
<1>8. CASE ClearTrigger
  BY <1>8 DEF ClearTrigger, TurnOff, SetFromThread, Unlocked, Racing
<1>9. CASE Free
  BY <1>9 DEF Free, Stray, Fail, Unwound, Cancels
<1>10. ASSUME NEW l \in Leds, NEW v \in Brightness, SetFromTimer(l, v) PROVE Stages'
  BY <1>10 DEF SetFromTimer, Defer, Racing, Unlocked
<1>11. ASSUME NEW l \in Leds, NEW v \in Brightness, NEW p \in Users, Store(p, l, v)
       PROVE Stages'
  BY <1>11 DEF Store, SetFromThread, Racing
<1>12. ASSUME NEW l \in Leds, Work(l) PROVE Stages'
  BY <1>12 DEF Work
<1>13. ASSUME NEW l \in Leds, NEW a \in Users \cup {Core}, Detach(a, l) PROVE Stages'
  BY <1>13 DEF Detach, MayChange, TurnOff, SetFromThread, Unlocked, Racing
<1>14. ASSUME NEW l \in Leds, NEW a \in Users \cup {Core}, Attach(a, l) PROVE Stages'
  BY <1>14 DEF Attach, MayChange, SetFromThread, Unlocked, Racing
<1>15. ASSUME NEW a \in Actors, EndSet(a) PROVE Stages'
  BY <1>15 DEF EndSet
<1>16. CASE CreateTrigger
  BY <1>16 DEF CreateTrigger
<1>17. CASE Unlist
  BY <1>17 DEF Unlist, Unlocked
<1>18. CASE UNCHANGED vars
  BY <1>18 DEF vars, bindVars
<1> QED
  BY <1>1, <1>2, <1>3, <1>4, <1>5, <1>6, <1>7, <1>8, <1>9, <1>10, <1>11, <1>12,
     <1>13, <1>14, <1>15, <1>16, <1>17, <1>18 DEF Next, Bind, Unbind

\* Whatever leaves the class waits first for what is in flight.
LEMMA InUseStep == IInv /\ [Next]_vars => InUse'
<1> SUFFICES ASSUME IInv, [Next]_vars PROVE InUse'
  OBVIOUS
<1> USE ActorsAssumption DEF IInv, TypeOK, Stages, InUse, Busy, Actors, Ending, Gone, Listed,
           bindVars
<1>1. CASE Probe
  BY <1>1 DEF Probe, Stray, Used
<1>2. CASE Request
  BY <1>2 DEF Request, Fail, Unwound
<1>3. CASE Create
  BY <1>3 DEF Create
<1>4. CASE Registered
  BY <1>4 DEF Registered
<1>5. CASE RegisterFails
  BY <1>5 DEF RegisterFails, Fail, Unwound, StoresOver
<1>6. CASE Remove
  BY <1>6 DEF Remove
<1>7. CASE RemoveFiles
  BY <1>7 DEF RemoveFiles, StoresOver
<1>8. CASE ClearTrigger
  BY <1>8 DEF ClearTrigger, TurnOff, SetFromThread, Unlocked, Racing
<1>9. CASE Free
  BY <1>9 DEF Free, Stray, Fail, Unwound, Cancels
<1>10. ASSUME NEW l \in Leds, NEW v \in Brightness, SetFromTimer(l, v) PROVE InUse'
  BY <1>10 DEF SetFromTimer, Defer, Racing, Unlocked
<1>11. ASSUME NEW l \in Leds, NEW v \in Brightness, NEW p \in Users, Store(p, l, v)
       PROVE InUse'
  BY <1>11 DEF Store, SetFromThread, Racing
<1>12. ASSUME NEW l \in Leds, Work(l) PROVE InUse'
  BY <1>12 DEF Work
<1>13. ASSUME NEW l \in Leds, NEW a \in Users \cup {Core}, Detach(a, l) PROVE InUse'
  BY <1>13 DEF Detach, MayChange, TurnOff, SetFromThread, Unlocked, Racing
<1>14. ASSUME NEW l \in Leds, NEW a \in Users \cup {Core}, Attach(a, l) PROVE InUse'
  BY <1>14 DEF Attach, MayChange, SetFromThread, Unlocked, Racing
<1>15. ASSUME NEW a \in Actors, EndSet(a) PROVE InUse'
  BY <1>15 DEF EndSet
<1>16. CASE CreateTrigger
  BY <1>16 DEF CreateTrigger
<1>17. CASE Unlist
  BY <1>17 DEF Unlist, Unlocked
<1>18. CASE UNCHANGED vars
  BY <1>18 DEF vars, bindVars
<1> QED
  BY <1>1, <1>2, <1>3, <1>4, <1>5, <1>6, <1>7, <1>8, <1>9, <1>10, <1>11, <1>12,
     <1>13, <1>14, <1>15, <1>16, <1>17, <1>18 DEF Next, Bind, Unbind

\* Nothing sets an LED before it is in the class.
LEMMA FreshStep == IInv /\ [Next]_vars => Fresh'
<1> SUFFICES ASSUME IInv, [Next]_vars PROVE Fresh'
  OBVIOUS
<1> USE NAssumption
       DEF IInv, TypeOK, Stages, InUse, Fresh, Shown, Level, Busy, Actors, Leds,
           Listed, bindVars
<1>1. CASE Probe
  BY <1>1 DEF Probe, Stray, Used
<1>2. CASE Request
  BY <1>2 DEF Request, Fail, Unwound
<1>3. CASE Create
  BY <1>3 DEF Create
<1>4. CASE Registered
  BY <1>4 DEF Registered
<1>5. CASE RegisterFails
  BY <1>5 DEF RegisterFails, Fail, Unwound, StoresOver
<1>6. CASE Remove
  BY <1>6 DEF Remove
<1>7. CASE RemoveFiles
  BY <1>7 DEF RemoveFiles, StoresOver
<1>8. CASE ClearTrigger
  BY <1>8 DEF ClearTrigger, TurnOff, SetFromThread, Unlocked, Racing
<1>9. CASE Free
  BY <1>9 DEF Free, Stray, Fail, Unwound, Cancels
<1>10. ASSUME NEW l \in Leds, NEW v \in Brightness, SetFromTimer(l, v) PROVE Fresh'
  <2>1. class[l] # "no"
    BY <1>10 DEF SetFromTimer
  <2>2. \A k \in Leds : k # l => brightness'[k] = brightness[k] /\ pin'[k] = pin[k]
    BY <1>10 DEF SetFromTimer
  <2>3. phase' = phase /\ at' = at /\ class' = class
    BY <1>10 DEF SetFromTimer
  <2> QED
    BY <2>1, <2>2, <2>3
<1>11. ASSUME NEW l \in Leds, NEW v \in Brightness, NEW p \in Users, Store(p, l, v)
       PROVE Fresh'
  BY <1>11 DEF Store, SetFromThread, Racing
<1>12. ASSUME NEW l \in Leds, Work(l) PROVE Fresh'
  BY <1>12 DEF Work
<1>13. ASSUME NEW l \in Leds, NEW a \in Users \cup {Core}, Detach(a, l) PROVE Fresh'
  BY <1>13 DEF Detach, MayChange, TurnOff, SetFromThread, Unlocked, Racing
<1>14. ASSUME NEW l \in Leds, NEW a \in Users \cup {Core}, Attach(a, l) PROVE Fresh'
  BY <1>14 DEF Attach, MayChange, SetFromThread, Unlocked, Racing
<1>15. ASSUME NEW a \in Actors, EndSet(a) PROVE Fresh'
  <2>1. Busy(a, inFlight[a].led) /\ inFlight[a].led \in Leds
    BY <1>15 DEF EndSet, Sets
  <2>2. class[inFlight[a].led] # "no"
    BY <2>1
  <2>3. UNCHANGED <<phase, at, class, brightness>>
        /\ pin' = [pin EXCEPT ![inFlight[a].led] = inFlight[a].level]
    BY <1>15 DEF EndSet
  <2> QED
    BY <2>1, <2>2, <2>3
<1>16. CASE CreateTrigger
  BY <1>16 DEF CreateTrigger
<1>17. CASE Unlist
  BY <1>17 DEF Unlist, Unlocked
<1>18. CASE UNCHANGED vars
  BY <1>18 DEF vars, bindVars
<1> QED
  BY <1>1, <1>2, <1>3, <1>4, <1>5, <1>6, <1>7, <1>8, <1>9, <1>10, <1>11, <1>12,
     <1>13, <1>14, <1>15, <1>16, <1>17, <1>18 DEF Next, Bind, Unbind

\* A set from a thread is either alone on its LED, and then its level is the one to
\* come, or marks the LED as raced.
LEMMA SetSettles ==
    ASSUME IInv, NEW a \in Threads, NEW l \in Leds, NEW v \in Brightness,
           NEW by \in {"store", "trigger_lock"}, SetFromThread(a, l, v, by),
           UNCHANGED <<class, pending, newLevel, pin>>
    PROVE  Settling'
<1> USE DEF IInv, TypeOK, Actors, Threads, Sets
<1> SUFFICES ASSUME NEW k \in Leds, class[k] \in {"created", "registered"}, ~ raced'[k]
             PROVE  Carried(k)'
  BY DEF Settling
<1>1. inFlight' = [inFlight EXCEPT ![a] = [led |-> l, level |-> Level(l, v), by |-> by]]
  BY DEF SetFromThread
<1>2. inFlight'[a] # NoSet /\ inFlight'[a].led = l /\ inFlight'[a].level = Level(l, v)
  BY <1>1, SetsAssumption, LevelType
<1>3. \A b \in Actors : b # a => inFlight'[b] = inFlight[b]
  BY <1>1
<1>4. CASE k = l
  <2>1. ~ Racing(l) /\ ~ Busy(Worker, l) /\ l \notin pending /\ brightness'[l] = v
    BY <1>4 DEF SetFromThread
  <2>2. Worker # a
    BY ActorsAssumption
  <2>3. \A b \in Threads : Busy(b, l)' => b = a
    BY <1>3, <2>1, <2>2 DEF Busy, Racing
  <2> QED
    BY <1>2, <1>3, <1>4, <2>1, <2>2, <2>3, ActorsAssumption DEF Carried, Shown, Busy, Racing
<1>5. CASE k # l
  <2>1. brightness'[k] = brightness[k] /\ raced'[k] = raced[k]
    BY <1>5 DEF SetFromThread
  <2>2. inFlight[a] = NoSet
    BY DEF SetFromThread
  <2>3. \A b \in Actors : Busy(b, k)' <=> Busy(b, k)
    BY <1>2, <1>3, <1>5, <2>2 DEF Busy
  <2>4. \A b \in Actors : Busy(b, k) => inFlight'[b] = inFlight[b]
    BY <1>3, <2>2 DEF Busy
  <2> QED
    BY <2>1, <2>3, <2>4 DEF Settling, Carried, Shown, Racing
<1> QED
  BY <1>4, <1>5

\* Sets that cross mark the LED as raced; the others hand the level on.
LEMMA SettlingStep == IInv /\ [Next]_vars => Settling'
<1> SUFFICES ASSUME IInv, [Next]_vars PROVE Settling'
  OBVIOUS
<1> USE ActorsAssumption
       DEF IInv, TypeOK, Stages, InUse, Fresh, Settling, Carried, Shown, Racing,
           Busy, Actors, Threads, Sets, Ending, Listed, bindVars
<1>1. CASE Probe
  BY <1>1 DEF Probe, Stray, Used
<1>2. CASE Request
  BY <1>2 DEF Request, Fail, Unwound
<1>3. CASE Create
  BY <1>3 DEF Create
<1>4. CASE Registered
  BY <1>4 DEF Registered
<1>5. CASE RegisterFails
  BY <1>5 DEF RegisterFails, Fail, Unwound, StoresOver
<1>6. CASE Remove
  BY <1>6 DEF Remove
<1>7. CASE RemoveFiles
  BY <1>7 DEF RemoveFiles, StoresOver
<1>8. CASE ClearTrigger
  BY <1>8 DEF ClearTrigger, TurnOff, SetFromThread, Unlocked, Racing
<1>9. CASE Free
  BY <1>9 DEF Free, Stray, Fail, Unwound, Cancels
<1>10. ASSUME NEW l \in Leds, NEW v \in Brightness, SetFromTimer(l, v) PROVE Settling'
  BY <1>10 DEF SetFromTimer, Defer, Racing, Unlocked
<1>11. ASSUME NEW l \in Leds, NEW v \in Brightness, NEW p \in Users, Store(p, l, v)
       PROVE Settling'
  BY <1>11, SetSettles DEF Store, Threads, bindVars
<1>12. ASSUME NEW l \in Leds, Work(l) PROVE Settling'
  <2>1. inFlight' = [inFlight EXCEPT ![Worker] =
                         [led |-> l, level |-> newLevel[l], by |-> "work"]]
    BY <1>12 DEF Work
  <2>2. inFlight[Worker] = NoSet /\ l \in pending /\ pending' = pending \ {l}
    BY <1>12 DEF Work
  <2>3. Busy(Worker, l)' /\ inFlight'[Worker].level = newLevel[l]
    BY <2>1, SetsAssumption
  <2>4. \A b \in Threads : inFlight'[b] = inFlight[b]
    BY <2>1
  <2>5. \A k \in Leds : k # l => ~ Busy(Worker, k)' /\ ~ Busy(Worker, k)
    BY <2>1, <2>2
  <2>6. UNCHANGED <<class, brightness, newLevel, pin, raced>> /\ Worker \notin Threads
    BY <1>12 DEF Work
  <2> SUFFICES ASSUME NEW k \in Leds, class[k] \in {"created", "registered"}, ~ raced[k]
               PROVE  Carried(k)'
    BY <2>6
  <2>7. CASE k = l
    BY <2>2, <2>3, <2>4, <2>6, <2>7
  <2>8. CASE k # l
    BY <2>2, <2>4, <2>5, <2>6, <2>8
  <2> QED
    BY <2>7, <2>8
<1>13. ASSUME NEW l \in Leds, NEW a \in Users \cup {Core}, Detach(a, l) PROVE Settling'
  BY <1>13, SetSettles, BrightnessAssumption DEF Detach, MayChange, TurnOff, Threads, bindVars
<1>14. ASSUME NEW l \in Leds, NEW a \in Users \cup {Core}, Attach(a, l) PROVE Settling'
  <2>1. CASE UNCHANGED <<brightness, inFlight, raced>>
    BY <1>14, <2>1 DEF Attach
  <2>2. CASE \E v \in Brightness : SetFromThread(a, l, v, "trigger_lock")
    BY <1>14, <2>2, SetSettles DEF Attach, MayChange, Threads
  <2> QED
    BY <1>14, <2>1, <2>2 DEF Attach
<1>15. ASSUME NEW a \in Actors, EndSet(a) PROVE Settling'
  <2> DEFINE l == inFlight[a].led
  <2>1. /\ inFlight[a] # NoSet /\ l \in Leds /\ inFlight'[a] = NoSet
        /\ pin' = [pin EXCEPT ![l] = inFlight[a].level]
        /\ \A b \in Actors : b # a => inFlight'[b] = inFlight[b]
    BY <1>15 DEF EndSet
  <2>2. UNCHANGED <<class, brightness, newLevel, pending, raced>> /\ Worker \notin Threads
    BY <1>15 DEF EndSet
  <2> SUFFICES ASSUME NEW k \in Leds, class[k] \in {"created", "registered"}, ~ raced[k]
               PROVE  Carried(k)'
    BY <2>2
  <2>3. CASE k # l
    BY <2>1, <2>2, <2>3
  <2>4. CASE k = l /\ a = Worker
    BY <2>1, <2>2, <2>4
  <2>5. CASE k = l /\ a \in Threads
    BY <2>1, <2>2, <2>5
  <2> QED
    BY <2>3, <2>4, <2>5
<1>16. CASE CreateTrigger
  BY <1>16 DEF CreateTrigger
<1>17. CASE Unlist
  BY <1>17 DEF Unlist, Unlocked
<1>18. CASE UNCHANGED vars
  BY <1>18 DEF vars, bindVars
<1> QED
  BY <1>1, <1>2, <1>3, <1>4, <1>5, <1>6, <1>7, <1>8, <1>9, <1>10, <1>11, <1>12,
     <1>13, <1>14, <1>15, <1>16, <1>17, <1>18 DEF Next, Bind, Unbind

-----------------------------------------------------------------------------
\* The invariant is inductive: whoever may set an LED was there before its stage of
\* the LED class is left.
THEOREM Inductive == Spec => []IInv
<1>1. Init => IInv
  BY NAssumption, BrightnessAssumption, ActorsAssumption
     DEF Init, IInv, TypeOK, Stages, InUse, Settling, Fresh, Leds, Actors, Busy, Gone, Listed
<1>2. IInv /\ [Next]_vars => IInv'
  BY TypeStep, StagesStep, InUseStep, SettlingStep, FreshStep DEF IInv
<1> QED
  BY <1>1, <1>2, PTL DEF Spec

\* The variables keep their types, and Core its place among the LEDs.
THEOREM GpioTypesOK == Spec => []TypeOK
<1>1. IInv => TypeOK
  BY DEF IInv
<1> QED
  BY <1>1, Inductive, PTL

\* No timer, work item or thread is left with an LED whose GPIO or data is gone, for
\* any number of LEDs, wherever a probe fails, but on an LED to which a walk of
\* leds_list attached a trigger while it was leaving or failing to register; and
\* not even on that one is it a store.
THEOREM ResourcesAreHeld == Spec => []ResourcesHeld
<1>1. IInv => ResourcesHeld
  BY ActorsAssumption
     DEF IInv, TypeOK, Stages, InUse, ResourcesHeld, Busy, Actors, Leds, Sets, Used,
         Stray, Gone, Listed
<1> QED
  BY <1>1, Inductive, PTL

\* The level of an LED at rest is the one of its brightness, unless sets crossed.
THEOREM LevelsSettle == Spec => []SettledLevel
<1>1. IInv => SettledLevel
  BY DEF IInv, Settling, Carried, SettledLevel, Shown, Racing, Actors, Threads
<1> QED
  BY <1>1, Inductive, PTL
=============================================================================
