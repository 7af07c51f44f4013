--------------------------- MODULE LedListsProofs ---------------------------
(***************************************************************************)
(* More proofs about LedTriggers, for any LEDs, triggers, threads, default *)
(* triggers and number of operations: what leds_list, trigger_list and the *)
(* walks over the one or the other guarantee to registered LEDs.           *)
(*                                                                         *)
(* LEDs and triggers are registered and unregistered side by side, and the *)
(* two lists have different locks.  The invariant therefore says who has   *)
(* still to come to an LED:                                                *)
(*   Dismissed   an LED on a trigger that has left trigger_list is ahead   *)
(*               of that trigger's walk;                                   *)
(*   Adopted     an LED without its listed default trigger is ahead of     *)
(*               that trigger's walk, or its registration has still to     *)
(*               look the trigger up.                                      *)
(* The rest is what these two need: which step belongs to which operation, *)
(* when LEDs and triggers are on the lists, and who holds which list lock. *)
(***************************************************************************)
EXTENDS LedTriggersProofs

-----------------------------------------------------------------------------
\* Operations on a trigger, operations on an LED, and a thread inside one.
TrigOps == {"trig_register", "trig_unregister"}
LedOps == {"led_register", "led_unregister"}
Busy(p) == pc[p] # "idle"
\* A thread that has passed triggers_list_lock, or the start of its walk.
Working == {"lock"} \cup Held

\* Which steps belong to which operation, ...
Courses == \A p \in Threads :
    /\ pc[p] \in {"reg_create", "reg_list", "reg_file"} => op[p] = "led_register"
    /\ pc[p] \in {"unreg_files", "unreg_dev", "unreg_list"} => op[p] = "led_unregister"
    /\ pc[p] \in {"trig_list", "walk_start", "walk"} => op[p] \in TrigOps
    /\ pc[p] = "lookup" => op[p] \in {"store", "show", "led_register"}
    /\ pc[p] \in SetSteps => op[p] # "show"

\* ... what they are about, ...
About(p) ==
    /\ op[p] = "led_register" =>
           ledState[cur[p]] = "registering" /\ arg[p] = DefaultTrigger[cur[p]]
    /\ op[p] = "led_unregister" =>
           ledState[cur[p]] = "unregistering" /\ arg[p] = NoTrigger
    /\ op[p] = "trig_register" => trigState[arg[p]] = "registering"
    /\ op[p] = "trig_unregister" => trigState[arg[p]] = "unregistering"
    /\ op[p] = "store" => touched[cur[p]]

\* ... and that two of them are about different LEDs, or different triggers.
Alone == \A p, q \in Threads : p # q /\ Busy(p) /\ Busy(q) =>
    /\ op[p] \in LedOps /\ op[q] \in LedOps => cur[p] # cur[q]
    /\ op[p] \in TrigOps /\ op[q] \in TrigOps => arg[p] # arg[q]
Abouts == \A p \in Threads : Busy(p) => About(p)
Operations == Courses /\ Abouts /\ Alone

\* leds_list holds the LEDs from RegList on, until they fail or are gone.
Listed ==
    /\ \A l \in Leds : ledState[l] \in {"registered", "unregistering"} => l \in ledsList
    /\ \A l \in ledsList : ledState[l] # "gone"
    /\ \A p \in Threads :
           op[p] = "led_register" /\ pc[p] \in Working \cup {"reg_file", "lookup"}
               => cur[p] \in ledsList

\* trigger_list holds the triggers the same way.
Known ==
    /\ \A t \in Triggers : /\ trigState[t] = "absent" => t \notin triggerList
                           /\ trigState[t] = "registered" => t \in triggerList
    /\ \A p \in Threads : pc[p] \in Working \cup {"walk_start", "walk"} =>
           /\ op[p] = "trig_register" => arg[p] \in triggerList
           /\ op[p] = "trig_unregister" => arg[p] \notin triggerList

\* Who walks leds_list, ...
Walkers ==
    /\ \A p \in readers["leds_list_lock"] :
           op[p] \in TrigOps /\ pc[p] \in Working \cup {"walk"}
    /\ \A p \in Threads :
           walk[p] # {} => op[p] \in TrigOps /\ pc[p] \in Working \cup {"walk"}

\* ... and who relies on trigger_list.
Relying == \A p \in Threads : arg[p] # NoTrigger =>
    /\ op[p] \in {"store", "led_register"} /\ pc[p] \in Working =>
           p \in readers["triggers_list_lock"]
    /\ op[p] = "store" /\ pc[p] \in Working => arg[p] \in triggerList
    /\ op[p] = "led_register" /\ pc[p] \in SetSteps => arg[p] \in triggerList

\* An LED nobody could reach yet has no trigger, one user space has not touched
\* has none but its default.
Unused == \A l \in Leds :
    (ledState[l] = "absent" \/ \E p \in Threads : pc[p] \in Creating /\ cur[p] = l)
        => trigger[l] = NoTrigger
Untouched == \A l \in Leds :
    ~ touched[l] => trigger[l] \in {NoTrigger, DefaultTrigger[l]}

\* led_trigger_set is called by a trigger's operation for the LEDs concerned.
Concerned == \A p \in Threads : pc[p] \in SetSteps =>
    /\ op[p] = "trig_register" => DefaultTrigger[cur[p]] = arg[p]
    /\ op[p] = "trig_unregister" => trigger[cur[p]] = arg[p]

\* A walk that still comes to LED l.
Comes(p, l) ==
    \/ pc[p] = "walk_start" \/ l \in walk[p]
    \/ cur[p] = l /\ pc[p] \in {"lock"} \cup SetSteps

\* An LED on a trigger, or on its list.
Uses(l, t) == trigger[l] = t \/ l \in ledCdevs[t]

\* A trigger off trigger_list: the LEDs that use it are still to be walked.
Dismissed == \A l \in ledsList, t \in Triggers : t \notin triggerList /\ Uses(l, t) =>
    \E p \in Threads : op[p] = "trig_unregister" /\ arg[p] = t /\ Comes(p, l)

\* A default trigger on trigger_list: its walk comes to the LEDs without it, or
\* the LED's registration comes to it.
Adopts(p, l) ==
    \/ op[p] = "trig_register" /\ arg[p] = DefaultTrigger[l] /\ Comes(p, l)
    \/ /\ op[p] = "led_register" /\ cur[p] = l
       /\ pc[p] \in {"reg_file", "lookup", "lock"} \cup SetSteps

\* An LED that is to have its default trigger, and has not.
Lacks(l) ==
    /\ ~ touched[l] /\ ledState[l] \in {"registering", "registered"}
    /\ DefaultTrigger[l] \in triggerList /\ trigger[l] # DefaultTrigger[l]
Adopted == \A l \in ledsList : Lacks(l) => \E p \in Threads : Adopts(p, l)

-----------------------------------------------------------------------------
\* What the steps of each group leave alone.
LedFrame == UNCHANGED <<trigState, triggerList, bindVars, walkVars, reqVars>>
TrigFrame == UNCHANGED <<ledState, attrs, ledsList, bindVars, triggerLock, reqVars>>
LockFrame ==
    UNCHANGED <<attrs, ledsList, trigState, triggerList, bindVars, walkVars, reqVars>>
SetFrame == UNCHANGED <<devVars, lockVars, walkVars, reqVars>>

\* Every operation goes through its own steps only.
LEMMA CoursesStep ==
    ASSUME TypeOK, Courses, [Next]_vars, TypeOK'
    PROVE  Courses'
<1> USE DEF TypeOK, Courses, LedFrame, TrigFrame, LockFrame, SetFrame
<1>1. ASSUME NEW p \in Threads, NEW l \in Leds, BeginLedRegister(p, l) PROVE Courses'
  BY <1>1 DEF Begin, Goto, BeginLedRegister
<1>2. ASSUME NEW p \in Threads, NEW l \in Leds, BeginLedUnregister(p, l) PROVE Courses'
  BY <1>2 DEF Begin, Goto, BeginLedUnregister
<1>3. ASSUME NEW p \in Threads, NEW l \in Leds, BeginShow(p, l) PROVE Courses'
  BY <1>3 DEF Begin, Goto, bindVars, BeginShow, SetSteps
<1>4. ASSUME NEW p \in Threads, NEW l \in Leds, NEW t \in TriggersOrNone,
             BeginStore(p, l, t)
      PROVE  Courses'
  BY <1>4 DEF Begin, Goto, BeginStore, SetSteps
<1>5. ASSUME NEW p \in Threads, NEW t \in Triggers, BeginTrigRegister(p, t)
      PROVE  Courses'
  BY <1>5 DEF Begin, Goto, bindVars, BeginTrigRegister, TrigOps
<1>6. ASSUME NEW p \in Threads, NEW t \in Triggers, BeginTrigUnregister(p, t)
      PROVE  Courses'
  BY <1>6 DEF Begin, Goto, BeginTrigUnregister, TrigOps
<1>7. ASSUME NEW p \in Threads, RegCreate(p), LedFrame PROVE Courses'
  BY <1>7 DEF RegCreate, Goto, At, SetAttrs, SetLed, bindVars, reqVars, TrigOps
<1>8. ASSUME NEW p \in Threads, RegList(p), LedFrame PROVE Courses'
  BY <1>8 DEF RegList, Goto, At, MayWrite, bindVars, reqVars, TrigOps
<1>9. ASSUME NEW p \in Threads, RegFile(p), LedFrame PROVE Courses'
  BY <1>9 DEF RegFile, Goto, At, reqVars
<1>10. ASSUME NEW p \in Threads, UnregFiles(p), LedFrame PROVE Courses'
  BY <1>10 DEF UnregFiles, Goto, At, reqVars
<1>11. ASSUME NEW p \in Threads, UnregDevice(p), LedFrame PROVE Courses'
  BY <1>11 DEF UnregDevice, Goto, At, lockVars, bindVars, reqVars
<1>12. ASSUME NEW p \in Threads, UnregList(p), LedFrame PROVE Courses'
  BY <1>12 DEF UnregList, Goto, At, SetLed, reqVars
<1>13. ASSUME NEW p \in Threads, TrigList(p), TrigFrame PROVE Courses'
  BY <1>13 DEF TrigList, Goto, At, reqVars, TrigOps
<1>14. ASSUME NEW p \in Threads, WalkStart(p), TrigFrame PROVE Courses'
  BY <1>14 DEF WalkStart, Goto, At, reqVars, TrigOps
<1>15. ASSUME NEW p \in Threads, WalkNext(p), TrigFrame PROVE Courses'
  BY <1>15 DEF WalkNext, Goto, At, reqVars, TrigOps
<1>16. ASSUME NEW p \in Threads, WalkEnd(p), TrigFrame PROVE Courses'
  BY <1>16 DEF WalkEnd, Goto, At, UpRead, reqVars, TrigOps
<1>17. ASSUME NEW p \in Threads, Lookup(p), LockFrame PROVE Courses'
  BY <1>17 DEF Lookup, Goto, bindVars, reqVars, TrigOps, Working, Held, SetSteps
<1>18. ASSUME NEW p \in Threads, Lock(p), LockFrame PROVE Courses'
  BY <1>18
     DEF Lock, Goto, At, CallsSet, CallsDefault, bindVars, walkVars, reqVars, TrigOps,
         Working, Held, SetSteps
<1>19. ASSUME NEW p \in Threads, Release(p), LockFrame PROVE Courses'
  BY <1>19
     DEF Release, Goto, At, UpRead, SetLed, bindVars, walkVars, reqVars, TrigOps,
         Working, Held, SetSteps
<1>20. ASSUME NEW p \in Threads, TsDetach(p), SetFrame PROVE Courses'
  BY <1>20 DEF TsDetach, Goto, At, reqVars, SetSteps
<1>21. ASSUME NEW p \in Threads, TsDeactivate(p), SetFrame PROVE Courses'
  BY <1>21 DEF TsDeactivate, Goto, At, reqVars, SetSteps
<1>22. ASSUME NEW p \in Threads, TsAttach(p), SetFrame PROVE Courses'
  BY <1>22 DEF TsAttach, Goto, At, reqVars, SetSteps
<1>23. ASSUME NEW p \in Threads, TsActivate(p), SetFrame PROVE Courses'
  BY <1>23 DEF TsActivate, Goto, At, reqVars, SetSteps
<1>24. ASSUME NEW p \in Threads, TsAssign(p), SetFrame PROVE Courses'
  BY <1>24 DEF TsAssign, Goto, At, reqVars, SetSteps
<1>25. CASE Brightness \/ UNCHANGED vars
  BY <1>25 DEF Brightness, vars, reqVars, SetSteps
<1> QED
  BY <1>1, <1>2, <1>3, <1>4, <1>5, <1>6, <1>7, <1>8, <1>9, <1>10, <1>11, <1>12, <1>13,
     <1>14, <1>15, <1>16, <1>17, <1>18, <1>19, <1>20, <1>21, <1>22, <1>23, <1>24, <1>25
     DEF Next, Start, Continue, LedSteps, TrigSteps, LockSteps, LedTriggerSet

\* An LED or a trigger changes its state at the start and the end of the one
\* operation it is in.
LEMMA AboutsStep ==
    ASSUME TypeOK, Courses, Alone, NewLeds, RealTriggers, Abouts, [Next]_vars, TypeOK'
    PROVE  Abouts'
<1> USE DEF TypeOK, Abouts, LedFrame, TrigFrame, LockFrame, SetFrame
<1>1. ASSUME NEW p \in Threads, NEW l \in Leds, BeginLedRegister(p, l) PROVE Abouts'
  BY <1>1 DEF Begin, Goto, BeginLedRegister, SetLed, About, Busy
<1>2. ASSUME NEW p \in Threads, NEW l \in Leds, BeginLedUnregister(p, l) PROVE Abouts'
  BY <1>2 DEF Begin, Goto, BeginLedUnregister, SetLed, About, Busy
<1>3. ASSUME NEW p \in Threads, NEW l \in Leds, BeginShow(p, l) PROVE Abouts'
  BY <1>3 DEF Begin, Goto, At, lockVars, bindVars, BeginShow, About, Busy
<1>4. ASSUME NEW p \in Threads, NEW l \in Leds, NEW t \in TriggersOrNone,
             BeginStore(p, l, t)
      PROVE  Abouts'
  BY <1>4 DEF Begin, Goto, At, BeginStore, About, Busy
<1>5. ASSUME NEW p \in Threads, NEW t \in Triggers, BeginTrigRegister(p, t)
      PROVE  Abouts'
  BY <1>5 DEF Begin, Goto, At, BeginTrigRegister, About, Busy
<1>6. ASSUME NEW p \in Threads, NEW t \in Triggers, BeginTrigUnregister(p, t)
      PROVE  Abouts'
  BY <1>6 DEF Begin, Goto, At, BeginTrigUnregister, About, Busy
<1>7. ASSUME NEW p \in Threads, RegCreate(p), LedFrame PROVE Abouts'
  <2>1. op[p] = "led_register" /\ Busy(p)
    BY <1>7 DEF RegCreate, Courses, Busy, At
  <2>2. \A q \in Threads : q # p /\ Busy(q) /\ op[q] \in LedOps => cur[q] # cur[p]
    BY <2>1 DEF Alone, LedOps
  <2>3. ASSUME NEW q \in Threads, Busy(q)' PROVE About(q)'
    <3>1. CASE q = p
      BY <1>7, <2>1, <2>3, <3>1 DEF RegCreate, Goto, walkVars, reqVars, About, Busy
    <3>2. CASE q # p
      <4>1. Busy(q) /\ About(q)
        BY <1>7, <2>3, <3>2 DEF RegCreate, Goto, Busy
      <4> QED
        BY <1>7, <2>2, <3>2, <4>1
           DEF RegCreate, SetLed, walkVars, reqVars, About, LedOps
    <3> QED
      BY <3>1, <3>2
  <2> QED
    BY <2>3
<1>8. ASSUME NEW p \in Threads, RegList(p), LedFrame PROVE Abouts'
  BY <1>8 DEF RegList, Goto, At, walkVars, reqVars, About, Busy
<1>9. ASSUME NEW p \in Threads, RegFile(p), LedFrame PROVE Abouts'
  <2>1. op[p] = "led_register" /\ Busy(p)
    BY <1>9 DEF RegFile, Courses, Busy, At
  <2>2. \A q \in Threads : q # p /\ Busy(q) /\ op[q] \in LedOps => cur[q] # cur[p]
    BY <2>1 DEF Alone, LedOps
  <2>3. ASSUME NEW q \in Threads, Busy(q)' PROVE About(q)'
    <3>1. CASE q = p
      BY <1>9, <2>1, <2>3, <3>1 DEF RegFile, Goto, walkVars, reqVars, About, Busy
    <3>2. CASE q # p
      <4>1. Busy(q) /\ About(q)
        BY <1>9, <2>3, <3>2 DEF RegFile, Goto, Busy
      <4> QED
        BY <1>9, <2>2, <3>2, <4>1 DEF RegFile, SetLed, walkVars, reqVars, About, LedOps
    <3> QED
      BY <3>1, <3>2
  <2> QED
    BY <2>3
<1>10. ASSUME NEW p \in Threads, UnregFiles(p), LedFrame PROVE Abouts'
  BY <1>10 DEF UnregFiles, Goto, At, walkVars, reqVars, About, Busy
<1>11. ASSUME NEW p \in Threads, UnregDevice(p), LedFrame PROVE Abouts'
  BY <1>11 DEF UnregDevice, Goto, At, lockVars, bindVars, walkVars, reqVars, About, Busy
<1>12. ASSUME NEW p \in Threads, UnregList(p), LedFrame PROVE Abouts'
  <2>1. op[p] = "led_unregister" /\ Busy(p)
    BY <1>12 DEF UnregList, Courses, Busy, At
  <2>2. \A q \in Threads : q # p /\ Busy(q) /\ op[q] \in LedOps => cur[q] # cur[p]
    BY <2>1 DEF Alone, LedOps
  <2>3. ASSUME NEW q \in Threads, Busy(q)' PROVE About(q)'
    <3>1. CASE q = p
      BY <1>12, <2>1, <2>3, <3>1 DEF UnregList, Goto, Busy
    <3>2. CASE q # p
      <4>1. Busy(q) /\ About(q)
        BY <1>12, <2>3, <3>2 DEF UnregList, Goto, Busy
      <4> QED
        BY <1>12, <2>2, <3>2, <4>1
           DEF UnregList, SetLed, walkVars, reqVars, About, LedOps
    <3> QED
      BY <3>1, <3>2
  <2> QED
    BY <2>3
<1>13. ASSUME NEW p \in Threads, TrigList(p), TrigFrame PROVE Abouts'
  BY <1>13 DEF TrigList, Goto, At, MayWrite, walkVars, reqVars, About, Busy
<1>14. ASSUME NEW p \in Threads, WalkStart(p), TrigFrame PROVE Abouts'
  BY <1>14 DEF WalkStart, Goto, At, DownRead, walkVars, reqVars, About, Busy
<1>15. ASSUME NEW p \in Threads, WalkNext(p), TrigFrame PROVE Abouts'
  <2>1. op[p] \in TrigOps /\ Busy(p) /\ About(p)
    BY <1>15 DEF WalkNext, Courses, Busy, At
  <2>2. ASSUME NEW q \in Threads, Busy(q)' PROVE About(q)'
    <3>1. Busy(q) /\ About(q)
      BY <1>15, <2>1, <2>2 DEF WalkNext, Goto, Busy
    <3>2. CASE q = p
      BY <1>15, <2>1, <3>1, <3>2 DEF WalkNext, reqVars, About, TrigOps
    <3>3. CASE q # p
      BY <1>15, <3>1, <3>3 DEF WalkNext, reqVars, About
    <3> QED
      BY <3>2, <3>3
  <2> QED
    BY <2>2
<1>16. ASSUME NEW p \in Threads, WalkEnd(p), TrigFrame PROVE Abouts'
  <2>1. op[p] \in TrigOps /\ Busy(p)
    BY <1>16 DEF WalkEnd, Courses, Busy, At
  <2>2. \A q \in Threads : q # p /\ Busy(q) /\ op[q] \in TrigOps => arg[q] # arg[p]
    BY <2>1 DEF Alone
  <2>3. ASSUME NEW q \in Threads, Busy(q)' PROVE About(q)'
    <3>1. q # p /\ Busy(q) /\ About(q)
      BY <1>16, <2>3 DEF WalkEnd, Goto, Busy
    <3> QED
      BY <1>16, <2>2, <3>1 DEF WalkEnd, walkVars, reqVars, About, TrigOps
  <2> QED
    BY <2>3
<1>17. ASSUME NEW p \in Threads, Lookup(p), LockFrame PROVE Abouts'
  BY <1>17 DEF Lookup, Goto, At, DownRead, walkVars, reqVars, About, Busy
<1>18. ASSUME NEW p \in Threads, Lock(p), LockFrame PROVE Abouts'
  BY <1>18 DEF Lock, Goto, At, CallsSet, CallsDefault, walkVars, reqVars, About, Busy
<1>19. ASSUME NEW p \in Threads, Release(p), LockFrame PROVE Abouts'
  <2>1. CASE op[p] # "led_register"
    BY <1>19, <2>1 DEF Release, Goto, At, walkVars, reqVars, About, Busy
  <2>2. CASE op[p] = "led_register"
    <3>1. Busy(p)
      BY <1>19 DEF Release, Busy, At
    <3>2. \A q \in Threads : q # p /\ Busy(q) /\ op[q] \in LedOps => cur[q] # cur[p]
      BY <2>2, <3>1 DEF Alone, LedOps
    <3>3. pc' = [pc EXCEPT ![p] = "idle"]
      BY <1>19, <2>2 DEF Release, Goto
    <3>4. ASSUME NEW q \in Threads, Busy(q)' PROVE About(q)'
      <4>1. q # p /\ Busy(q) /\ About(q)
        BY <3>3, <3>4 DEF Busy
      <4> QED
        BY <1>19, <3>2, <4>1 DEF Release, SetLed, walkVars, reqVars, About, LedOps
    <3> QED
      BY <3>4
  <2> QED
    BY <2>1, <2>2
<1>20. ASSUME NEW p \in Threads, TsDetach(p), SetFrame PROVE Abouts'
  BY <1>20 DEF TsDetach, Goto, At, Unlink, devVars, walkVars, reqVars, About, Busy
<1>21. ASSUME NEW p \in Threads, TsDeactivate(p), SetFrame PROVE Abouts'
  BY <1>21 DEF TsDeactivate, Goto, At, TurnOff, devVars, walkVars, reqVars, About, Busy
<1>22. ASSUME NEW p \in Threads, TsAttach(p), SetFrame PROVE Abouts'
  BY <1>22 DEF TsAttach, Goto, At, Target, devVars, walkVars, reqVars, About, Busy
<1>23. ASSUME NEW p \in Threads, TsActivate(p), SetFrame PROVE Abouts'
  BY <1>23 DEF TsActivate, Goto, At, Target, devVars, walkVars, reqVars, About, Busy
<1>24. ASSUME NEW p \in Threads, TsAssign(p), SetFrame PROVE Abouts'
  BY <1>24 DEF TsAssign, Goto, At, Target, devVars, walkVars, reqVars, About, Busy
<1>25. CASE Brightness \/ UNCHANGED vars
  BY <1>25 DEF Brightness, vars, devVars, bindVars, walkVars, reqVars, About, Busy
<1> QED
  BY <1>1, <1>2, <1>3, <1>4, <1>5, <1>6, <1>7, <1>8, <1>9, <1>10, <1>11, <1>12, <1>13,
     <1>14, <1>15, <1>16, <1>17, <1>18, <1>19, <1>20, <1>21, <1>22, <1>23, <1>24, <1>25
     DEF Next, Start, Continue, LedSteps, TrigSteps, LockSteps, LedTriggerSet

\* An LED is registered only when absent and unregistered only when
\* registered, so one such operation at a time is about it; the same for a
\* trigger.
LEMMA AloneStep ==
    ASSUME TypeOK, Courses, Abouts, RealTriggers, Alone, [Next]_vars, TypeOK'
    PROVE  Alone'
<1> USE DEF TypeOK, Alone, LedFrame, TrigFrame, LockFrame, SetFrame
<1>1. ASSUME NEW p \in Threads, NEW l \in Leds, BeginLedRegister(p, l) PROVE Alone'
  <2>1. \A q \in Threads : Busy(q) /\ op[q] \in LedOps => cur[q] # l
    BY <1>1 DEF BeginLedRegister, Abouts, About, LedOps
  <2>2. /\ op' = [op EXCEPT ![p] = "led_register"] /\ cur' = [cur EXCEPT ![p] = l]
        /\ pc[p] = "idle" /\ \A q \in Threads : q # p => pc'[q] = pc[q]
    BY <1>1 DEF BeginLedRegister, Begin, Goto, At
  <2>3. \A q, r \in Threads : Busy(q)' /\ Busy(r)' /\ q # r
            /\ op'[q] \in LedOps /\ op'[r] \in LedOps => cur'[q] # cur'[r]
    BY <2>1, <2>2 DEF Busy
  <2>4. "led_register" \notin TrigOps
    BY DEF TrigOps, LedOps
  <2> QED
    BY <1>1, <2>2, <2>3, <2>4 DEF BeginLedRegister, Begin, Busy
<1>2. ASSUME NEW p \in Threads, NEW l \in Leds, BeginLedUnregister(p, l) PROVE Alone'
  <2>1. \A q \in Threads : Busy(q) /\ op[q] \in LedOps => cur[q] # l
    BY <1>2 DEF BeginLedUnregister, Abouts, About, LedOps
  <2>2. /\ op' = [op EXCEPT ![p] = "led_unregister"] /\ cur' = [cur EXCEPT ![p] = l]
        /\ pc[p] = "idle" /\ \A q \in Threads : q # p => pc'[q] = pc[q]
    BY <1>2 DEF BeginLedUnregister, Begin, Goto, At
  <2>3. \A q, r \in Threads : Busy(q)' /\ Busy(r)' /\ q # r
            /\ op'[q] \in LedOps /\ op'[r] \in LedOps => cur'[q] # cur'[r]
    BY <2>1, <2>2 DEF Busy
  <2>4. "led_unregister" \notin TrigOps
    BY DEF TrigOps, LedOps
  <2> QED
    BY <1>2, <2>2, <2>3, <2>4 DEF BeginLedUnregister, Begin, Busy
<1>3. ASSUME NEW p \in Threads, NEW l \in Leds, BeginShow(p, l) PROVE Alone'
  BY <1>3 DEF Begin, Goto, BeginShow, Busy, TrigOps, LedOps
<1>4. ASSUME NEW p \in Threads, NEW l \in Leds, NEW t \in TriggersOrNone,
             BeginStore(p, l, t)
      PROVE  Alone'
  BY <1>4 DEF Begin, Goto, BeginStore, Busy, TrigOps, LedOps
<1>5. ASSUME NEW p \in Threads, NEW t \in Triggers, BeginTrigRegister(p, t) PROVE Alone'
  <2>1. \A q \in Threads : Busy(q) /\ op[q] \in TrigOps => arg[q] # t
    BY <1>5 DEF BeginTrigRegister, Abouts, About, TrigOps
  <2>2. /\ op' = [op EXCEPT ![p] = "trig_register"] /\ arg' = [arg EXCEPT ![p] = t]
        /\ pc[p] = "idle" /\ \A q \in Threads : q # p => pc'[q] = pc[q]
    BY <1>5 DEF BeginTrigRegister, Begin, Goto, At
  <2>3. \A q, r \in Threads : Busy(q)' /\ Busy(r)' /\ q # r
            /\ op'[q] \in TrigOps /\ op'[r] \in TrigOps => arg'[q] # arg'[r]
    BY <2>1, <2>2 DEF Busy
  <2>4. "trig_register" \notin LedOps
    BY DEF TrigOps, LedOps
  <2> QED
    BY <1>5, <2>2, <2>3, <2>4 DEF BeginTrigRegister, Begin, Busy
<1>6. ASSUME NEW p \in Threads, NEW t \in Triggers, BeginTrigUnregister(p, t)
      PROVE  Alone'
  <2>1. \A q \in Threads : Busy(q) /\ op[q] \in TrigOps => arg[q] # t
    BY <1>6 DEF BeginTrigUnregister, Abouts, About, TrigOps
  <2>2. /\ op' = [op EXCEPT ![p] = "trig_unregister"] /\ arg' = [arg EXCEPT ![p] = t]
        /\ pc[p] = "idle" /\ \A q \in Threads : q # p => pc'[q] = pc[q]
    BY <1>6 DEF BeginTrigUnregister, Begin, Goto, At
  <2>3. \A q, r \in Threads : Busy(q)' /\ Busy(r)' /\ q # r
            /\ op'[q] \in TrigOps /\ op'[r] \in TrigOps => arg'[q] # arg'[r]
    BY <2>1, <2>2 DEF Busy
  <2>4. "trig_unregister" \notin LedOps
    BY DEF TrigOps, LedOps
  <2> QED
    BY <1>6, <2>2, <2>3, <2>4 DEF BeginTrigUnregister, Begin, Busy
<1>7. ASSUME NEW p \in Threads, RegCreate(p), LedFrame PROVE Alone'
  BY <1>7 DEF RegCreate, Goto, At, SetAttrs, SetLed, bindVars, walkVars, reqVars, Busy
<1>8. ASSUME NEW p \in Threads, RegList(p), LedFrame PROVE Alone'
  BY <1>8 DEF RegList, Goto, At, MayWrite, bindVars, walkVars, reqVars, Busy
<1>9. ASSUME NEW p \in Threads, RegFile(p), LedFrame PROVE Alone'
  BY <1>9 DEF RegFile, Goto, At, SetAttrs, SetLed, bindVars, walkVars, reqVars, Busy
<1>10. ASSUME NEW p \in Threads, UnregFiles(p), LedFrame PROVE Alone'
  BY <1>10 DEF UnregFiles, Goto, At, SetAttrs, bindVars, walkVars, reqVars, Busy
<1>11. ASSUME NEW p \in Threads, UnregDevice(p), LedFrame PROVE Alone'
  BY <1>11 DEF UnregDevice, Goto, At, walkVars, reqVars, Busy
<1>12. ASSUME NEW p \in Threads, UnregList(p), LedFrame PROVE Alone'
  BY <1>12 DEF UnregList, Goto, SetLed, walkVars, reqVars, Busy
<1>13. ASSUME NEW p \in Threads, TrigList(p), TrigFrame PROVE Alone'
  BY <1>13 DEF TrigList, Goto, At, walkVars, reqVars, Busy
<1>14. ASSUME NEW p \in Threads, WalkStart(p), TrigFrame PROVE Alone'
  BY <1>14 DEF WalkStart, Goto, At, walkVars, reqVars, Busy
<1>15. ASSUME NEW p \in Threads, WalkNext(p), TrigFrame PROVE Alone'
  <2>1. op[p] \in TrigOps /\ op[p] \notin LedOps
    BY <1>15 DEF WalkNext, Courses, At, TrigOps, LedOps
  <2>2. \A q \in Threads : Busy(q)' => Busy(q)
    BY <1>15 DEF WalkNext, Goto, At, Busy
  <2>3. UNCHANGED <<op, arg>> /\ \A q \in Threads : q # p => cur'[q] = cur[q]
    BY <1>15 DEF WalkNext, reqVars
  <2> QED
    BY <2>1, <2>2, <2>3
<1>16. ASSUME NEW p \in Threads, WalkEnd(p), TrigFrame PROVE Alone'
  BY <1>16 DEF WalkEnd, Goto, walkVars, reqVars, Busy
<1>17. ASSUME NEW p \in Threads, Lookup(p), LockFrame PROVE Alone'
  BY <1>17 DEF Lookup, Goto, At, bindVars, walkVars, reqVars, Busy
<1>18. ASSUME NEW p \in Threads, Lock(p), LockFrame PROVE Alone'
  BY <1>18 DEF Lock, Goto, At, CallsSet, bindVars, walkVars, reqVars, Busy
<1>19. ASSUME NEW p \in Threads, Release(p), LockFrame PROVE Alone'
  BY <1>19 DEF Release, Goto, At, walkVars, reqVars, Busy
<1>20. ASSUME NEW p \in Threads, TsDetach(p), SetFrame PROVE Alone'
  BY <1>20 DEF TsDetach, Goto, At, walkVars, reqVars, Busy
<1>21. ASSUME NEW p \in Threads, TsDeactivate(p), SetFrame PROVE Alone'
  BY <1>21 DEF TsDeactivate, Goto, At, walkVars, reqVars, Busy
<1>22. ASSUME NEW p \in Threads, TsAttach(p), SetFrame PROVE Alone'
  BY <1>22 DEF TsAttach, Goto, At, Target, lockVars, walkVars, reqVars, Busy
<1>23. ASSUME NEW p \in Threads, TsActivate(p), SetFrame PROVE Alone'
  BY <1>23 DEF TsActivate, Goto, At, walkVars, reqVars, Busy
<1>24. ASSUME NEW p \in Threads, TsAssign(p), SetFrame PROVE Alone'
  BY <1>24 DEF TsAssign, Goto, At, walkVars, reqVars, Busy
<1>25. CASE Brightness \/ UNCHANGED vars
  BY <1>25 DEF Brightness, vars, walkVars, reqVars, Busy
<1> QED
  BY <1>1, <1>2, <1>3, <1>4, <1>5, <1>6, <1>7, <1>8, <1>9, <1>10, <1>11, <1>12, <1>13,
     <1>14, <1>15, <1>16, <1>17, <1>18, <1>19, <1>20, <1>21, <1>22, <1>23, <1>24, <1>25
     DEF Next, Start, Continue, LedSteps, TrigSteps, LockSteps, LedTriggerSet

\* leds_list changes in RegList, UnregList and the error path of RegFile.
LEMMA ListedStep ==
    ASSUME TypeOK, Operations, NewLeds, Listed, [Next]_vars, TypeOK'
    PROVE  Listed'
<1> USE DEF TypeOK, Listed, LedFrame, TrigFrame, LockFrame, SetFrame
<1>1. ASSUME NEW p \in Threads, NEW l \in Leds, BeginLedRegister(p, l) PROVE Listed'
  BY <1>1
     DEF Begin, Goto, At, lockVars, bindVars, BeginLedRegister, SetLed, Working, Held,
         SetSteps
<1>2. ASSUME NEW p \in Threads, NEW l \in Leds, BeginLedUnregister(p, l) PROVE Listed'
  BY <1>2
     DEF Begin, Goto, At, lockVars, bindVars, BeginLedUnregister, SetLed, Working, Held,
         SetSteps
<1>3. ASSUME NEW p \in Threads, NEW l \in Leds, BeginShow(p, l) PROVE Listed'
  BY <1>3 DEF Begin, Goto, BeginShow
<1>4. ASSUME NEW p \in Threads, NEW l \in Leds, NEW t \in TriggersOrNone,
             BeginStore(p, l, t)
      PROVE  Listed'
  BY <1>4 DEF Begin, Goto, BeginStore
<1>5. ASSUME NEW p \in Threads, NEW t \in Triggers, BeginTrigRegister(p, t)
      PROVE  Listed'
  BY <1>5 DEF Begin, Goto, BeginTrigRegister
<1>6. ASSUME NEW p \in Threads, NEW t \in Triggers, BeginTrigUnregister(p, t)
      PROVE  Listed'
  BY <1>6 DEF Begin, Goto, BeginTrigUnregister
<1>7. ASSUME NEW p \in Threads, RegCreate(p), LedFrame PROVE Listed'
  BY <1>7
     DEF RegCreate, Goto, At, SetAttrs, SetLed, lockVars, bindVars, walkVars, reqVars,
         LedOps, Working, Held, SetSteps
<1>8. ASSUME NEW p \in Threads, RegList(p), LedFrame PROVE Listed'
  BY <1>8
     DEF RegList, Goto, At, MayWrite, lockVars, bindVars, walkVars, reqVars, Operations,
         Abouts, Courses, About, Busy, Working, Held, SetSteps
<1>9. ASSUME NEW p \in Threads, RegFile(p), LedFrame PROVE Listed'
  BY <1>9
     DEF RegFile, Goto, At, SetAttrs, SetLed, lockVars, bindVars, walkVars, reqVars,
         Operations, Abouts, Courses, About, Busy, Alone, LedOps, Working, Held, SetSteps,
         NewLeds
<1>10. ASSUME NEW p \in Threads, UnregFiles(p), LedFrame PROVE Listed'
  BY <1>10
     DEF UnregFiles, Goto, At, SetAttrs, lockVars, bindVars, walkVars, reqVars,
         Operations, Abouts, Courses, About, Busy, Alone, LedOps, Working, Held, SetSteps,
         NewLeds
<1>11. ASSUME NEW p \in Threads, UnregDevice(p), LedFrame PROVE Listed'
  BY <1>11 DEF UnregDevice, Goto, At, lockVars, walkVars, reqVars, Operations, Courses
<1>12. ASSUME NEW p \in Threads, UnregList(p), LedFrame PROVE Listed'
  BY <1>12
     DEF UnregList, Goto, At, MayWrite, SetLed, lockVars, bindVars, walkVars, reqVars,
         Operations, Abouts, Courses, About, Busy, Alone, LedOps, Working, Held, SetSteps,
         NewLeds
<1>13. ASSUME NEW p \in Threads, TrigList(p), TrigFrame PROVE Listed'
  BY <1>13
     DEF TrigList, Goto, At, MayWrite, bindVars, walkVars, reqVars, Operations, Abouts,
         Courses, About, Busy, Working, Held, SetSteps
<1>14. ASSUME NEW p \in Threads, WalkStart(p), TrigFrame PROVE Listed'
  BY <1>14
     DEF WalkStart, Goto, At, DownRead, bindVars, walkVars, reqVars, Working, Held,
         SetSteps
<1>15. ASSUME NEW p \in Threads, WalkNext(p), TrigFrame PROVE Listed'
  <2>1. op[p] # "led_register"
    BY <1>15 DEF WalkNext, Courses, At, TrigOps, Operations
  <2>2. UNCHANGED <<op, ledState, ledsList>>
        /\ \A q \in Threads : q # p => cur'[q] = cur[q] /\ pc'[q] = pc[q]
    BY <1>15 DEF WalkNext, Goto, reqVars
  <2> QED
    BY <2>1, <2>2
<1>16. ASSUME NEW p \in Threads, WalkEnd(p), TrigFrame PROVE Listed'
  BY <1>16
     DEF WalkEnd, Goto, At, UpRead, bindVars, walkVars, reqVars, Working, Held, SetSteps
<1>17. ASSUME NEW p \in Threads, Lookup(p), LockFrame PROVE Listed'
  BY <1>17
     DEF Lookup, Goto, At, DownRead, bindVars, walkVars, reqVars, Working, Held,
         SetSteps
<1>18. ASSUME NEW p \in Threads, Lock(p), LockFrame PROVE Listed'
  BY <1>18
     DEF Lock, Goto, At, CallsSet, CallsDefault, bindVars, walkVars, reqVars, Working,
         Held, SetSteps
<1>19. ASSUME NEW p \in Threads, Release(p), LockFrame PROVE Listed'
  BY <1>19
     DEF Release, Goto, At, UpRead, SetLed, bindVars, walkVars, reqVars, Working, Held,
         SetSteps
<1>20. ASSUME NEW p \in Threads, TsDetach(p), SetFrame PROVE Listed'
  BY <1>20
     DEF TsDetach, Goto, At, Unlink, devVars, lockVars, walkVars, reqVars, Working,
         Held, SetSteps
<1>21. ASSUME NEW p \in Threads, TsDeactivate(p), SetFrame PROVE Listed'
  BY <1>21
     DEF TsDeactivate, Goto, At, TurnOff, devVars, lockVars, walkVars, reqVars, Working,
         Held, SetSteps
<1>22. ASSUME NEW p \in Threads, TsAttach(p), SetFrame PROVE Listed'
  BY <1>22
     DEF TsAttach, Goto, At, Target, devVars, lockVars, walkVars, reqVars, Working,
         Held, SetSteps
<1>23. ASSUME NEW p \in Threads, TsActivate(p), SetFrame PROVE Listed'
  BY <1>23
     DEF TsActivate, Goto, At, Target, devVars, lockVars, walkVars, reqVars, Working,
         Held, SetSteps
<1>24. ASSUME NEW p \in Threads, TsAssign(p), SetFrame PROVE Listed'
  BY <1>24
     DEF TsAssign, Goto, At, Target, devVars, lockVars, walkVars, reqVars, Working,
         Held, SetSteps
<1>25. CASE Brightness \/ UNCHANGED vars
  BY <1>25
     DEF Brightness, vars, devVars, bindVars, lockVars, walkVars, reqVars, Working,
         Held, SetSteps
<1> QED
  BY <1>1, <1>2, <1>3, <1>4, <1>5, <1>6, <1>7, <1>8, <1>9, <1>10, <1>11, <1>12, <1>13,
     <1>14, <1>15, <1>16, <1>17, <1>18, <1>19, <1>20, <1>21, <1>22, <1>23, <1>24, <1>25
     DEF Next, Start, Continue, LedSteps, TrigSteps, LockSteps, LedTriggerSet

\* trigger_list changes in TrigList, between the start of the operation and
\* its walk.
LEMMA KnownStep ==
    ASSUME TypeOK, Operations, RealTriggers, Known, [Next]_vars, TypeOK'
    PROVE  Known'
<1> USE DEF TypeOK, Known, LedFrame, TrigFrame, LockFrame, SetFrame
<1>1. ASSUME NEW p \in Threads, NEW l \in Leds, BeginLedRegister(p, l) PROVE Known'
  BY <1>1 DEF Begin, Goto, BeginLedRegister
<1>2. ASSUME NEW p \in Threads, NEW l \in Leds, BeginLedUnregister(p, l) PROVE Known'
  BY <1>2 DEF Begin, Goto, BeginLedUnregister
<1>3. ASSUME NEW p \in Threads, NEW l \in Leds, BeginShow(p, l) PROVE Known'
  BY <1>3 DEF Begin, Goto, BeginShow, Abouts
<1>4. ASSUME NEW p \in Threads, NEW l \in Leds, NEW t \in TriggersOrNone,
             BeginStore(p, l, t)
      PROVE  Known'
  BY <1>4 DEF Begin, Goto, BeginStore
<1>5. ASSUME NEW p \in Threads, NEW t \in Triggers, BeginTrigRegister(p, t) PROVE Known'
  BY <1>5
     DEF Begin, Goto, At, lockVars, bindVars, BeginTrigRegister, Operations, Alone,
         Working, Held, SetSteps
<1>6. ASSUME NEW p \in Threads, NEW t \in Triggers, BeginTrigUnregister(p, t)
      PROVE  Known'
  BY <1>6
     DEF Begin, Goto, At, lockVars, bindVars, BeginTrigUnregister, Working, Held,
         SetSteps
<1>7. ASSUME NEW p \in Threads, RegCreate(p), LedFrame PROVE Known'
  BY <1>7
     DEF RegCreate, Goto, At, SetAttrs, SetLed, lockVars, bindVars, walkVars, reqVars,
         Working, Held, SetSteps
<1>8. ASSUME NEW p \in Threads, RegList(p), LedFrame PROVE Known'
  BY <1>8 DEF RegList, Goto, At, MayWrite, reqVars, Operations, Courses
<1>9. ASSUME NEW p \in Threads, RegFile(p), LedFrame PROVE Known'
  BY <1>9
     DEF RegFile, Goto, At, SetAttrs, SetLed, lockVars, bindVars, walkVars, reqVars,
         Operations, Abouts, Courses, About, Working
<1>10. ASSUME NEW p \in Threads, UnregFiles(p), LedFrame PROVE Known'
  BY <1>10
     DEF UnregFiles, Goto, At, SetAttrs, lockVars, bindVars, walkVars, reqVars,
         Operations, Courses, Working
<1>11. ASSUME NEW p \in Threads, UnregDevice(p), LedFrame PROVE Known'
  BY <1>11
     DEF UnregDevice, Goto, At, lockVars, bindVars, walkVars, reqVars, Operations,
         Abouts, Courses
<1>12. ASSUME NEW p \in Threads, UnregList(p), LedFrame PROVE Known'
  BY <1>12 DEF UnregList, Goto, At, MayWrite, SetLed, reqVars, Operations, Courses
<1>13. ASSUME NEW p \in Threads, TrigList(p), TrigFrame PROVE Known'
  <2>1. Busy(p) /\ op[p] \in TrigOps /\ arg[p] \in Triggers
    BY <1>13 DEF TrigList, Courses, At, Busy, RealTriggers, Operations, TrigOps
  <2>2. \A q \in Threads : q # p /\ Busy(q) /\ op[q] \in TrigOps => arg[q] # arg[p]
    BY <2>1 DEF Alone, Operations
  <2>3. /\ op[p] = "trig_register" => trigState[arg[p]] = "registering"
        /\ op[p] = "trig_unregister" => trigState[arg[p]] = "unregistering"
    BY <2>1 DEF Operations, Abouts, About
  <2>4. /\ UNCHANGED <<op, arg, trigState>> /\ \A q \in Threads :
               q # p => pc'[q] = pc[q]
        /\ triggerList' = IF op[p] = "trig_register" THEN triggerList \cup {arg[p]}
                                                     ELSE triggerList \ {arg[p]}
    BY <1>13 DEF TrigList, Goto, reqVars
  <2>5. \A t \in Triggers : /\ trigState[t] = "absent" => t \notin triggerList'
                            /\ trigState[t] = "registered" => t \in triggerList'
    BY <2>1, <2>3, <2>4 DEF TrigOps
  <2>6. ASSUME NEW q \in Threads, pc'[q] \in Working \cup {"walk_start", "walk"}
        PROVE  /\ op[q] = "trig_register" => arg[q] \in triggerList'
               /\ op[q] = "trig_unregister" => arg[q] \notin triggerList'
    <3>1. CASE q = p
      BY <2>1, <2>4, <3>1 DEF TrigOps
    <3>2. CASE q # p
      <4>1. pc[q] \in Working \cup {"walk_start", "walk"} /\ Busy(q)
        BY <2>4, <2>6, <3>2 DEF Busy, Working, Held, SetSteps
      <4> QED
        BY <2>2, <2>4, <3>2, <4>1 DEF TrigOps
    <3> QED
      BY <3>1, <3>2
  <2> QED
    BY <2>4, <2>5, <2>6
<1>14. ASSUME NEW p \in Threads, WalkStart(p), TrigFrame PROVE Known'
  BY <1>14 DEF WalkStart, Goto, At, reqVars
<1>15. ASSUME NEW p \in Threads, WalkNext(p), TrigFrame PROVE Known'
  BY <1>15 DEF WalkNext, Goto, At, bindVars, walkVars, reqVars
<1>16. ASSUME NEW p \in Threads, WalkEnd(p), TrigFrame PROVE Known'
  BY <1>16
     DEF WalkEnd, Goto, At, UpRead, bindVars, walkVars, reqVars, Operations, Abouts,
         Courses, Busy, Alone, TrigOps
<1>17. ASSUME NEW p \in Threads, Lookup(p), LockFrame PROVE Known'
  BY <1>17
     DEF Lookup, Goto, At, DownRead, bindVars, walkVars, reqVars, Operations, Courses,
         About, TrigOps
<1>18. ASSUME NEW p \in Threads, Lock(p), LockFrame PROVE Known'
  BY <1>18
     DEF Lock, Goto, At, CallsSet, CallsDefault, bindVars, walkVars, reqVars,
         Operations, Abouts, About, Busy, Working, Held, SetSteps
<1>19. ASSUME NEW p \in Threads, Release(p), LockFrame PROVE Known'
  BY <1>19
     DEF Release, Goto, At, UpRead, SetLed, bindVars, walkVars, reqVars, Working, Held,
         SetSteps
<1>20. ASSUME NEW p \in Threads, TsDetach(p), SetFrame PROVE Known'
  BY <1>20
     DEF TsDetach, Goto, At, Unlink, devVars, lockVars, walkVars, reqVars, Working,
         Held, SetSteps
<1>21. ASSUME NEW p \in Threads, TsDeactivate(p), SetFrame PROVE Known'
  BY <1>21
     DEF TsDeactivate, Goto, At, TurnOff, devVars, lockVars, walkVars, reqVars, Working,
         Held, SetSteps
<1>22. ASSUME NEW p \in Threads, TsAttach(p), SetFrame PROVE Known'
  BY <1>22
     DEF TsAttach, Goto, At, Target, devVars, lockVars, walkVars, reqVars, Working,
         Held, SetSteps
<1>23. ASSUME NEW p \in Threads, TsActivate(p), SetFrame PROVE Known'
  BY <1>23
     DEF TsActivate, Goto, At, Target, devVars, lockVars, walkVars, reqVars, Working,
         Held, SetSteps
<1>24. ASSUME NEW p \in Threads, TsAssign(p), SetFrame PROVE Known'
  BY <1>24
     DEF TsAssign, Goto, At, Target, devVars, lockVars, walkVars, reqVars, Working,
         Held, SetSteps
<1>25. CASE Brightness \/ UNCHANGED vars
  BY <1>25
     DEF Brightness, vars, devVars, bindVars, lockVars, walkVars, reqVars, Working,
         Held, SetSteps
<1> QED
  BY <1>1, <1>2, <1>3, <1>4, <1>5, <1>6, <1>7, <1>8, <1>9, <1>10, <1>11, <1>12, <1>13,
     <1>14, <1>15, <1>16, <1>17, <1>18, <1>19, <1>20, <1>21, <1>22, <1>23, <1>24, <1>25
     DEF Next, Start, Continue, LedSteps, TrigSteps, LockSteps, LedTriggerSet

\* leds_list_lock is held for reading from WalkStart to WalkEnd.
LEMMA WalkersStep ==
    ASSUME TypeOK, Courses, Walkers, [Next]_vars, TypeOK'
    PROVE  Walkers'
<1> USE DEF TypeOK, Walkers, LedFrame, TrigFrame, LockFrame, SetFrame
<1>1. ASSUME NEW p \in Threads, NEW l \in Leds, BeginLedRegister(p, l) PROVE Walkers'
  BY <1>1 DEF Begin, Goto, At, lockVars, BeginLedRegister, Working, Held, SetSteps
<1>2. ASSUME NEW p \in Threads, NEW l \in Leds, BeginLedUnregister(p, l) PROVE Walkers'
  BY <1>2 DEF Begin, Goto, At, lockVars, BeginLedUnregister, Working, Held, SetSteps
<1>3. ASSUME NEW p \in Threads, NEW l \in Leds, BeginShow(p, l) PROVE Walkers'
  BY <1>3
     DEF Begin, Goto, At, lockVars, bindVars, BeginShow, Courses, TrigOps, Working,
         Held, SetSteps
<1>4. ASSUME NEW p \in Threads, NEW l \in Leds, NEW t \in TriggersOrNone,
             BeginStore(p, l, t)
      PROVE  Walkers'
  BY <1>4 DEF Begin, Goto, At, lockVars, BeginStore, Working, Held, SetSteps
<1>5. ASSUME NEW p \in Threads, NEW t \in Triggers, BeginTrigRegister(p, t)
      PROVE  Walkers'
  BY <1>5 DEF Begin, Goto, At, lockVars, BeginTrigRegister, Working, Held, SetSteps
<1>6. ASSUME NEW p \in Threads, NEW t \in Triggers, BeginTrigUnregister(p, t)
      PROVE  Walkers'
  BY <1>6 DEF Begin, Goto, At, lockVars, BeginTrigUnregister, Working, Held, SetSteps
<1>7. ASSUME NEW p \in Threads, RegCreate(p), LedFrame PROVE Walkers'
  <2>1. /\ UNCHANGED <<op, walk>>
               /\ readers'["leds_list_lock"] = readers["leds_list_lock"]
        /\ \A q \in Threads : q # p => pc'[q] = pc[q]
    BY <1>7 DEF RegCreate, Goto, lockVars, walkVars, reqVars, DownRead, Locks
  <2>2. op[p] \notin TrigOps
    BY <1>7 DEF RegCreate, At, Courses, TrigOps
  <2>3. ASSUME NEW q \in Threads, q \in readers["leds_list_lock"] \/ walk[q] # {}
        PROVE  op'[q] \in TrigOps /\ pc'[q] \in Working \cup {"walk"}
    <3>1. op[q] \in TrigOps /\ pc[q] \in Working \cup {"walk"}
      BY <2>3
    <3> QED
      BY <2>1, <2>2, <3>1
  <2>4. readers["leds_list_lock"] \subseteq Threads
    BY DEF Locks
  <2> QED
    BY <2>1, <2>3, <2>4
<1>8. ASSUME NEW p \in Threads, RegList(p), LedFrame PROVE Walkers'
  BY <1>8 DEF RegList, Goto, At, walkVars, reqVars, Courses, TrigOps
<1>9. ASSUME NEW p \in Threads, RegFile(p), LedFrame PROVE Walkers'
  <2>1. /\ UNCHANGED <<op, walk>>
               /\ readers'["leds_list_lock"] = readers["leds_list_lock"]
        /\ \A q \in Threads : q # p => pc'[q] = pc[q]
    BY <1>9 DEF RegFile, Goto, lockVars, walkVars, reqVars, DownRead, Locks
  <2>2. op[p] \notin TrigOps
    BY <1>9 DEF RegFile, At, Courses, TrigOps
  <2>3. ASSUME NEW q \in Threads, q \in readers["leds_list_lock"] \/ walk[q] # {}
        PROVE  op'[q] \in TrigOps /\ pc'[q] \in Working \cup {"walk"}
    <3>1. op[q] \in TrigOps /\ pc[q] \in Working \cup {"walk"}
      BY <2>3
    <3> QED
      BY <2>1, <2>2, <3>1
  <2>4. readers["leds_list_lock"] \subseteq Threads
    BY DEF Locks
  <2> QED
    BY <2>1, <2>3, <2>4
<1>10. ASSUME NEW p \in Threads, UnregFiles(p), LedFrame PROVE Walkers'
  BY <1>10 DEF UnregFiles, Goto, At, lockVars, walkVars, reqVars, Courses, TrigOps
<1>11. ASSUME NEW p \in Threads, UnregDevice(p), LedFrame PROVE Walkers'
  BY <1>11 DEF UnregDevice, Goto, At, lockVars, walkVars, reqVars, Courses, TrigOps
<1>12. ASSUME NEW p \in Threads, UnregList(p), LedFrame PROVE Walkers'
  BY <1>12
     DEF UnregList, Goto, At, MayWrite, SetLed, lockVars, walkVars, reqVars, Courses,
         TrigOps
<1>13. ASSUME NEW p \in Threads, TrigList(p), TrigFrame PROVE Walkers'
  BY <1>13
     DEF TrigList, Goto, At, walkVars, reqVars, Courses, TrigOps, Working, Held,
         SetSteps
<1>14. ASSUME NEW p \in Threads, WalkStart(p), TrigFrame PROVE Walkers'
  BY <1>14
     DEF WalkStart, Goto, At, DownRead, bindVars, walkVars, reqVars, Courses, Working,
         Held, SetSteps
<1>15. ASSUME NEW p \in Threads, WalkNext(p), TrigFrame PROVE Walkers'
  BY <1>15 DEF WalkNext, Goto, At, reqVars, Courses, Working
<1>16. ASSUME NEW p \in Threads, WalkEnd(p), TrigFrame PROVE Walkers'
  BY <1>16 DEF WalkEnd, Goto, At, UpRead, walkVars, reqVars, Working
<1>17. ASSUME NEW p \in Threads, Lookup(p), LockFrame PROVE Walkers'
  <2>1. /\ UNCHANGED <<op, walk>>
               /\ readers'["leds_list_lock"] = readers["leds_list_lock"]
        /\ \A q \in Threads : q # p => pc'[q] = pc[q]
    BY <1>17 DEF Lookup, Goto, lockVars, walkVars, reqVars, DownRead, Locks
  <2>2. op[p] \notin TrigOps
    BY <1>17 DEF Lookup, At, Courses, TrigOps
  <2>3. ASSUME NEW q \in Threads, q \in readers["leds_list_lock"] \/ walk[q] # {}
        PROVE  op'[q] \in TrigOps /\ pc'[q] \in Working \cup {"walk"}
    <3>1. op[q] \in TrigOps /\ pc[q] \in Working \cup {"walk"}
      BY <2>3
    <3> QED
      BY <2>1, <2>2, <3>1
  <2>4. readers["leds_list_lock"] \subseteq Threads
    BY DEF Locks
  <2> QED
    BY <2>1, <2>3, <2>4
<1>18. ASSUME NEW p \in Threads, Lock(p), LockFrame PROVE Walkers'
  BY <1>18 DEF Lock, Goto, At, CallsSet, walkVars, reqVars, Working, Held, SetSteps
<1>19. ASSUME NEW p \in Threads, Release(p), LockFrame PROVE Walkers'
  BY <1>19
     DEF Release, Goto, At, UpRead, walkVars, reqVars, TrigOps, Working, Held, SetSteps
<1>20. ASSUME NEW p \in Threads, TsDetach(p), SetFrame PROVE Walkers'
  <2>1. UNCHANGED <<op, walk, readers>> /\ \A q \in Threads : q # p => pc'[q] = pc[q]
    BY <1>20 DEF TsDetach, Goto, lockVars, walkVars, reqVars
  <2>2. pc'[p] \in Working
    BY <1>20 DEF TsDetach, At, Goto, Working, Held, SetSteps
  <2>3. ASSUME NEW q \in Threads, q \in readers["leds_list_lock"] \/ walk[q] # {}
        PROVE  op'[q] \in TrigOps /\ pc'[q] \in Working \cup {"walk"}
    <3>1. op[q] \in TrigOps /\ pc[q] \in Working \cup {"walk"}
      BY <2>3
    <3> QED
      BY <2>1, <2>2, <3>1
  <2>4. readers["leds_list_lock"] \subseteq Threads
    BY DEF Locks
  <2> QED
    BY <2>1, <2>3, <2>4
<1>21. ASSUME NEW p \in Threads, TsDeactivate(p), SetFrame PROVE Walkers'
  BY <1>21
     DEF TsDeactivate, Goto, At, TurnOff, devVars, lockVars, walkVars, reqVars, Working,
         Held, SetSteps
<1>22. ASSUME NEW p \in Threads, TsAttach(p), SetFrame PROVE Walkers'
  <2>1. UNCHANGED <<op, walk, readers>> /\ \A q \in Threads : q # p => pc'[q] = pc[q]
    BY <1>22 DEF TsAttach, Goto, lockVars, walkVars, reqVars
  <2>2. pc'[p] \in Working
    BY <1>22 DEF TsAttach, At, Goto, Working, Held, SetSteps
  <2>3. ASSUME NEW q \in Threads, q \in readers["leds_list_lock"] \/ walk[q] # {}
        PROVE  op'[q] \in TrigOps /\ pc'[q] \in Working \cup {"walk"}
    <3>1. op[q] \in TrigOps /\ pc[q] \in Working \cup {"walk"}
      BY <2>3
    <3> QED
      BY <2>1, <2>2, <3>1
  <2>4. readers["leds_list_lock"] \subseteq Threads
    BY DEF Locks
  <2> QED
    BY <2>1, <2>3, <2>4
<1>23. ASSUME NEW p \in Threads, TsActivate(p), SetFrame PROVE Walkers'
  BY <1>23
     DEF TsActivate, Goto, At, Target, devVars, lockVars, walkVars, reqVars, Working,
         Held, SetSteps
<1>24. ASSUME NEW p \in Threads, TsAssign(p), SetFrame PROVE Walkers'
  BY <1>24
     DEF TsAssign, Goto, At, Target, devVars, lockVars, walkVars, reqVars, Working,
         Held, SetSteps
<1>25. CASE Brightness \/ UNCHANGED vars
  BY <1>25
     DEF Brightness, vars, devVars, bindVars, lockVars, walkVars, reqVars, Working, Held
<1> QED
  BY <1>1, <1>2, <1>3, <1>4, <1>5, <1>6, <1>7, <1>8, <1>9, <1>10, <1>11, <1>12, <1>13,
     <1>14, <1>15, <1>16, <1>17, <1>18, <1>19, <1>20, <1>21, <1>22, <1>23, <1>24, <1>25
     DEF Next, Start, Continue, LedSteps, TrigSteps, LockSteps, LedTriggerSet

\* triggers_list_lock keeps what Lookup has found on trigger_list until
\* Release.
LEMMA RelyingStep ==
    ASSUME TypeOK, Operations, RealTriggers, Relying, [Next]_vars, TypeOK'
    PROVE  Relying'
<1> USE DEF TypeOK, Relying, LedFrame, TrigFrame, LockFrame, SetFrame
<1>1. ASSUME NEW p \in Threads, NEW l \in Leds, BeginLedRegister(p, l) PROVE Relying'
  BY <1>1
     DEF Begin, Goto, At, lockVars, bindVars, BeginLedRegister, Working, Held, SetSteps
<1>2. ASSUME NEW p \in Threads, NEW l \in Leds, BeginLedUnregister(p, l) PROVE Relying'
  BY <1>2
     DEF Begin, Goto, At, lockVars, bindVars, BeginLedUnregister, Working, Held,
         SetSteps
<1>3. ASSUME NEW p \in Threads, NEW l \in Leds, BeginShow(p, l) PROVE Relying'
  BY <1>3 DEF Begin, Goto, At, lockVars, BeginShow
<1>4. ASSUME NEW p \in Threads, NEW l \in Leds, NEW t \in TriggersOrNone,
             BeginStore(p, l, t)
      PROVE  Relying'
  BY <1>4
     DEF Begin, Goto, At, lockVars, bindVars, BeginStore, Operations, Abouts, About,
         Working, Held, SetSteps
<1>5. ASSUME NEW p \in Threads, NEW t \in Triggers, BeginTrigRegister(p, t)
      PROVE  Relying'
  BY <1>5
     DEF Begin, Goto, At, lockVars, bindVars, BeginTrigRegister, Working, Held, SetSteps
<1>6. ASSUME NEW p \in Threads, NEW t \in Triggers, BeginTrigUnregister(p, t)
      PROVE  Relying'
  BY <1>6 DEF Begin, Goto, At, lockVars, BeginTrigUnregister
<1>7. ASSUME NEW p \in Threads, RegCreate(p), LedFrame PROVE Relying'
  <2>1. UNCHANGED <<op, arg, triggerList, readers>> /\ \A q \in Threads :
            q # p => pc'[q] = pc[q]
    BY <1>7 DEF RegCreate, Goto, reqVars, lockVars, devVars
  <2>2. pc'[p] \notin Working /\ SetSteps \subseteq Working
    BY <1>7 DEF RegCreate, Goto, Working, Held, SetSteps
  <2> QED
    BY <2>1, <2>2
<1>8. ASSUME NEW p \in Threads, RegList(p), LedFrame PROVE Relying'
  BY <1>8
     DEF RegList, Goto, At, MayWrite, lockVars, bindVars, reqVars, Working, Held,
         SetSteps
<1>9. ASSUME NEW p \in Threads, RegFile(p), LedFrame PROVE Relying'
  <2>1. UNCHANGED <<op, arg, triggerList, readers>> /\ \A q \in Threads :
            q # p => pc'[q] = pc[q]
    BY <1>9 DEF RegFile, Goto, reqVars, lockVars, devVars
  <2>2. pc'[p] \notin Working /\ SetSteps \subseteq Working
    BY <1>9 DEF RegFile, Goto, Working, Held, SetSteps
  <2> QED
    BY <2>1, <2>2
<1>10. ASSUME NEW p \in Threads, UnregFiles(p), LedFrame PROVE Relying'
  BY <1>10 DEF UnregFiles, Goto, At, SetAttrs, lockVars, reqVars, Operations, Courses
<1>11. ASSUME NEW p \in Threads, UnregDevice(p), LedFrame PROVE Relying'
  BY <1>11 DEF UnregDevice, Goto, At, lockVars, reqVars, Operations, Courses
<1>12. ASSUME NEW p \in Threads, UnregList(p), LedFrame PROVE Relying'
  BY <1>12
     DEF UnregList, Goto, At, MayWrite, SetLed, lockVars, reqVars, Operations, Courses
<1>13. ASSUME NEW p \in Threads, TrigList(p), TrigFrame PROVE Relying'
  BY <1>13
     DEF TrigList, Goto, At, MayWrite, bindVars, walkVars, reqVars, Operations, Abouts,
         Courses, Busy, TrigOps, Working, Held
<1>14. ASSUME NEW p \in Threads, WalkStart(p), TrigFrame PROVE Relying'
  BY <1>14
     DEF WalkStart, Goto, At, DownRead, bindVars, walkVars, reqVars, Operations, Abouts,
         Courses, TrigOps, Working, Held
<1>15. ASSUME NEW p \in Threads, WalkNext(p), TrigFrame PROVE Relying'
  BY <1>15
     DEF WalkNext, Goto, At, bindVars, walkVars, reqVars, Operations, Abouts, Courses,
         About, Busy, TrigOps
<1>16. ASSUME NEW p \in Threads, WalkEnd(p), TrigFrame PROVE Relying'
  BY <1>16
     DEF WalkEnd, Goto, At, UpRead, bindVars, walkVars, reqVars, Operations, Courses,
         TrigOps
<1>17. ASSUME NEW p \in Threads, Lookup(p), LockFrame PROVE Relying'
  <2>1. UNCHANGED <<op, arg, triggerList>> /\ \A q \in Threads : q # p => pc'[q] = pc[q]
    BY <1>17 DEF Lookup, Goto, reqVars
  <2>2. readers["triggers_list_lock"] \subseteq readers'["triggers_list_lock"]
    BY <1>17 DEF Lookup, DownRead, Locks
  <2>3. CASE op[p] = "store" /\ arg[p] \notin triggerList
    <3>1. pc'[p] = "idle"
      BY <1>17, <2>3 DEF Lookup, Goto
    <3> QED
      BY <2>1, <2>2, <3>1 DEF Working, Held, SetSteps
  <2>4. CASE ~ (op[p] = "store" /\ arg[p] \notin triggerList)
    <3>1. pc'[p] = "lock" /\ p \in readers'["triggers_list_lock"]
      BY <1>17, <2>4 DEF Lookup, Goto, DownRead, Locks
    <3>2. pc'[p] \notin SetSteps
      BY <3>1 DEF SetSteps
    <3> QED
      BY <2>1, <2>2, <2>4, <3>1, <3>2
  <2> QED
    BY <2>3, <2>4
<1>18. ASSUME NEW p \in Threads, Lock(p), LockFrame PROVE Relying'
  <2>1. UNCHANGED <<op, arg, triggerList, readers>> /\ \A q \in Threads :
            q # p => pc'[q] = pc[q]
    BY <1>18 DEF Lock, Goto, reqVars
  <2>2. pc[p] \in Working /\ pc[p] \notin SetSteps
    BY <1>18 DEF Lock, At, Working, SetSteps
  <2>3. op[p] = "led_register" /\ pc'[p] \in SetSteps => arg[p] \in triggerList
    BY <1>18 DEF Lock, Goto, CallsSet, CallsDefault, SetSteps
  <2> QED
    BY <2>1, <2>2, <2>3
<1>19. ASSUME NEW p \in Threads, Release(p), LockFrame PROVE Relying'
  BY <1>19
     DEF Release, Goto, At, UpRead, SetLed, bindVars, reqVars, Working, Held, SetSteps
<1>20. ASSUME NEW p \in Threads, TsDetach(p), SetFrame PROVE Relying'
  <2>1. UNCHANGED <<op, arg, triggerList, readers>> /\ \A q \in Threads :
            q # p => pc'[q] = pc[q]
    BY <1>20 DEF TsDetach, Goto, reqVars, lockVars, devVars
  <2>2. pc[p] \in Working /\ pc[p] \in SetSteps
    BY <1>20 DEF TsDetach, At, Working, Held, SetSteps
  <2> QED
    BY <2>1, <2>2
<1>21. ASSUME NEW p \in Threads, TsDeactivate(p), SetFrame PROVE Relying'
  BY <1>21
     DEF TsDeactivate, Goto, At, TurnOff, devVars, lockVars, reqVars, Working, Held,
         SetSteps
<1>22. ASSUME NEW p \in Threads, TsAttach(p), SetFrame PROVE Relying'
  <2>1. UNCHANGED <<op, arg, triggerList, readers>> /\ \A q \in Threads :
            q # p => pc'[q] = pc[q]
    BY <1>22 DEF TsAttach, Goto, reqVars, lockVars, devVars
  <2>2. pc[p] \in Working /\ pc[p] \in SetSteps
    BY <1>22 DEF TsAttach, At, Working, Held, SetSteps
  <2> QED
    BY <2>1, <2>2
<1>23. ASSUME NEW p \in Threads, TsActivate(p), SetFrame PROVE Relying'
  BY <1>23
     DEF TsActivate, Goto, At, Target, devVars, lockVars, reqVars, Working, Held,
         SetSteps
<1>24. ASSUME NEW p \in Threads, TsAssign(p), SetFrame PROVE Relying'
  BY <1>24
     DEF TsAssign, Goto, At, Target, devVars, lockVars, reqVars, Working, Held, SetSteps
<1>25. CASE Brightness \/ UNCHANGED vars
  BY <1>25
     DEF Brightness, vars, devVars, bindVars, lockVars, reqVars, Working, Held, SetSteps
<1> QED
  BY <1>1, <1>2, <1>3, <1>4, <1>5, <1>6, <1>7, <1>8, <1>9, <1>10, <1>11, <1>12, <1>13,
     <1>14, <1>15, <1>16, <1>17, <1>18, <1>19, <1>20, <1>21, <1>22, <1>23, <1>24, <1>25
     DEF Next, Start, Continue, LedSteps, TrigSteps, LockSteps, LedTriggerSet

\* led_trigger_set is called for LEDs that can be reached only.
LEMMA UnusedStep ==
    ASSUME TypeOK, NewLeds, Unused, [Next]_vars, TypeOK'
    PROVE  Unused'
<1> USE DEF TypeOK, Unused, LedFrame, TrigFrame, LockFrame, SetFrame
<1>1. ASSUME NEW p \in Threads, NEW l \in Leds, BeginLedRegister(p, l) PROVE Unused'
  BY <1>1 DEF Begin, Goto, bindVars, BeginLedRegister, SetLed
<1>2. ASSUME NEW p \in Threads, NEW l \in Leds, BeginLedUnregister(p, l) PROVE Unused'
  BY <1>2
     DEF Begin, Goto, At, bindVars, BeginLedUnregister, SetLed, NewLeds, Creating,
         Unreachable
<1>3. ASSUME NEW p \in Threads, NEW l \in Leds, BeginShow(p, l) PROVE Unused'
  BY <1>3 DEF Begin, Goto, lockVars, bindVars, BeginShow, Creating
<1>4. ASSUME NEW p \in Threads, NEW l \in Leds, NEW t \in TriggersOrNone,
             BeginStore(p, l, t)
      PROVE  Unused'
  BY <1>4 DEF Begin, Goto, bindVars, BeginStore, Creating
<1>5. ASSUME NEW p \in Threads, NEW t \in Triggers, BeginTrigRegister(p, t)
      PROVE  Unused'
  BY <1>5 DEF Begin, Goto, bindVars, BeginTrigRegister, Creating
<1>6. ASSUME NEW p \in Threads, NEW t \in Triggers, BeginTrigUnregister(p, t)
      PROVE  Unused'
  BY <1>6 DEF Begin, Goto, bindVars, BeginTrigUnregister, Creating
<1>7. ASSUME NEW p \in Threads, RegCreate(p), LedFrame PROVE Unused'
  BY <1>7
     DEF RegCreate, Goto, At, SetAttrs, SetLed, bindVars, walkVars, reqVars, Creating
<1>8. ASSUME NEW p \in Threads, RegList(p), LedFrame PROVE Unused'
  BY <1>8 DEF RegList, Goto, At, MayWrite, bindVars, walkVars, Creating
<1>9. ASSUME NEW p \in Threads, RegFile(p), LedFrame PROVE Unused'
  BY <1>9 DEF RegFile, Goto, At, SetAttrs, SetLed, bindVars, walkVars, Creating
<1>10. ASSUME NEW p \in Threads, UnregFiles(p), LedFrame PROVE Unused'
  BY <1>10 DEF UnregFiles, Goto, At, SetAttrs, bindVars, walkVars, Creating
<1>11. ASSUME NEW p \in Threads, UnregDevice(p), LedFrame PROVE Unused'
  BY <1>11 DEF UnregDevice, Goto, At, bindVars, walkVars, Creating
<1>12. ASSUME NEW p \in Threads, UnregList(p), LedFrame PROVE Unused'
  BY <1>12 DEF UnregList, Goto, At, MayWrite, SetLed, bindVars, walkVars, Creating
<1>13. ASSUME NEW p \in Threads, TrigList(p), TrigFrame PROVE Unused'
  BY <1>13 DEF TrigList, Goto, At, bindVars, walkVars, Creating
<1>14. ASSUME NEW p \in Threads, WalkStart(p), TrigFrame PROVE Unused'
  BY <1>14 DEF WalkStart, Goto, At, bindVars, walkVars, Creating
<1>15. ASSUME NEW p \in Threads, WalkNext(p), TrigFrame PROVE Unused'
  BY <1>15 DEF WalkNext, Goto, bindVars, Creating
<1>16. ASSUME NEW p \in Threads, WalkEnd(p), TrigFrame PROVE Unused'
  BY <1>16 DEF WalkEnd, Goto, At, bindVars, walkVars, Creating
<1>17. ASSUME NEW p \in Threads, Lookup(p), LockFrame PROVE Unused'
  BY <1>17 DEF Lookup, Goto, At, bindVars, walkVars, Creating
<1>18. ASSUME NEW p \in Threads, Lock(p), LockFrame PROVE Unused'
  BY <1>18 DEF Lock, Goto, At, CallsSet, bindVars, walkVars, Creating
<1>19. ASSUME NEW p \in Threads, Release(p), LockFrame PROVE Unused'
  BY <1>19 DEF Release, Goto, SetLed, bindVars, walkVars, Creating
<1>20. ASSUME NEW p \in Threads, TsDetach(p), SetFrame PROVE Unused'
  BY <1>20 DEF TsDetach, Goto, devVars, lockVars, walkVars, Creating
<1>21. ASSUME NEW p \in Threads, TsDeactivate(p), SetFrame PROVE Unused'
  BY <1>21 DEF TsDeactivate, Goto, devVars, walkVars, Creating
<1>22. ASSUME NEW p \in Threads, TsAttach(p), SetFrame PROVE Unused'
  BY <1>22 DEF TsAttach, Goto, devVars, walkVars, Creating
<1>23. ASSUME NEW p \in Threads, TsActivate(p), SetFrame PROVE Unused'
  BY <1>23 DEF TsActivate, Goto, devVars, walkVars, Creating
<1>24. ASSUME NEW p \in Threads, TsAssign(p), SetFrame PROVE Unused'
  BY <1>24
     DEF TsAssign, Goto, At, Target, devVars, lockVars, walkVars, reqVars, NewLeds,
         Creating, Unreachable, Using, Held, SetSteps
<1>25. CASE Brightness \/ UNCHANGED vars
  BY <1>25
     DEF Brightness, vars, devVars, bindVars, lockVars, walkVars, NewLeds, Creating,
         Unreachable, Using, Held, SetSteps
<1> QED
  BY <1>1, <1>2, <1>3, <1>4, <1>5, <1>6, <1>7, <1>8, <1>9, <1>10, <1>11, <1>12, <1>13,
     <1>14, <1>15, <1>16, <1>17, <1>18, <1>19, <1>20, <1>21, <1>22, <1>23, <1>24, <1>25
     DEF Next, Start, Continue, LedSteps, TrigSteps, LockSteps, LedTriggerSet

\* Without a store led_trigger_set is called for the default trigger, or for
\* none.
LEMMA UntouchedStep ==
    ASSUME TypeOK, Operations, Concerned, Untouched, [Next]_vars, TypeOK'
    PROVE  Untouched'
<1> USE DEF TypeOK, Untouched, LedFrame, TrigFrame, LockFrame, SetFrame
<1>1. ASSUME NEW p \in Threads, NEW l \in Leds, BeginLedRegister(p, l) PROVE Untouched'
  BY <1>1 DEF Begin, bindVars, BeginLedRegister
<1>2. ASSUME NEW p \in Threads, NEW l \in Leds, BeginLedUnregister(p, l)
      PROVE  Untouched'
  BY <1>2 DEF Begin, bindVars, BeginLedUnregister
<1>3. ASSUME NEW p \in Threads, NEW l \in Leds, BeginShow(p, l) PROVE Untouched'
  BY <1>3 DEF Begin, lockVars, bindVars, BeginShow
<1>4. ASSUME NEW p \in Threads, NEW l \in Leds, NEW t \in TriggersOrNone,
             BeginStore(p, l, t)
      PROVE  Untouched'
  BY <1>4 DEF Begin, bindVars, BeginStore
<1>5. ASSUME NEW p \in Threads, NEW t \in Triggers, BeginTrigRegister(p, t)
      PROVE  Untouched'
  BY <1>5 DEF Begin, bindVars, BeginTrigRegister
<1>6. ASSUME NEW p \in Threads, NEW t \in Triggers, BeginTrigUnregister(p, t)
      PROVE  Untouched'
  BY <1>6 DEF Begin, bindVars, BeginTrigUnregister
<1>7. ASSUME NEW p \in Threads, RegCreate(p), LedFrame PROVE Untouched'
  BY <1>7 DEF RegCreate, bindVars, walkVars, reqVars
<1>8. ASSUME NEW p \in Threads, RegList(p), LedFrame PROVE Untouched'
  BY <1>8 DEF RegList, bindVars, reqVars
<1>9. ASSUME NEW p \in Threads, RegFile(p), LedFrame PROVE Untouched'
  BY <1>9 DEF RegFile, bindVars, reqVars
<1>10. ASSUME NEW p \in Threads, UnregFiles(p), LedFrame PROVE Untouched'
  BY <1>10 DEF UnregFiles, bindVars, reqVars
<1>11. ASSUME NEW p \in Threads, UnregDevice(p), LedFrame PROVE Untouched'
  BY <1>11 DEF UnregDevice, bindVars, reqVars
<1>12. ASSUME NEW p \in Threads, UnregList(p), LedFrame PROVE Untouched'
  BY <1>12 DEF UnregList, bindVars, reqVars
<1>13. ASSUME NEW p \in Threads, TrigList(p), TrigFrame PROVE Untouched'
  BY <1>13 DEF TrigList, bindVars, reqVars
<1>14. ASSUME NEW p \in Threads, WalkStart(p), TrigFrame PROVE Untouched'
  BY <1>14 DEF WalkStart, bindVars, reqVars
<1>15. ASSUME NEW p \in Threads, WalkNext(p), TrigFrame PROVE Untouched'
  BY <1>15 DEF WalkNext, bindVars, reqVars
<1>16. ASSUME NEW p \in Threads, WalkEnd(p), TrigFrame PROVE Untouched'
  BY <1>16 DEF WalkEnd, bindVars, reqVars
<1>17. ASSUME NEW p \in Threads, Lookup(p), LockFrame PROVE Untouched'
  BY <1>17 DEF Lookup, bindVars, reqVars
<1>18. ASSUME NEW p \in Threads, Lock(p), LockFrame PROVE Untouched'
  BY <1>18 DEF Lock, bindVars, reqVars
<1>19. ASSUME NEW p \in Threads, Release(p), LockFrame PROVE Untouched'
  BY <1>19 DEF Release, bindVars, reqVars
<1>20. ASSUME NEW p \in Threads, TsDetach(p), SetFrame PROVE Untouched'
  BY <1>20 DEF TsDetach, lockVars, reqVars
<1>21. ASSUME NEW p \in Threads, TsDeactivate(p), SetFrame PROVE Untouched'
  BY <1>21 DEF TsDeactivate, reqVars
<1>22. ASSUME NEW p \in Threads, TsAttach(p), SetFrame PROVE Untouched'
  BY <1>22 DEF TsAttach, reqVars
<1>23. ASSUME NEW p \in Threads, TsActivate(p), SetFrame PROVE Untouched'
  BY <1>23 DEF TsActivate, reqVars
<1>24. ASSUME NEW p \in Threads, TsAssign(p), SetFrame PROVE Untouched'
  <2>1. p \in Threads /\ Busy(p) /\ pc[p] \in SetSteps /\ op[p] # "show"
    BY <1>24 DEF TsAssign, At, Busy, SetSteps, Operations, Courses
  <2>2. touched[cur[p]] \/ Target(p) \in {NoTrigger, DefaultTrigger[cur[p]]}
    BY <2>1 DEF Operations, Abouts, About, Concerned, Target, Kinds
  <2>3. trigger' = [trigger EXCEPT ![cur[p]] = Target(p)] /\ UNCHANGED touched
    BY <1>24 DEF TsAssign, reqVars
  <2> QED
    BY <2>2, <2>3
<1>25. CASE Brightness \/ UNCHANGED vars
  BY <1>25 DEF Brightness, vars, bindVars, reqVars
<1> QED
  BY <1>1, <1>2, <1>3, <1>4, <1>5, <1>6, <1>7, <1>8, <1>9, <1>10, <1>11, <1>12, <1>13,
     <1>14, <1>15, <1>16, <1>17, <1>18, <1>19, <1>20, <1>21, <1>22, <1>23, <1>24, <1>25
     DEF Next, Start, Continue, LedSteps, TrigSteps, LockSteps, LedTriggerSet

\* Under trigger_lock what made a walk call led_trigger_set stays true.
LEMMA ConcernedStep ==
    ASSUME TypeOK, Operations, Holders, Concerned, [Next]_vars, TypeOK'
    PROVE  Concerned'
<1> USE DEF TypeOK, Concerned, LedFrame, TrigFrame, LockFrame, SetFrame
<1>1. ASSUME NEW p \in Threads, NEW l \in Leds, BeginLedRegister(p, l) PROVE Concerned'
  BY <1>1 DEF Begin, Goto, bindVars, BeginLedRegister
<1>2. ASSUME NEW p \in Threads, NEW l \in Leds, BeginLedUnregister(p, l)
      PROVE  Concerned'
  BY <1>2 DEF Begin, Goto, bindVars, BeginLedUnregister
<1>3. ASSUME NEW p \in Threads, NEW l \in Leds, BeginShow(p, l) PROVE Concerned'
  BY <1>3 DEF Begin, Goto, bindVars, BeginShow, Operations, Abouts
<1>4. ASSUME NEW p \in Threads, NEW l \in Leds, NEW t \in TriggersOrNone,
             BeginStore(p, l, t)
      PROVE  Concerned'
  BY <1>4 DEF Begin, Goto, bindVars, BeginStore
<1>5. ASSUME NEW p \in Threads, NEW t \in Triggers, BeginTrigRegister(p, t)
      PROVE  Concerned'
  BY <1>5 DEF Begin, Goto, bindVars, BeginTrigRegister, Abouts, Holders, SetSteps
<1>6. ASSUME NEW p \in Threads, NEW t \in Triggers, BeginTrigUnregister(p, t)
      PROVE  Concerned'
  BY <1>6 DEF Begin, Goto, lockVars, bindVars, BeginTrigUnregister, SetSteps
<1>7. ASSUME NEW p \in Threads, RegCreate(p), LedFrame PROVE Concerned'
  BY <1>7
     DEF RegCreate, Goto, At, SetAttrs, SetLed, bindVars, walkVars, reqVars, SetSteps
<1>8. ASSUME NEW p \in Threads, RegList(p), LedFrame PROVE Concerned'
  BY <1>8
     DEF RegList, Goto, At, MayWrite, lockVars, bindVars, walkVars, reqVars, Operations,
         Courses, About
<1>9. ASSUME NEW p \in Threads, RegFile(p), LedFrame PROVE Concerned'
  BY <1>9
     DEF RegFile, Goto, At, SetAttrs, SetLed, lockVars, bindVars, walkVars, reqVars,
         Operations, Courses, About, Busy
<1>10. ASSUME NEW p \in Threads, UnregFiles(p), LedFrame PROVE Concerned'
  BY <1>10
     DEF UnregFiles, Goto, At, SetAttrs, lockVars, bindVars, walkVars, reqVars,
         Operations, Courses, About, Busy
<1>11. ASSUME NEW p \in Threads, UnregDevice(p), LedFrame PROVE Concerned'
  BY <1>11
     DEF UnregDevice, Goto, At, lockVars, bindVars, walkVars, reqVars, Operations,
         Courses
<1>12. ASSUME NEW p \in Threads, UnregList(p), LedFrame PROVE Concerned'
  BY <1>12
     DEF UnregList, Goto, At, MayWrite, SetLed, lockVars, bindVars, walkVars, reqVars,
         Operations, Courses
<1>13. ASSUME NEW p \in Threads, TrigList(p), TrigFrame PROVE Concerned'
  BY <1>13
     DEF TrigList, Goto, At, MayWrite, bindVars, walkVars, reqVars, Operations, Abouts,
         About, SetSteps
<1>14. ASSUME NEW p \in Threads, WalkStart(p), TrigFrame PROVE Concerned'
  BY <1>14 DEF WalkStart, Goto, At, DownRead, bindVars, walkVars, reqVars, SetSteps
<1>15. ASSUME NEW p \in Threads, WalkNext(p), TrigFrame PROVE Concerned'
  BY <1>15 DEF WalkNext, Goto, bindVars, reqVars, SetSteps
<1>16. ASSUME NEW p \in Threads, WalkEnd(p), TrigFrame PROVE Concerned'
  BY <1>16 DEF WalkEnd, Goto, At, bindVars, walkVars, reqVars, SetSteps
<1>17. ASSUME NEW p \in Threads, Lookup(p), LockFrame PROVE Concerned'
  BY <1>17 DEF Lookup, Goto, At, bindVars, walkVars, reqVars, SetSteps
<1>18. ASSUME NEW p \in Threads, Lock(p), LockFrame PROVE Concerned'
  <2>1. /\ UNCHANGED <<op, arg, cur, trigger>> /\ \A q \in Threads :
               q # p => pc'[q] = pc[q]
    BY <1>18 DEF Lock, Goto, bindVars, walkVars, reqVars
  <2>2. pc'[p] \in SetSteps => CallsSet(p)
    BY <1>18 DEF Lock, Goto, SetSteps
  <2>3. /\ CallsSet(p) /\ op[p] = "trig_register" => DefaultTrigger[cur[p]] = arg[p]
        /\ CallsSet(p) /\ op[p] = "trig_unregister" => trigger[cur[p]] = arg[p]
    BY DEF CallsSet
  <2> QED
    BY <2>1, <2>2, <2>3
<1>19. ASSUME NEW p \in Threads, Release(p), LockFrame PROVE Concerned'
  BY <1>19 DEF Release, Goto, At, UpRead, bindVars, walkVars, reqVars, SetSteps
<1>20. ASSUME NEW p \in Threads, TsDetach(p), SetFrame PROVE Concerned'
  BY <1>20 DEF TsDetach, Goto, At, Unlink, lockVars, walkVars, reqVars, SetSteps
<1>21. ASSUME NEW p \in Threads, TsDeactivate(p), SetFrame PROVE Concerned'
  BY <1>21 DEF TsDeactivate, Goto, At, walkVars, reqVars, SetSteps
<1>22. ASSUME NEW p \in Threads, TsAttach(p), SetFrame PROVE Concerned'
  BY <1>22 DEF TsAttach, Goto, At, walkVars, reqVars, SetSteps
<1>23. ASSUME NEW p \in Threads, TsActivate(p), SetFrame PROVE Concerned'
  BY <1>23 DEF TsActivate, Goto, At, walkVars, reqVars, SetSteps
<1>24. ASSUME NEW p \in Threads, TsAssign(p), SetFrame PROVE Concerned'
  BY <1>24
     DEF TsAssign, Goto, At, Target, walkVars, reqVars, Operations, Holders, Held,
         SetSteps
<1>25. CASE Brightness \/ UNCHANGED vars
  BY <1>25
     DEF Brightness, vars, devVars, bindVars, lockVars, walkVars, reqVars, Holders,
         Held, SetSteps
<1> QED
  BY <1>1, <1>2, <1>3, <1>4, <1>5, <1>6, <1>7, <1>8, <1>9, <1>10, <1>11, <1>12, <1>13,
     <1>14, <1>15, <1>16, <1>17, <1>18, <1>19, <1>20, <1>21, <1>22, <1>23, <1>24, <1>25
     DEF Next, Start, Continue, LedSteps, TrigSteps, LockSteps, LedTriggerSet

\* The trigger that led_trigger_set attaches is on trigger_list.
LEMMA TargetKnown ==
    ASSUME TypeOK, RealTriggers, Operations, Known, Relying, NEW p \in Threads,
           pc[p] \in SetSteps
    PROVE  Target(p) \in triggerList \cup {NoTrigger}
<1>1. Busy(p) /\ pc[p] \in Working /\ op[p] \in Kinds /\ op[p] # "show"
  BY DEF Busy, Working, Held, SetSteps, TypeOK, Operations, Courses
<1>2. CASE op[p] \in {"store", "led_register"}
  BY <1>1, <1>2 DEF Relying, Target
<1>3. CASE op[p] = "led_unregister"
  BY <1>1, <1>3 DEF Operations, Abouts, About, Target
<1>4. CASE op[p] = "trig_register"
  BY <1>1, <1>4 DEF Known, Target
<1>5. CASE op[p] = "trig_unregister"
  BY <1>5 DEF Target
<1> QED
  BY <1>1, <1>2, <1>3, <1>4, <1>5 DEF Kinds

\* A walk passes an LED only after taking the trigger off it, and nobody
\* attaches the trigger anew, since it is not on trigger_list.
LEMMA DismissedStep ==
    ASSUME TypeOK, Operations, Known, Walkers, Relying, Unused, NewLeds, Halfway,
           RealTriggers, Holders, Dismissed, [Next]_vars, TypeOK'
    PROVE  Dismissed'
<1> USE DEF TypeOK, Dismissed, LedFrame, TrigFrame, LockFrame, SetFrame
<1>1. ASSUME NEW p \in Threads, NEW l \in Leds, BeginLedRegister(p, l) PROVE Dismissed'
  BY <1>1
     DEF Begin, Goto, At, lockVars, bindVars, BeginLedRegister, SetLed, Operations,
         Abouts, Courses, About, Busy, Alone, TrigOps, Known, Walkers, Working, Held,
         SetSteps, Uses, Comes
<1>2. ASSUME NEW p \in Threads, NEW l \in Leds, BeginLedUnregister(p, l)
      PROVE  Dismissed'
  BY <1>2
     DEF Begin, Goto, At, lockVars, bindVars, BeginLedUnregister, SetLed, Operations,
         Abouts, Courses, About, Busy, Alone, TrigOps, Known, Walkers, Relying, Working,
         Held, SetSteps, Uses, Comes
<1>3. ASSUME NEW p \in Threads, NEW l \in Leds, BeginShow(p, l) PROVE Dismissed'
  BY <1>3
     DEF Begin, Goto, At, lockVars, bindVars, BeginShow, Operations, Abouts, Courses,
         About, Busy, Alone, TrigOps, Known, Walkers, Relying, Working, Held, SetSteps,
         Uses, Comes
<1>4. ASSUME NEW p \in Threads, NEW l \in Leds, NEW t \in TriggersOrNone,
             BeginStore(p, l, t)
      PROVE  Dismissed'
  BY <1>4
     DEF Begin, Goto, At, lockVars, bindVars, BeginStore, Operations, Abouts, Courses,
         About, Busy, Alone, TrigOps, Known, Walkers, Relying, Working, Held, SetSteps,
         Uses, Comes
<1>5. ASSUME NEW p \in Threads, NEW t \in Triggers, BeginTrigRegister(p, t)
      PROVE  Dismissed'
  BY <1>5
     DEF Begin, Goto, At, lockVars, bindVars, BeginTrigRegister, Operations, Abouts,
         Courses, About, Busy, Alone, TrigOps, Known, Walkers, Relying, Working, Held,
         SetSteps, Uses, Comes
<1>6. ASSUME NEW p \in Threads, NEW t \in Triggers, BeginTrigUnregister(p, t)
      PROVE  Dismissed'
  BY <1>6
     DEF Begin, Goto, At, lockVars, bindVars, BeginTrigUnregister, Operations, Abouts,
         Courses, About, Busy, Alone, TrigOps, Known, Walkers, Relying, Working, Held,
         SetSteps, Uses, Comes
<1>7. ASSUME NEW p \in Threads, RegCreate(p), LedFrame PROVE Dismissed'
  BY <1>7
     DEF RegCreate, Goto, At, SetAttrs, SetLed, lockVars, bindVars, walkVars, reqVars,
         Operations, Abouts, Courses, About, Uses, Comes
<1>8. ASSUME NEW p \in Threads, RegList(p), LedFrame PROVE Dismissed'
  <2>1. /\ UNCHANGED <<op, arg, triggerList>>
        /\ \A q \in Threads :
               q # p => pc'[q] = pc[q] /\ cur'[q] = cur[q] /\ walk'[q] = walk[q]
    BY <1>8 DEF RegList, Goto, devVars, walkVars, reqVars
  <2>2. ASSUME NEW l \in ledsList', NEW t \in Triggers, t \notin triggerList,
               Uses(l, t)'
        PROVE  \E r \in Threads :
                   op[r] = "trig_unregister" /\ arg[r] = t /\ Comes(r, l)'
    <3>1. l \in ledsList /\ Uses(l, t)
      <4>1. cur[p] \in Leds /\ pc[p] \in Creating
        BY <1>8 DEF RegList, At, Creating
      <4>2. trigger[cur[p]] = NoTrigger /\ triggerLock[cur[p]] = NoThread
        BY <4>1 DEF Unused, NewLeds, Unreachable, Holders, Using
      <4>3. OnLists(cur[p]) = {}
        BY <4>1, <4>2 DEF Halfway, Settled, Own
      <4>4. ~ Uses(cur[p], t)
        BY <4>2, <4>3, NamesAssumption DEF Uses, OnLists
      <4> QED
        BY <1>8, <2>2, <4>4 DEF RegList, bindVars, Uses
    <3>2. PICK r \in Threads : op[r] = "trig_unregister" /\ arg[r] = t /\ Comes(r, l)
      BY <2>2, <3>1
    <3>3. CASE r = p
      BY <1>8, <3>2, <3>3 DEF RegList, At, Operations, Courses
    <3>4. CASE r # p
      BY <2>1, <3>2, <3>4 DEF Comes
    <3> QED
      BY <3>2, <3>3, <3>4
  <2> QED
    BY <2>1, <2>2
<1>9. ASSUME NEW p \in Threads, RegFile(p), LedFrame PROVE Dismissed'
  BY <1>9
     DEF RegFile, Goto, At, SetAttrs, SetLed, lockVars, bindVars, walkVars, reqVars,
         Operations, Abouts, Courses, About, Busy, Alone, TrigOps, Known, Walkers, Relying,
         Working, Held, SetSteps, Uses, Comes
<1>10. ASSUME NEW p \in Threads, UnregFiles(p), LedFrame PROVE Dismissed'
  BY <1>10
     DEF UnregFiles, Goto, At, SetAttrs, lockVars, bindVars, walkVars, reqVars,
         Operations, Abouts, Courses, About, Busy, Alone, TrigOps, Known, Walkers, Relying,
         Working, Held, SetSteps, Uses, Comes
<1>11. ASSUME NEW p \in Threads, UnregDevice(p), LedFrame PROVE Dismissed'
  BY <1>11
     DEF UnregDevice, Goto, At, lockVars, bindVars, walkVars, reqVars, Operations,
         Courses, Uses, Comes
<1>12. ASSUME NEW p \in Threads, UnregList(p), LedFrame PROVE Dismissed'
  BY <1>12
     DEF UnregList, Goto, At, MayWrite, SetLed, lockVars, bindVars, walkVars, reqVars,
         Operations, Abouts, Courses, About, Busy, Alone, TrigOps, Known, Walkers, Relying,
         Working, Held, SetSteps, Uses, Comes
<1>13. ASSUME NEW p \in Threads, TrigList(p), TrigFrame PROVE Dismissed'
  BY <1>13
     DEF TrigList, Goto, At, MayWrite, bindVars, walkVars, reqVars, Operations, Abouts,
         Courses, About, Busy, Alone, TrigOps, Known, Walkers, Relying, Working, Held,
         SetSteps, Uses, Comes
<1>14. ASSUME NEW p \in Threads, WalkStart(p), TrigFrame PROVE Dismissed'
  BY <1>14 DEF WalkStart, Goto, At, DownRead, bindVars, reqVars, Uses, Comes
<1>15. ASSUME NEW p \in Threads, WalkNext(p), TrigFrame PROVE Dismissed'
  BY <1>15
     DEF WalkNext, Goto, At, bindVars, walkVars, reqVars, Operations, Abouts, Courses,
         About, Busy, Alone, TrigOps, Known, Walkers, Relying, Working, Held, SetSteps,
         Uses, Comes
<1>16. ASSUME NEW p \in Threads, WalkEnd(p), TrigFrame PROVE Dismissed'
  <2>1. /\ UNCHANGED <<op, arg, triggerList>>
        /\ \A q \in Threads :
               q # p => pc'[q] = pc[q] /\ cur'[q] = cur[q] /\ walk'[q] = walk[q]
    BY <1>16 DEF WalkEnd, Goto, devVars, walkVars, reqVars
  <2>2. ASSUME NEW l \in ledsList', NEW t \in Triggers, t \notin triggerList,
               Uses(l, t)'
        PROVE  \E r \in Threads :
                   op[r] = "trig_unregister" /\ arg[r] = t /\ Comes(r, l)'
    <3>1. l \in ledsList /\ Uses(l, t)
      BY <1>16, <2>2 DEF WalkEnd, bindVars, Uses
    <3>2. PICK r \in Threads : op[r] = "trig_unregister" /\ arg[r] = t /\ Comes(r, l)
      BY <2>2, <3>1
    <3>3. CASE r = p
      BY <1>16, <3>2, <3>3 DEF WalkEnd, At, Comes, SetSteps
    <3>4. CASE r # p
      BY <2>1, <3>2, <3>4 DEF Comes
    <3> QED
      BY <3>2, <3>3, <3>4
  <2> QED
    BY <2>1, <2>2
<1>17. ASSUME NEW p \in Threads, Lookup(p), LockFrame PROVE Dismissed'
  BY <1>17 DEF Lookup, Goto, At, DownRead, bindVars, walkVars, reqVars, Uses, Comes
<1>18. ASSUME NEW p \in Threads, Lock(p), LockFrame PROVE Dismissed'
  <2>1. /\ UNCHANGED <<op, arg, triggerList>>
        /\ \A q \in Threads :
               q # p => pc'[q] = pc[q] /\ cur'[q] = cur[q] /\ walk'[q] = walk[q]
    BY <1>18 DEF Lock, Goto, devVars, walkVars, reqVars
  <2>2. ASSUME NEW l \in ledsList', NEW t \in Triggers, t \notin triggerList,
               Uses(l, t)'
        PROVE  \E r \in Threads :
                   op[r] = "trig_unregister" /\ arg[r] = t /\ Comes(r, l)'
    <3>1. l \in ledsList /\ Uses(l, t)
      BY <1>18, <2>2 DEF Lock, bindVars, Uses
    <3>2. PICK r \in Threads : op[r] = "trig_unregister" /\ arg[r] = t /\ Comes(r, l)
      BY <2>2, <3>1
    <3>3. CASE r = p
      <4>1. CASE l \in walk[p]
        BY <1>18, <3>2, <3>3, <4>1 DEF walkVars, Comes
      <4>2. CASE l \notin walk[p]
        <5>1. cur[p] = l /\ triggerLock[l] = NoThread
          BY <1>18, <3>2, <3>3, <4>2 DEF Lock, At, Comes
        <5>2. trigger[l] = t
          BY <3>1, <5>1 DEF Halfway, Settled, OnLists, Own, Uses
        <5>3. pc'[p] = "ts_detach"
          BY <1>18, <3>2, <3>3, <5>1, <5>2 DEF Lock, Goto, CallsSet
        <5> QED
          BY <1>18, <3>2, <3>3, <5>1, <5>3 DEF walkVars, Comes, SetSteps
      <4> QED
        BY <4>1, <4>2
    <3>4. CASE r # p
      BY <2>1, <3>2, <3>4 DEF Comes
    <3> QED
      BY <3>2, <3>3, <3>4
  <2> QED
    BY <2>1, <2>2
<1>19. ASSUME NEW p \in Threads, Release(p), LockFrame PROVE Dismissed'
  BY <1>19
     DEF Release, Goto, At, UpRead, SetLed, bindVars, walkVars, reqVars, Operations,
         Abouts, Courses, About, Busy, Relying, Working, Held, SetSteps, Uses, Comes
<1>20. ASSUME NEW p \in Threads, TsDetach(p), SetFrame PROVE Dismissed'
  <2>1. /\ UNCHANGED <<op, arg, triggerList>>
        /\ \A q \in Threads :
               q # p => pc'[q] = pc[q] /\ cur'[q] = cur[q] /\ walk'[q] = walk[q]
    BY <1>20 DEF TsDetach, Goto, devVars, walkVars, reqVars
  <2>2. ASSUME NEW l \in ledsList', NEW t \in Triggers, t \notin triggerList,
               Uses(l, t)'
        PROVE  \E r \in Threads :
                   op[r] = "trig_unregister" /\ arg[r] = t /\ Comes(r, l)'
    <3>1. l \in ledsList /\ Uses(l, t)
      <4>1. CASE trigger[cur[p]] = NoTrigger
        BY <1>20, <2>2, <4>1 DEF TsDetach, devVars, Uses
      <4>2. CASE trigger[cur[p]] # NoTrigger
        <5>1. /\ trigger' = trigger /\ ledsList' = ledsList
              /\ ledCdevs' = [ledCdevs EXCEPT ![trigger[cur[p]]] = @ \ {cur[p]}]
          BY <1>20, <4>2 DEF TsDetach, Unlink, devVars
        <5>2. ledCdevs'[t] \subseteq ledCdevs[t]
          BY <5>1
        <5> QED
          BY <2>2, <5>1, <5>2 DEF Uses
      <4> QED
        BY <4>1, <4>2
    <3>2. PICK r \in Threads : op[r] = "trig_unregister" /\ arg[r] = t /\ Comes(r, l)
      BY <2>2, <3>1
    <3>3. CASE r = p
      BY <1>20, <3>2, <3>3 DEF TsDetach, At, Goto, walkVars, Comes, SetSteps
    <3>4. CASE r # p
      BY <2>1, <3>2, <3>4 DEF Comes
    <3> QED
      BY <3>2, <3>3, <3>4
  <2> QED
    BY <2>1, <2>2
<1>21. ASSUME NEW p \in Threads, TsDeactivate(p), SetFrame PROVE Dismissed'
  BY <1>21
     DEF TsDeactivate, Goto, At, TurnOff, devVars, lockVars, walkVars, reqVars,
         Operations, Abouts, Courses, About, Busy, Alone, TrigOps, Known, Walkers, Relying,
         Working, Held, SetSteps, Uses, Comes
<1>22. ASSUME NEW p \in Threads, TsAttach(p), SetFrame PROVE Dismissed'
  <2>1. /\ UNCHANGED <<op, arg, triggerList>>
        /\ \A q \in Threads :
               q # p => pc'[q] = pc[q] /\ cur'[q] = cur[q] /\ walk'[q] = walk[q]
    BY <1>22 DEF TsAttach, Goto, devVars, walkVars, reqVars
  <2>2. ASSUME NEW l \in ledsList', NEW t \in Triggers, t \notin triggerList,
               Uses(l, t)'
        PROVE  \E r \in Threads :
                   op[r] = "trig_unregister" /\ arg[r] = t /\ Comes(r, l)'
    <3>1. l \in ledsList /\ Uses(l, t)
      <4>1. Target(p) \in triggerList \cup {NoTrigger}
        BY <1>22, TargetKnown DEF TsAttach, At, SetSteps
      <4>2. trigger' = trigger /\ ledsList' = ledsList
        BY <1>22 DEF TsAttach, devVars
      <4>3. CASE Target(p) = NoTrigger
        BY <1>22, <2>2, <4>2, <4>3 DEF TsAttach, Uses
      <4>4. CASE Target(p) # NoTrigger
        <5>1. t # Target(p)
          BY <2>2, <4>1, <4>4
        <5>2. ledCdevs' = [ledCdevs EXCEPT ![Target(p)] = @ \cup {cur[p]}]
          BY <1>22, <4>4 DEF TsAttach
        <5>3. ledCdevs'[t] = ledCdevs[t]
          BY <5>1, <5>2
        <5> QED
          BY <2>2, <4>2, <5>3 DEF Uses
      <4> QED
        BY <4>3, <4>4
    <3>2. PICK r \in Threads : op[r] = "trig_unregister" /\ arg[r] = t /\ Comes(r, l)
      BY <2>2, <3>1
    <3>3. CASE r = p
      BY <1>22, <3>2, <3>3 DEF TsAttach, At, Goto, walkVars, Comes, SetSteps
    <3>4. CASE r # p
      BY <2>1, <3>2, <3>4 DEF Comes
    <3> QED
      BY <3>2, <3>3, <3>4
  <2> QED
    BY <2>1, <2>2
<1>23. ASSUME NEW p \in Threads, TsActivate(p), SetFrame PROVE Dismissed'
  BY <1>23
     DEF TsActivate, Goto, At, Target, devVars, walkVars, reqVars, SetSteps, Uses, Comes
<1>24. ASSUME NEW p \in Threads, TsAssign(p), SetFrame PROVE Dismissed'
  <2>1. /\ UNCHANGED <<op, arg, triggerList>>
        /\ \A q \in Threads :
               q # p => pc'[q] = pc[q] /\ cur'[q] = cur[q] /\ walk'[q] = walk[q]
    BY <1>24 DEF TsAssign, Goto, devVars, walkVars, reqVars
  <2>2. ASSUME NEW l \in ledsList', NEW t \in Triggers, t \notin triggerList,
               Uses(l, t)'
        PROVE  \E r \in Threads :
                   op[r] = "trig_unregister" /\ arg[r] = t /\ Comes(r, l)'
    <3>1. l \in ledsList /\ Uses(l, t)
      <4>1. Target(p) \in triggerList \cup {NoTrigger}
        BY <1>24, TargetKnown DEF TsAssign, At, SetSteps
      <4> QED
        BY <1>24, <2>2, <4>1, NamesAssumption DEF TsAssign, devVars, Uses
    <3>2. PICK r \in Threads : op[r] = "trig_unregister" /\ arg[r] = t /\ Comes(r, l)
      BY <2>2, <3>1
    <3>3. CASE r = p
      <4>1. CASE l \in walk[p]
        BY <1>24, <3>2, <3>3, <4>1 DEF walkVars, Comes
      <4>2. CASE l \notin walk[p]
        <5>1. cur[p] = l /\ Target(p) = NoTrigger /\ trigger'[l] = NoTrigger
                  /\ ledCdevs' = ledCdevs
          BY <1>24, <3>2, <3>3, <4>2 DEF TsAssign, At, Comes, Target
        <5>2. OnLists(l) = {}
          BY <1>24, <5>1 DEF TsAssign, At, Halfway, HalfwayOf, Bound
        <5> QED
          BY <2>2, <5>1, <5>2, NamesAssumption DEF Uses, OnLists
      <4> QED
        BY <4>1, <4>2
    <3>4. CASE r # p
      BY <2>1, <3>2, <3>4 DEF Comes
    <3> QED
      BY <3>2, <3>3, <3>4
  <2> QED
    BY <2>1, <2>2
<1>25. CASE Brightness \/ UNCHANGED vars
  BY <1>25 DEF Brightness, vars, devVars, bindVars, walkVars, reqVars, Uses, Comes
<1> QED
  BY <1>1, <1>2, <1>3, <1>4, <1>5, <1>6, <1>7, <1>8, <1>9, <1>10, <1>11, <1>12, <1>13,
     <1>14, <1>15, <1>16, <1>17, <1>18, <1>19, <1>20, <1>21, <1>22, <1>23, <1>24, <1>25
     DEF Next, Start, Continue, LedSteps, TrigSteps, LockSteps, LedTriggerSet

\* A walk passes an LED only with the default trigger on it or another one,
\* asked for by user space; a registration gives up the look-up only if the
\* trigger was not listed, and then the trigger's walk is yet to start and the
\* LED on leds_list.
LEMMA AdoptedStep ==
    ASSUME TypeOK, Operations, Known, Walkers, Relying, Listed, Untouched, Concerned,
           NewLeds, Halfway, RealTriggers, Holders, Adopted, [Next]_vars, TypeOK'
    PROVE  Adopted'
<1> USE DEF TypeOK, Adopted, LedFrame, TrigFrame, LockFrame, SetFrame
<1>1. ASSUME NEW p \in Threads, NEW l \in Leds, BeginLedRegister(p, l) PROVE Adopted'
  <2>1. \A q \in Threads :
            q # p => /\ pc'[q] = pc[q] /\ cur'[q] = cur[q] /\ walk'[q] = walk[q]
                                      /\ op'[q] = op[q] /\ arg'[q] = arg[q]
    BY <1>1 DEF BeginLedRegister, Begin, Goto
  <2>2. ASSUME NEW k \in ledsList', Lacks(k)' PROVE \E r \in Threads : Adopts(r, k)'
    <3>1. k \in ledsList /\ Lacks(k)
      BY <1>1, <2>2
         DEF BeginLedRegister, Begin, SetLed, bindVars, NewLeds, Unreachable, Lacks
    <3>2. PICK r \in Threads : Adopts(r, k)
      BY <3>1
    <3>3. CASE r = p
      BY <1>1, <3>2, <3>3
         DEF BeginLedRegister, Begin, At, Adopts, Comes, Walkers, Working, Held,
             SetSteps
    <3>4. CASE r # p
      BY <2>1, <3>2, <3>4 DEF Adopts, Comes
    <3> QED
      BY <3>2, <3>3, <3>4
  <2> QED
    BY <2>2
<1>2. ASSUME NEW p \in Threads, NEW l \in Leds, BeginLedUnregister(p, l) PROVE Adopted'
  BY <1>2
     DEF Begin, Goto, At, lockVars, bindVars, BeginLedUnregister, SetLed, Operations,
         Abouts, Courses, About, Busy, Alone, TrigOps, LedOps, Known, Walkers, Relying,
         Working, Held, SetSteps, Comes, Adopts, Lacks
<1>3. ASSUME NEW p \in Threads, NEW l \in Leds, BeginShow(p, l) PROVE Adopted'
  BY <1>3
     DEF Begin, Goto, At, lockVars, bindVars, BeginShow, Operations, Abouts, Courses,
         About, Busy, Alone, TrigOps, LedOps, Known, Walkers, Relying, Working, Held,
         SetSteps, Comes, Adopts, Lacks
<1>4. ASSUME NEW p \in Threads, NEW l \in Leds, NEW t \in TriggersOrNone,
             BeginStore(p, l, t)
      PROVE  Adopted'
  BY <1>4
     DEF Begin, Goto, At, lockVars, bindVars, BeginStore, Operations, Abouts, Courses,
         About, Busy, Alone, TrigOps, LedOps, Known, Walkers, Relying, Working, Held,
         SetSteps, Comes, Adopts, Lacks
<1>5. ASSUME NEW p \in Threads, NEW t \in Triggers, BeginTrigRegister(p, t)
      PROVE  Adopted'
  <2>1. \A q \in Threads :
            q # p => /\ pc'[q] = pc[q] /\ cur'[q] = cur[q] /\ walk'[q] = walk[q]
                                      /\ op'[q] = op[q] /\ arg'[q] = arg[q]
    BY <1>5 DEF BeginTrigRegister, Begin, Goto
  <2>2. ASSUME NEW k \in ledsList', Lacks(k)' PROVE \E r \in Threads : Adopts(r, k)'
    <3>1. k \in ledsList /\ Lacks(k)
      BY <1>5, <2>2 DEF BeginTrigRegister, Begin, bindVars, Lacks
    <3>2. PICK r \in Threads : Adopts(r, k)
      BY <3>1
    <3>3. CASE r = p
      BY <1>5, <3>2, <3>3
         DEF BeginTrigRegister, Begin, At, Adopts, Comes, Walkers, Working, Held,
             SetSteps
    <3>4. CASE r # p
      BY <2>1, <3>2, <3>4 DEF Adopts, Comes
    <3> QED
      BY <3>2, <3>3, <3>4
  <2> QED
    BY <2>2
<1>6. ASSUME NEW p \in Threads, NEW t \in Triggers, BeginTrigUnregister(p, t)
      PROVE  Adopted'
  BY <1>6
     DEF Begin, Goto, At, lockVars, bindVars, BeginTrigUnregister, Operations, Abouts,
         Courses, About, Busy, Alone, TrigOps, LedOps, Known, Walkers, Relying, Working,
         Held, SetSteps, Comes, Adopts, Lacks
<1>7. ASSUME NEW p \in Threads, RegCreate(p), LedFrame PROVE Adopted'
  BY <1>7
     DEF RegCreate, Goto, At, SetAttrs, SetLed, lockVars, bindVars, walkVars, reqVars,
         Operations, Abouts, Courses, About, Busy, Alone, TrigOps, LedOps, Known, Walkers,
         Relying, Working, Held, SetSteps, Comes, Adopts, Lacks
<1>8. ASSUME NEW p \in Threads, RegList(p), LedFrame PROVE Adopted'
  BY <1>8
     DEF RegList, Goto, At, MayWrite, lockVars, bindVars, walkVars, reqVars, Operations,
         Abouts, Courses, About, Busy, Alone, TrigOps, LedOps, Known, Walkers, Relying,
         Working, Held, SetSteps, Comes, Adopts, Lacks
<1>9. ASSUME NEW p \in Threads, RegFile(p), LedFrame PROVE Adopted'
  <2>1. \A q \in Threads :
            q # p => /\ pc'[q] = pc[q] /\ cur'[q] = cur[q] /\ walk'[q] = walk[q]
                                      /\ op'[q] = op[q] /\ arg'[q] = arg[q]
    BY <1>9 DEF RegFile, Goto, walkVars, reqVars
  <2>2. ASSUME NEW k \in ledsList', Lacks(k)' PROVE \E r \in Threads : Adopts(r, k)'
    <3>1. k \in ledsList /\ Lacks(k)
      <4>1. ledState[cur[p]] = "registering"
        BY <1>9 DEF RegFile, At, Operations, Courses, Abouts, About, Busy
      <4> QED
        BY <1>9, <2>2, <4>1 DEF RegFile, SetLed, bindVars, reqVars, Lacks
    <3>2. PICK r \in Threads : Adopts(r, k)
      BY <3>1
    <3>3. CASE r = p
      <4>1. op[p] = "led_register" /\ Busy(p)
        BY <1>9 DEF RegFile, At, Operations, Courses, Busy
      <4>2. cur[p] = k /\ arg[p] = DefaultTrigger[k]
        BY <3>2, <3>3, <4>1 DEF Adopts, Operations, Abouts, About
      <4>3. DefaultTrigger[k] # NoTrigger
        BY <3>1, NamesAssumption DEF Lacks
      <4>4. pc'[p] = "lookup"
        BY <1>9, <2>2, <4>2, <4>3 DEF RegFile, Goto
      <4> QED
        BY <1>9, <3>3, <4>1, <4>2, <4>4 DEF walkVars, reqVars, Adopts
    <3>4. CASE r # p
      BY <2>1, <3>2, <3>4 DEF Adopts, Comes
    <3> QED
      BY <3>2, <3>3, <3>4
  <2> QED
    BY <2>2
<1>10. ASSUME NEW p \in Threads, UnregFiles(p), LedFrame PROVE Adopted'
  BY <1>10
     DEF UnregFiles, Goto, At, SetAttrs, lockVars, bindVars, walkVars, reqVars,
         Operations, Abouts, Courses, About, Busy, Alone, TrigOps, LedOps, Known, Walkers,
         Relying, Working, Held, SetSteps, Comes, Adopts, Lacks
<1>11. ASSUME NEW p \in Threads, UnregDevice(p), LedFrame PROVE Adopted'
  BY <1>11
     DEF UnregDevice, Goto, At, lockVars, bindVars, walkVars, reqVars, Operations,
         Abouts, Courses, About, Busy, Alone, TrigOps, LedOps, Known, Walkers, Relying,
         Working, Held, SetSteps, Comes, Adopts, Lacks
<1>12. ASSUME NEW p \in Threads, UnregList(p), LedFrame PROVE Adopted'
  BY <1>12
     DEF UnregList, Goto, At, MayWrite, SetLed, lockVars, bindVars, walkVars, reqVars,
         Comes, Adopts, Lacks
<1>13. ASSUME NEW p \in Threads, TrigList(p), TrigFrame PROVE Adopted'
  BY <1>13
     DEF TrigList, Goto, At, MayWrite, bindVars, walkVars, reqVars, Operations, Abouts,
         About, Busy, Comes, Adopts, Lacks
<1>14. ASSUME NEW p \in Threads, WalkStart(p), TrigFrame PROVE Adopted'
  BY <1>14
     DEF WalkStart, Goto, At, DownRead, bindVars, walkVars, reqVars, Operations, Abouts,
         Courses, About, Busy, Alone, TrigOps, LedOps, Comes, Adopts, Lacks
<1>15. ASSUME NEW p \in Threads, WalkNext(p), TrigFrame PROVE Adopted'
  BY <1>15
     DEF WalkNext, Goto, At, bindVars, walkVars, reqVars, Operations, Abouts, Courses,
         About, Busy, Alone, TrigOps, LedOps, Known, Walkers, Working, SetSteps, Comes,
         Adopts, Lacks
<1>16. ASSUME NEW p \in Threads, WalkEnd(p), TrigFrame PROVE Adopted'
  BY <1>16
     DEF WalkEnd, Goto, At, UpRead, bindVars, walkVars, reqVars, Operations, Abouts,
         Courses, About, Busy, Alone, TrigOps, LedOps, Known, Walkers, Relying, Working,
         Held, SetSteps, Comes, Adopts, Lacks
<1>17. ASSUME NEW p \in Threads, Lookup(p), LockFrame PROVE Adopted'
  BY <1>17
     DEF Lookup, Goto, At, DownRead, bindVars, walkVars, reqVars, Operations, Abouts,
         Courses, About, Busy, TrigOps, LedOps, SetSteps, Comes, Adopts, Lacks
<1>18. ASSUME NEW p \in Threads, Lock(p), LockFrame PROVE Adopted'
  <2>1. \A q \in Threads :
            q # p => /\ pc'[q] = pc[q] /\ cur'[q] = cur[q] /\ walk'[q] = walk[q]
                                      /\ op'[q] = op[q] /\ arg'[q] = arg[q]
    BY <1>18 DEF Lock, Goto, walkVars, reqVars
  <2>2. ASSUME NEW k \in ledsList', Lacks(k)' PROVE \E r \in Threads : Adopts(r, k)'
    <3>1. k \in ledsList /\ Lacks(k)
      BY <1>18, <2>2 DEF Lock, bindVars, reqVars, Lacks
    <3>2. PICK r \in Threads : Adopts(r, k)
      BY <3>1
    <3>3. CASE r = p
      <4>1. CASE op[p] = "trig_register"
        <5>1. arg[p] = DefaultTrigger[k] /\ (k \in walk[p] \/ cur[p] = k)
          BY <1>18, <3>2, <3>3, <4>1 DEF Lock, At, Adopts, Comes
        <5>2. cur[p] = k => pc'[p] = "ts_detach"
          BY <1>18, <3>1, <4>1, <5>1 DEF Lock, Goto, CallsSet, Untouched, Lacks
        <5> QED
          BY <1>18, <3>3, <4>1, <5>1, <5>2
             DEF walkVars, reqVars, Adopts, Comes, SetSteps
      <4>2. CASE op[p] # "trig_register"
        <5>1. op[p] = "led_register" /\ cur[p] = k /\ Busy(p)
          BY <1>18, <3>2, <3>3, <4>2 DEF Lock, At, Adopts, Busy
        <5>2. arg[p] = DefaultTrigger[k]
          BY <5>1 DEF Operations, Abouts, About
        <5>3. pc'[p] = "ts_detach"
          BY <1>18, <3>1, <5>1, <5>2 DEF Lock, Goto, CallsSet, CallsDefault, Lacks
        <5> QED
          BY <1>18, <3>3, <5>1, <5>3 DEF walkVars, reqVars, Adopts, SetSteps
      <4> QED
        BY <4>1, <4>2
    <3>4. CASE r # p
      BY <2>1, <3>2, <3>4 DEF Adopts, Comes
    <3> QED
      BY <3>2, <3>3, <3>4
  <2> QED
    BY <2>2
<1>19. ASSUME NEW p \in Threads, Release(p), LockFrame PROVE Adopted'
  <2>1. \A q \in Threads :
            q # p => /\ pc'[q] = pc[q] /\ cur'[q] = cur[q] /\ walk'[q] = walk[q]
                                      /\ op'[q] = op[q] /\ arg'[q] = arg[q]
    BY <1>19 DEF Release, Goto, walkVars, reqVars
  <2>2. ASSUME NEW k \in ledsList', Lacks(k)' PROVE \E r \in Threads : Adopts(r, k)'
    <3>1. k \in ledsList /\ Lacks(k)
      <4>1. op[p] = "led_register" => ledState[cur[p]] = "registering"
        BY <1>19 DEF Release, At, Operations, Abouts, About, Busy
      <4> QED
        BY <1>19, <2>2, <4>1 DEF Release, SetLed, bindVars, reqVars, Lacks
    <3>2. PICK r \in Threads : Adopts(r, k)
      BY <3>1
    <3>3. CASE r = p
      <4>1. op[p] = "trig_register" /\ arg[p] = DefaultTrigger[k] /\ k \in walk[p]
        BY <1>19, <3>2, <3>3 DEF Release, At, Adopts, Comes, SetSteps
      <4> QED
        BY <1>19, <3>3, <4>1 DEF walkVars, reqVars, Adopts, Comes
    <3>4. CASE r # p
      BY <2>1, <3>2, <3>4 DEF Adopts, Comes
    <3> QED
      BY <3>2, <3>3, <3>4
  <2> QED
    BY <2>2
<1>20. ASSUME NEW p \in Threads, TsDetach(p), SetFrame PROVE Adopted'
  BY <1>20
     DEF TsDetach, Goto, At, Unlink, devVars, lockVars, walkVars, reqVars, Operations,
         Abouts, Courses, About, Busy, Known, SetSteps, Comes, Adopts, Lacks
<1>21. ASSUME NEW p \in Threads, TsDeactivate(p), SetFrame PROVE Adopted'
  BY <1>21
     DEF TsDeactivate, Goto, At, TurnOff, devVars, lockVars, walkVars, reqVars,
         Operations, Abouts, Courses, About, Busy, Known, SetSteps, Comes, Adopts, Lacks
<1>22. ASSUME NEW p \in Threads, TsAttach(p), SetFrame PROVE Adopted'
  BY <1>22
     DEF TsAttach, Goto, At, Target, devVars, lockVars, walkVars, reqVars, Operations,
         SetSteps, Comes, Adopts, Lacks
<1>23. ASSUME NEW p \in Threads, TsActivate(p), SetFrame PROVE Adopted'
  BY <1>23
     DEF TsActivate, Goto, At, Target, devVars, lockVars, walkVars, reqVars, Operations,
         SetSteps, Comes, Adopts, Lacks
<1>24. ASSUME NEW p \in Threads, TsAssign(p), SetFrame PROVE Adopted'
  <2>1. \A q \in Threads :
            q # p => /\ pc'[q] = pc[q] /\ cur'[q] = cur[q] /\ walk'[q] = walk[q]
                                      /\ op'[q] = op[q] /\ arg'[q] = arg[q]
    BY <1>24 DEF TsAssign, Goto, walkVars, reqVars
  <2>2. ASSUME NEW k \in ledsList', Lacks(k)' PROVE \E r \in Threads : Adopts(r, k)'
    <3>0. ASSUME cur[p] = k PROVE FALSE
      <4>1. Busy(p) /\ pc[p] \in Working /\ pc[p] \in SetSteps
        BY <1>24 DEF TsAssign, At, Busy, Working, Held, SetSteps
      <4>3. Target(p) # DefaultTrigger[k] /\ DefaultTrigger[k] \in triggerList
                /\ ~ touched[k]
        BY <1>24, <2>2, <3>0 DEF TsAssign, devVars, reqVars, Lacks
      <4>4. ledState[k] # "unregistering"
        BY <1>24, <2>2 DEF devVars, Lacks
      <4>5. op[p] = "trig_unregister"
        BY <4>1, <3>0, <4>3, <4>4
           DEF Operations, Courses, Abouts, About, Concerned, Target, Kinds
      <4>6. trigger[k] = arg[p] /\ arg[p] \notin triggerList /\ arg[p] # NoTrigger
        BY <4>1, <3>0, <4>5, NamesAssumption DEF Concerned, Known, RealTriggers
      <4> QED
        BY <4>3, <4>6 DEF Untouched
    <3>1. k \in ledsList /\ Lacks(k)
      BY <1>24, <2>2, <3>0 DEF TsAssign, devVars, reqVars, Lacks
    <3>2. PICK r \in Threads : Adopts(r, k)
      BY <3>1
    <3>3. CASE r = p
      BY <1>24, <3>2, <3>3, <3>0 DEF TsAssign, At, walkVars, reqVars, Adopts, Comes
    <3>4. CASE r # p
      BY <2>1, <3>2, <3>4 DEF Adopts, Comes
    <3> QED
      BY <3>2, <3>3, <3>4
  <2> QED
    BY <2>2
<1>25. CASE Brightness \/ UNCHANGED vars
  BY <1>25
     DEF Brightness, vars, devVars, bindVars, lockVars, walkVars, reqVars, Comes,
         Adopts, Lacks
<1> QED
  BY <1>1, <1>2, <1>3, <1>4, <1>5, <1>6, <1>7, <1>8, <1>9, <1>10, <1>11, <1>12, <1>13,
     <1>14, <1>15, <1>16, <1>17, <1>18, <1>19, <1>20, <1>21, <1>22, <1>23, <1>24, <1>25
     DEF Next, Start, Continue, LedSteps, TrigSteps, LockSteps, LedTriggerSet

\* UnregList waits for the readers of leds_list_lock, so nothing goes away
\* under a walk.
LEMMA WalkersOnListStep ==
    ASSUME TypeOK, Operations, Walkers, Listed, NewLeds, WalkersOnList, [Next]_vars,
           TypeOK'
    PROVE  WalkersOnList'
<1> USE DEF TypeOK, WalkersOnList, LedFrame, TrigFrame, LockFrame, SetFrame
<1>1. ASSUME NEW p \in Threads, NEW l \in Leds, BeginLedRegister(p, l)
      PROVE  WalkersOnList'
  BY <1>1 DEF Begin, Goto, lockVars, BeginLedRegister, SetLed
<1>2. ASSUME NEW p \in Threads, NEW l \in Leds, BeginLedUnregister(p, l)
      PROVE  WalkersOnList'
  BY <1>2 DEF Begin, Goto, lockVars, BeginLedUnregister, SetLed
<1>3. ASSUME NEW p \in Threads, NEW l \in Leds, BeginShow(p, l) PROVE WalkersOnList'
  BY <1>3
     DEF Begin, Goto, At, lockVars, bindVars, BeginShow, Operations, Walkers, Working,
         Held, SetSteps, Listed, NewLeds
<1>4. ASSUME NEW p \in Threads, NEW l \in Leds, NEW t \in TriggersOrNone,
             BeginStore(p, l, t)
      PROVE  WalkersOnList'
  BY <1>4
     DEF Begin, Goto, At, lockVars, bindVars, BeginStore, Operations, Courses, TrigOps,
         Walkers, Working, Held, SetSteps, Listed, NewLeds
<1>5. ASSUME NEW p \in Threads, NEW t \in Triggers, BeginTrigRegister(p, t)
      PROVE  WalkersOnList'
  BY <1>5 DEF Begin, Goto, At, lockVars, bindVars, BeginTrigRegister
<1>6. ASSUME NEW p \in Threads, NEW t \in Triggers, BeginTrigUnregister(p, t)
      PROVE  WalkersOnList'
  BY <1>6 DEF Begin, Goto, At, lockVars, BeginTrigUnregister
<1>7. ASSUME NEW p \in Threads, RegCreate(p), LedFrame PROVE WalkersOnList'
  <2>1. /\ UNCHANGED <<cur, walk>>
               /\ readers'["leds_list_lock"] = readers["leds_list_lock"]
        /\ \A q \in Threads : q # p => pc'[q] = pc[q]
    BY <1>7 DEF RegCreate, Goto, lockVars, walkVars, reqVars
  <2>2. p \notin readers["leds_list_lock"]
    BY <1>7 DEF RegCreate, At, Walkers, Working, Held, SetSteps
  <2>3. \A l \in Leds : ledState'[l] = "gone" => ledState[l] = "gone"
    BY <1>7 DEF RegCreate, SetLed, devVars
  <2>4. readers["leds_list_lock"] \subseteq Threads
    BY DEF Locks
  <2> HIDE DEF TypeOK
  <2>5. ASSUME NEW q \in readers["leds_list_lock"]
        PROVE  /\ \A l \in walk[q] : ledState'[l] # "gone"
               /\ pc'[q] # "walk" => ledState'[cur[q]] # "gone"
    <3>1. q \in Threads /\ walk[q] \subseteq Leds /\ cur[q] \in Leds
      BY <2>4 DEF TypeOK
    <3> QED
      BY <2>1, <2>2, <2>3, <3>1
  <2> QED
    BY <2>1, <2>5
<1>8. ASSUME NEW p \in Threads, RegList(p), LedFrame PROVE WalkersOnList'
  BY <1>8 DEF RegList, MayWrite
<1>9. ASSUME NEW p \in Threads, RegFile(p), LedFrame PROVE WalkersOnList'
  <2>1. /\ UNCHANGED <<cur, walk>>
               /\ readers'["leds_list_lock"] = readers["leds_list_lock"]
        /\ \A q \in Threads : q # p => pc'[q] = pc[q]
    BY <1>9 DEF RegFile, Goto, lockVars, walkVars, reqVars
  <2>2. p \notin readers["leds_list_lock"]
    BY <1>9 DEF RegFile, At, Walkers, Working, Held, SetSteps
  <2>3. \A l \in Leds : ledState'[l] = "gone" => ledState[l] = "gone"
    BY <1>9 DEF RegFile, SetLed, devVars
  <2>4. readers["leds_list_lock"] \subseteq Threads
    BY DEF Locks
  <2> HIDE DEF TypeOK
  <2>5. ASSUME NEW q \in readers["leds_list_lock"]
        PROVE  /\ \A l \in walk[q] : ledState'[l] # "gone"
               /\ pc'[q] # "walk" => ledState'[cur[q]] # "gone"
    <3>1. q \in Threads /\ walk[q] \subseteq Leds /\ cur[q] \in Leds
      BY <2>4 DEF TypeOK
    <3> QED
      BY <2>1, <2>2, <2>3, <3>1
  <2> QED
    BY <2>1, <2>5
<1>10. ASSUME NEW p \in Threads, UnregFiles(p), LedFrame PROVE WalkersOnList'
  BY <1>10 DEF UnregFiles, Goto, At, lockVars, walkVars
<1>11. ASSUME NEW p \in Threads, UnregDevice(p), LedFrame PROVE WalkersOnList'
  BY <1>11 DEF UnregDevice, Goto, At, lockVars, walkVars
<1>12. ASSUME NEW p \in Threads, UnregList(p), LedFrame PROVE WalkersOnList'
  BY <1>12 DEF UnregList, Goto, At, MayWrite, SetLed, lockVars, walkVars
<1>13. ASSUME NEW p \in Threads, TrigList(p), TrigFrame PROVE WalkersOnList'
  BY <1>13 DEF TrigList, Goto, At, MayWrite, walkVars
<1>14. ASSUME NEW p \in Threads, WalkStart(p), TrigFrame PROVE WalkersOnList'
  BY <1>14
     DEF WalkStart, Goto, At, DownRead, bindVars, walkVars, reqVars, Operations,
         Courses, TrigOps, Held, Listed, NewLeds
<1>15. ASSUME NEW p \in Threads, WalkNext(p), TrigFrame PROVE WalkersOnList'
  BY <1>15 DEF WalkNext, Goto, Listed
<1>16. ASSUME NEW p \in Threads, WalkEnd(p), TrigFrame PROVE WalkersOnList'
  BY <1>16 DEF WalkEnd, Goto, At, UpRead, walkVars
<1>17. ASSUME NEW p \in Threads, Lookup(p), LockFrame PROVE WalkersOnList'
  <2>1. /\ UNCHANGED <<cur, walk>>
               /\ readers'["leds_list_lock"] = readers["leds_list_lock"]
        /\ \A q \in Threads : q # p => pc'[q] = pc[q]
    BY <1>17 DEF Lookup, Goto, lockVars, walkVars, reqVars, DownRead, UpRead, Locks
  <2>2. p \notin readers["leds_list_lock"]
    BY <1>17 DEF Lookup, At, Walkers, Operations, Courses, TrigOps
  <2>3. \A l \in Leds : ledState'[l] = "gone" => ledState[l] = "gone"
    BY <1>17 DEF Lookup, SetLed, devVars
  <2>4. readers["leds_list_lock"] \subseteq Threads
    BY DEF Locks
  <2> HIDE DEF TypeOK
  <2>5. ASSUME NEW q \in readers["leds_list_lock"]
        PROVE  /\ \A l \in walk[q] : ledState'[l] # "gone"
               /\ pc'[q] # "walk" => ledState'[cur[q]] # "gone"
    <3>1. q \in Threads /\ walk[q] \subseteq Leds /\ cur[q] \in Leds
      BY <2>4 DEF TypeOK
    <3> QED
      BY <2>1, <2>2, <2>3, <3>1
  <2> QED
    BY <2>1, <2>5
<1>18. ASSUME NEW p \in Threads, Lock(p), LockFrame PROVE WalkersOnList'
  BY <1>18 DEF Lock, Goto, At, walkVars
<1>19. ASSUME NEW p \in Threads, Release(p), LockFrame PROVE WalkersOnList'
  <2>1. /\ UNCHANGED <<cur, walk>>
               /\ readers'["leds_list_lock"] = readers["leds_list_lock"]
        /\ \A q \in Threads : q # p => pc'[q] = pc[q]
    BY <1>19 DEF Release, Goto, lockVars, walkVars, reqVars, DownRead, UpRead, Locks
  <2>2. p \in readers["leds_list_lock"] => pc'[p] = "walk"
    BY <1>19 DEF Release, At, Goto, Walkers, TrigOps
  <2>3. \A l \in Leds : ledState'[l] = "gone" => ledState[l] = "gone"
    BY <1>19 DEF Release, SetLed, devVars
  <2>4. readers["leds_list_lock"] \subseteq Threads
    BY DEF Locks
  <2> HIDE DEF TypeOK
  <2>5. ASSUME NEW q \in readers["leds_list_lock"]
        PROVE  /\ \A l \in walk[q] : ledState'[l] # "gone"
               /\ pc'[q] # "walk" => ledState'[cur[q]] # "gone"
    <3>1. q \in Threads /\ walk[q] \subseteq Leds /\ cur[q] \in Leds
      BY <2>4 DEF TypeOK
    <3> QED
      BY <2>1, <2>2, <2>3, <3>1
  <2> QED
    BY <2>1, <2>5
<1>20. ASSUME NEW p \in Threads, TsDetach(p), SetFrame PROVE WalkersOnList'
  <2>1. /\ UNCHANGED <<cur, walk>>
               /\ readers'["leds_list_lock"] = readers["leds_list_lock"]
        /\ \A q \in Threads : q # p => pc'[q] = pc[q]
    BY <1>20 DEF TsDetach, Goto, lockVars, walkVars, reqVars
  <2>2. pc[p] # "walk"
    BY <1>20 DEF TsDetach, At
  <2>3. \A l \in Leds : ledState'[l] = "gone" => ledState[l] = "gone"
    BY <1>20 DEF TsDetach, SetLed, devVars
  <2>4. readers["leds_list_lock"] \subseteq Threads
    BY DEF Locks
  <2> HIDE DEF TypeOK
  <2>5. ASSUME NEW q \in readers["leds_list_lock"]
        PROVE  /\ \A l \in walk[q] : ledState'[l] # "gone"
               /\ pc'[q] # "walk" => ledState'[cur[q]] # "gone"
    <3>1. q \in Threads /\ walk[q] \subseteq Leds /\ cur[q] \in Leds
      BY <2>4 DEF TypeOK
    <3> QED
      BY <2>1, <2>2, <2>3, <3>1
  <2> QED
    BY <2>1, <2>5
<1>21. ASSUME NEW p \in Threads, TsDeactivate(p), SetFrame PROVE WalkersOnList'
  BY <1>21 DEF TsDeactivate, Goto, At, devVars, lockVars, walkVars
<1>22. ASSUME NEW p \in Threads, TsAttach(p), SetFrame PROVE WalkersOnList'
  <2>1. /\ UNCHANGED <<cur, walk>>
               /\ readers'["leds_list_lock"] = readers["leds_list_lock"]
        /\ \A q \in Threads : q # p => pc'[q] = pc[q]
    BY <1>22 DEF TsAttach, Goto, lockVars, walkVars, reqVars
  <2>2. pc[p] # "walk"
    BY <1>22 DEF TsAttach, At
  <2>3. \A l \in Leds : ledState'[l] = "gone" => ledState[l] = "gone"
    BY <1>22 DEF TsAttach, SetLed, devVars
  <2>4. readers["leds_list_lock"] \subseteq Threads
    BY DEF Locks
  <2> HIDE DEF TypeOK
  <2>5. ASSUME NEW q \in readers["leds_list_lock"]
        PROVE  /\ \A l \in walk[q] : ledState'[l] # "gone"
               /\ pc'[q] # "walk" => ledState'[cur[q]] # "gone"
    <3>1. q \in Threads /\ walk[q] \subseteq Leds /\ cur[q] \in Leds
      BY <2>4 DEF TypeOK
    <3> QED
      BY <2>1, <2>2, <2>3, <3>1
  <2> QED
    BY <2>1, <2>5
<1>23. ASSUME NEW p \in Threads, TsActivate(p), SetFrame PROVE WalkersOnList'
  BY <1>23 DEF TsActivate, Goto, At, devVars, lockVars, walkVars
<1>24. ASSUME NEW p \in Threads, TsAssign(p), SetFrame PROVE WalkersOnList'
  BY <1>24 DEF TsAssign, Goto, At, devVars, lockVars, walkVars
<1>25. CASE Brightness \/ UNCHANGED vars
  BY <1>25 DEF Brightness, vars, devVars, bindVars, lockVars, walkVars
<1> QED
  BY <1>1, <1>2, <1>3, <1>4, <1>5, <1>6, <1>7, <1>8, <1>9, <1>10, <1>11, <1>12, <1>13,
     <1>14, <1>15, <1>16, <1>17, <1>18, <1>19, <1>20, <1>21, <1>22, <1>23, <1>24, <1>25
     DEF Next, Start, Continue, LedSteps, TrigSteps, LockSteps, LedTriggerSet

-----------------------------------------------------------------------------
\* The order of the operations, and what they leave of the triggers of an LED.
Standing == Operations /\ Listed /\ Known /\ Walkers /\ Relying
Binds == Unused /\ Untouched /\ Concerned

\* The inductive invariant, beside that of LedTriggersProofs.
LInv == IInv /\ Standing /\ Binds /\ Dismissed /\ Adopted /\ WalkersOnList

\* The invariant holds at first.
LEMMA InitLInv == Init => LInv
<1> SUFFICES ASSUME Init PROVE LInv
    OBVIOUS
<1>1. IInv
    BY InitIInv
<1>2. \A p \in Threads :
          pc[p] = "idle" /\ walk[p] = {} /\ op[p] = "store" /\ arg[p] = NoTrigger
    BY DEF Init
<1>3. Standing
  <2>1. Operations
    BY <1>2 DEF Operations, Courses, Abouts, Alone, Busy, SetSteps
  <2>2. Listed /\ Known
    BY <1>2 DEF Init, Listed, Known, Working, Held, SetSteps
  <2>3. Walkers /\ Relying
    BY <1>2 DEF Init, Walkers, Relying, Locks
  <2> QED
    BY <2>1, <2>2, <2>3 DEF Standing
<1>4. Binds
    BY <1>2, DefaultAssumption DEF Init, Binds, Unused, Untouched, Concerned, SetSteps
<1>5. Dismissed /\ Adopted /\ WalkersOnList
    BY DEF Init, Dismissed, Adopted, WalkersOnList, Locks
<1> QED
    BY <1>1, <1>3, <1>4, <1>5 DEF LInv

\* Every step preserves the invariant.
LEMMA NextLInv == LInv /\ [Next]_vars => LInv'
<1> SUFFICES ASSUME LInv, [Next]_vars PROVE LInv'
    OBVIOUS
<1>1. IInv' /\ TypeOK' /\ TypeOK
    BY NextIInv DEF LInv, IInv
<1>2. RealTriggers /\ Holders /\ NewLeds /\ Halfway
    BY DEF LInv, IInv
<1>3. /\ Operations /\ Courses /\ Abouts /\ Alone /\ Listed /\ Known /\ Walkers
             /\ Relying
      /\ Unused /\ Untouched /\ Concerned /\ Dismissed /\ Adopted /\ WalkersOnList
    BY DEF LInv, Standing, Binds, Operations
<1>4. Operations'
    BY <1>1, <1>2, <1>3, CoursesStep, AboutsStep, AloneStep DEF Operations
<1>5. Standing'
    BY <1>1, <1>2, <1>3, <1>4, ListedStep, KnownStep, WalkersStep, RelyingStep
       DEF Standing
<1>6. Binds'
    BY <1>1, <1>2, <1>3, UnusedStep, UntouchedStep, ConcernedStep DEF Binds
<1>7. Dismissed' /\ Adopted' /\ WalkersOnList'
    BY <1>1, <1>2, <1>3, DismissedStep, AdoptedStep, WalkersOnListStep
<1> QED
    BY <1>1, <1>5, <1>6, <1>7 DEF LInv

\* The invariant holds in every reachable state.
THEOREM ListInvariance == Spec => []LInv
<1> QED
    BY InitLInv, NextLInv, PTL DEF Spec

\* Whoever has still to come to an LED is inside its operation.
LEMMA ComersWork ==
    ASSUME LInv, NEW p \in Threads, NEW l \in Leds, Comes(p, l)
    PROVE  About(p)
<1>1. walk[p] # {} => Busy(p)
    BY DEF LInv, Standing, Walkers, Working, Held, SetSteps, Busy
<1>2. Busy(p)
    BY <1>1 DEF Comes, SetSteps, Busy
<1> QED
    BY <1>2 DEF LInv, Standing, Operations, Abouts

\* led_trigger_unregister: once it has returned, no registered LED has the
\* trigger or is on its list, whatever stores and registrations ran beside it.
THEOREM LedsLeaveTriggers == Spec => []RegisteredLedsLeaveTrigger
<1>1. LInv => RegisteredLedsLeaveTrigger
  <2> SUFFICES ASSUME LInv, NEW l \in Leds, NEW t \in Triggers,
                      ledState[l] = "registered", trigState[t] = "absent", Uses(l, t)
               PROVE  FALSE
    BY DEF RegisteredLedsLeaveTrigger, Uses
  <2>1. l \in ledsList /\ t \notin triggerList
    BY DEF LInv, Standing, Listed, Known
  <2>2. PICK p \in Threads : op[p] = "trig_unregister" /\ arg[p] = t /\ Comes(p, l)
    BY <2>1 DEF LInv, Dismissed
  <2> QED
    BY <2>2, ComersWork DEF About
<1> QED
    BY <1>1, ListInvariance, PTL

\* led_classdev_register and led_trigger_register: an LED that user space has
\* not touched has its default trigger as soon as both are registered, in
\* whatever order they came.
THEOREM DefaultsAreHonoured == Spec => []DefaultTriggerHonoured
<1>1. LInv => DefaultTriggerHonoured
  <2> SUFFICES ASSUME LInv, NEW l \in Leds, ledState[l] = "registered", ~ touched[l],
                      DefaultTrigger[l] # NoTrigger =>
                          trigState[DefaultTrigger[l]] = "registered",
                      trigger[l] # DefaultTrigger[l]
               PROVE  FALSE
    BY DEF DefaultTriggerHonoured
  <2>1. DefaultTrigger[l] \in Triggers
    BY DefaultAssumption DEF LInv, Binds, Untouched, TriggersOrNone
  <2>2. DefaultTrigger[l] \in triggerList /\ l \in ledsList
    BY <2>1, NamesAssumption DEF LInv, Standing, Known, Listed
  <2>3. PICK p \in Threads : Adopts(p, l)
    BY <2>2 DEF LInv, Adopted, Lacks
  <2>4. CASE op[p] = "trig_register" /\ arg[p] = DefaultTrigger[l] /\ Comes(p, l)
    BY <2>1, <2>4, ComersWork, NamesAssumption DEF About
  <2>5. CASE op[p] = "led_register" /\ cur[p] = l
                /\ pc[p] \in {"reg_file", "lookup", "lock"} \cup SetSteps
    <3>1. Busy(p)
      BY <2>5 DEF Busy, SetSteps
    <3> QED
      BY <2>5, <3>1 DEF LInv, Standing, Operations, Abouts, About
  <2> QED
    BY <2>3, <2>4, <2>5 DEF Adopts
<1> QED
    BY <1>1, ListInvariance, PTL

\* The LEDs of a walk over leds_list do not go away while it runs.
THEOREM WalksStayOnList == Spec => []WalkersOnList
<1>1. LInv => WalkersOnList
    BY DEF LInv
<1> QED
    BY <1>1, ListInvariance, PTL

=============================================================================
