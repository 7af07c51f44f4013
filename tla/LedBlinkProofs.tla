--------------------------- MODULE LedBlinkProofs ---------------------------
(***************************************************************************)
(* Proofs about LedBlink, for any number of writers and objects, any load  *)
(* and any tick: timers, attributes and writers find data that is still    *)
(* allocated, and the heartbeat's pauses are parts of its period.          *)
(***************************************************************************)
EXTENDS LedBlink, TLAPS

-----------------------------------------------------------------------------
\* The periods the load averages give.
Periods == {BeatPeriod(load) : load \in Loads}

\* Only the LED's data is allocated.
Owned == \A o \in Objects : mem[o].kind # "free" => o = data

\* trigger_data is set and the structure it names is still allocated.
Allocated == data # NoObject /\ mem[data].kind # "free"

\* What each step of led_trigger_set knows of the data, ...
Steps ==
    /\ setPc \in {"remove_on", "remove_off"} => trigger = "timer"
    /\ setPc = "stop" => trigger # "none"
    /\ setPc \in {"create_on", "create_off", "undo_on"} =>
          target = "timer" /\ data # NoObject /\ mem[data].kind = "timer"
    /\ setPc = "activate" => ~ Allocated
    /\ setPc = "idle" /\ trigger = "none" => ~ Allocated
    /\ setPc = "assign" /\ target = "none" => ~ Allocated

\* ... and of the attributes; a writer is inside one that exists.
Attributes ==
    /\ setPc \in {"stop", "activate", "create_on"} => attrs = {}
    /\ setPc = "remove_off" => attrs \subseteq {"delay_off"}
    /\ setPc \in {"create_off", "undo_on"} => attrs = {"delay_on"}
    /\ setPc \in {"idle", "remove_on", "remove_off"} /\ attrs # {} => trigger = "timer"
    /\ setPc = "assign" /\ attrs # {} => target = "timer"
    /\ attrs # {} => data # NoObject /\ mem[data].kind = "timer"
    /\ \A w \in Writers : storing[w] # "idle" => storing[w] \in attrs /\ storeTo[w] = data

\* The inductive invariant all the theorems below start from.
IInv == TypeOK /\ Owned /\ Steps /\ Attributes

\* A tick is a whole number of milliseconds, at least one.
LEMMA Width == 1000 \div HZ \in Nat \ {0}
<1>1. HZ \in Nat \ {0} /\ 1000 % HZ = 0
  BY BlinkAssumption
<1>2. HZ =< 1000
  <2>1. HZ > 1000 => 1000 % HZ = 1000
    BY <1>1
  <2> QED
    BY <1>1
<1> QED
  BY <1>1

\* msecs_to_jiffies never returns less than nothing ...
LEMMA TicksNat == ASSUME NEW ms \in Nat PROVE Ticks(ms) \in Nat
<1> DEFINE d == 1000 \div HZ
<1>1. d \in Nat \ {0}
  BY Width
<1>2. \A n \in Nat, e \in Nat \ {0} : n \div e \in Nat
  OBVIOUS
<1> HIDE DEF d
<1>3. ms + d - 1 \in Nat
  BY <1>1
<1>4. (ms + d - 1) \div d \in Nat
  BY <1>1
<1> QED
  BY <1>4 DEF Ticks, d

\* ... so every period of the heartbeat is a number of ticks ...
LEMMA PeriodNat == \A load \in Loads : BeatPeriod(load) \in Nat
<1> SUFFICES ASSUME NEW load \in Loads PROVE BeatPeriod(load) \in Nat
  OBVIOUS
<1>1. load \in Nat
  BY BlinkAssumption
<1>2. 5 * load + 7 * 2048 \in Nat \ {0} /\ 6720 * 2048 \in Nat
  BY <1>1
<1>3. \A n \in Nat, e \in Nat \ {0} : n \div e \in Nat
  OBVIOUS
<1>4. (6720 * 2048) \div (5 * load + 7 * 2048) \in Nat
  BY <1>2
<1>5. 300 + (6720 * 2048) \div (5 * load + 7 * 2048) \in Nat
  BY <1>4
<1> QED
  BY <1>5, TicksNat DEF BeatPeriod

\* ... and every pause a difference of two such numbers. That it is not
\* negative takes more: see PauseFits.
LEMMA PauseInt == ASSUME NEW ph \in 0 .. 3, NEW p \in Nat PROVE Pause(ph, p) \in Int
<1>1. Ticks(70) \in Nat
  BY TicksNat
<1>2. p \div 4 \in Int
  OBVIOUS
<1> QED
  BY <1>1 DEF Pause

\* From 100 ticks per second on a tick lasts at most 10 ms.
LEMMA WidthSmall == ASSUME HZ >= 100 PROVE 1000 \div HZ \in 1 .. 10
<1>1. HZ \in Nat \ {0}
  BY BlinkAssumption
<1>2. 1000 \div HZ =< 10
  BY <1>1
<1> QED
  BY <1>2, Width

\* The shortest period is four short beats long, at any frequency.
LEMMA QuarterFits ==
    ASSUME HZ >= 100, NEW load \in Loads
    PROVE  /\ Ticks(70) =< BeatPeriod(load) \div 4
           /\ BeatPeriod(load) \div 4 =< BeatPeriod(load)
           /\ 0 =< Ticks(70)
<1> DEFINE x == (6720 * 2048) \div (5 * load + 7 * 2048)
<1>0. load \in Nat
  BY BlinkAssumption
<1>1. x \in Nat
  <2>2. 5 * load + 7 * 2048 \in Nat \ {0} /\ 6720 * 2048 \in Nat
    BY <1>0
  <2>3. \A n \in Nat, e \in Nat \ {0} : n \div e \in Nat
    OBVIOUS
  <2> QED
    BY <2>2
<1> HIDE DEF x
<1> DEFINE d == 1000 \div HZ
<1>2. d \in 1 .. 10
  BY WidthSmall
<1> HIDE DEF d
<1>3. Ticks(70) = (70 + d - 1) \div d /\ BeatPeriod(load) = (300 + x + d - 1) \div d
  BY DEF Ticks, BeatPeriod, d, x
<1>4. ASSUME NEW e \in 1 .. 10
      PROVE  /\ (70 + e - 1) \div e =< ((300 + x + e - 1) \div e) \div 4
             /\ ((300 + x + e - 1) \div e) \div 4 =< (300 + x + e - 1) \div e
             /\ 0 =< (70 + e - 1) \div e
  BY <1>1
<1> QED
  BY <1>2, <1>3, <1>4

\* The structures an object can hold.
Objs == [kind : Kinds \cup {"free"}, delay_on : Delays, delay_off : Delays,
         phase : 0 .. 3, period : Nat]

\* kzalloc returns a record of zeros.
LEMMA BlankTyped == \A kind \in Kinds \cup {"free"} : Blank(kind) \in Objs
BY BlinkAssumption DEF Blank, Objs

\* Types. The timer callbacks find objects, not NULL, through trigger_data,
\* and a store rearms the timer of the structure it looked up.
LEMMA TypeStep ==
    ASSUME TypeOK, Attributes, [Next]_vars
    PROVE  TypeOK'
<1> USE DEF vars, setVars, writeVars
<1>0. CASE UNCHANGED vars
  BY <1>0 DEF TypeOK
<1>1. ASSUME NEW t \in Kinds \cup {"none"}, SetTrigger(t) PROVE TypeOK'
  BY <1>1 DEF SetTrigger, TypeOK
<1>2. CASE RemoveOn
  BY <1>2 DEF RemoveOn, TypeOK
<1>3. CASE RemoveOff
  BY <1>3 DEF RemoveOff, TypeOK
<1>4. CASE Stop
  <2>1. mem' \in [Objects -> Objs]
    BY <1>4, BlankTyped DEF Stop, Discard, Free, TypeOK, Objs
  <2> QED
    BY <1>4, <2>1 DEF Stop, Discard, TypeOK, Objs
<1>5. CASE Activate
  <2>1. CASE UNCHANGED <<data, mem, armed, delay, lit>>
    BY <1>5, <2>1 DEF Activate, TypeOK
  <2>2. ASSUME NEW o \in Objects, NEW load \in Loads, target = "timer",
               data' = o, mem' = [mem EXCEPT ![o] = Blank("timer")], setPc' = "create_on",
               UNCHANGED <<armed, delay, lit>>
        PROVE  TypeOK'
    <3>1. mem' \in [Objects -> Objs]
      BY <2>2, BlankTyped DEF TypeOK, Objs
    <3> QED
      BY <1>5, <2>2, <3>1 DEF Activate, TypeOK, Objs
  <2>3. ASSUME NEW o \in Objects, NEW load \in Loads, data' = o,
               mem' = [mem EXCEPT ![o] = [Blank("heartbeat") EXCEPT
                                !.phase = 1, !.period = BeatPeriod(load)]],
               delay' = Pause(0, BeatPeriod(load)), lit' = TRUE,
               armed' = armed \cup {o}, setPc' = "assign"
        PROVE  TypeOK'
    <3>1. BeatPeriod(load) \in Nat
      BY PeriodNat
    <3>2. [Blank("heartbeat") EXCEPT !.phase = 1, !.period = BeatPeriod(load)] \in Objs
      <4>1. Blank("heartbeat") \in Objs
        BY BlankTyped DEF Kinds
      <4>2. ASSUME NEW b \in Objs, NEW q \in 0 .. 3
            PROVE  [b EXCEPT !.phase = q, !.period = BeatPeriod(load)] \in Objs
        BY <3>1 DEF Objs
      <4>3. 1 \in 0 .. 3
        OBVIOUS
      <4> QED
        BY <4>1, <4>2, <4>3, Zenon
    <3>3. mem' \in [Objects -> Objs]
      BY <2>3, <3>2 DEF TypeOK, Objs
    <3>4. delay' \in Int
      BY <2>3, <3>1, PauseInt
    <3> QED
      BY <1>5, <3>3, <3>4 DEF Activate, TypeOK, Objs
  <2> QED
    BY <1>5, <2>1, <2>2, <2>3 DEF Activate
<1>6. CASE CreateOn
  <2>1. mem' \in [Objects -> Objs]
    BY <1>6, BlankTyped DEF CreateOn, Abandon, Free, TypeOK, Objs
  <2> QED
    BY <1>6, <2>1 DEF CreateOn, Abandon, TypeOK, Objs
<1>7. CASE CreateOff
  BY <1>7 DEF CreateOff, TypeOK
<1>8. CASE UndoOn
  <2>1. mem' \in [Objects -> Objs]
    BY <1>8, BlankTyped DEF UndoOn, Abandon, Free, TypeOK, Objs
  <2> QED
    BY <1>8, <2>1 DEF UndoOn, Abandon, TypeOK, Objs
<1>9. CASE Assign
  BY <1>9 DEF Assign, TypeOK
<1>10. ASSUME NEW o \in Objects, TimerFunction(o) PROVE TypeOK'
  <2>1. data \in Objects
    BY <1>10 DEF TimerFunction, TypeOK
  <2>2. lit' \in BOOLEAN /\ armed' \in SUBSET Objects
    BY <1>10 DEF TimerFunction, Toggled, TypeOK
  <2> QED
    BY <1>10, <2>2 DEF TimerFunction, TypeOK
<1>11. ASSUME NEW o \in Objects, HeartbeatFunction(o) PROVE TypeOK'
  <2>1. data \in Objects
    BY <1>11 DEF HeartbeatFunction, TypeOK
  <2> DEFINE ph == mem[data].phase
  <2>2. ph \in 0 .. 3 /\ mem[data].period \in Nat
    BY <2>1 DEF TypeOK
  <2>3. PICK p \in IF ph = 0 THEN Periods ELSE {mem[data].period} :
           /\ mem' = [mem EXCEPT ![data].period = p, ![data].phase = NextPhase(ph)]
           /\ delay' = Pause(ph, p)
           /\ lit' = (ph \in {0, 2})
    BY <1>11 DEF HeartbeatFunction, Beat, Periods
  <2>4. p \in Nat
    BY <2>2, PeriodNat DEF Periods
  <2>5. NextPhase(ph) \in 0 .. 3
    BY <2>2 DEF NextPhase
  <2>6. mem' \in [Objects -> Objs]
    <3>1. mem \in [Objects -> Objs]
      BY DEF TypeOK, Objs
    <3>2. mem' = [mem EXCEPT ![data] =
                    [mem[data] EXCEPT !.period = p, !.phase = NextPhase(ph)]]
      BY <2>3
    <3>3. [mem[data] EXCEPT !.period = p, !.phase = NextPhase(ph)] \in Objs
      BY <2>1, <2>4, <2>5, <3>1 DEF Objs
    <3> QED
      BY <3>1, <3>2, <3>3
  <2>7. delay' \in Int /\ lit' \in BOOLEAN
    BY <2>2, <2>3, <2>4, PauseInt
  <2> QED
    BY <1>11, <2>6, <2>7 DEF HeartbeatFunction, TypeOK, Objs
<1>12. ASSUME NEW w \in Writers, NEW a \in attrs, NEW v \in Delays, StoreDelay(w, a, v)
       PROVE  TypeOK'
  BY <1>12 DEF StoreDelay, TypeOK
<1>13. ASSUME NEW w \in Writers, Rearm(w) PROVE TypeOK'
  <2>1. storeTo[w] \in Objects
    BY <1>13 DEF Rearm, Attributes, TypeOK
  <2> QED
    BY <1>13, <2>1 DEF Rearm, ModTimer, TypeOK
<1>14. CASE StoreBrightness
  BY <1>14 DEF StoreBrightness, TypeOK
<1> QED
  BY <1>0, <1>1, <1>2, <1>3, <1>4, <1>5, <1>6, <1>7, <1>8, <1>9, <1>10, <1>11, <1>12,
     <1>13, <1>14
     DEF Next, Set, Fire

\* Activation allocates only when nothing is allocated, and then sets
\* trigger_data; the structures freed are the one there.
LEMMA OwnedStep ==
    ASSUME TypeOK, TypeOK', Owned, Steps, Attributes, [Next]_vars
    PROVE  Owned'
<1> USE DEF vars, setVars, writeVars
<1>0. CASE UNCHANGED vars
  BY <1>0 DEF Owned
<1>1. ASSUME NEW t \in Kinds \cup {"none"}, SetTrigger(t) PROVE Owned'
  BY <1>1 DEF SetTrigger, Owned
<1>2. CASE RemoveOn
  BY <1>2 DEF RemoveOn, Owned
<1>3. CASE RemoveOff
  BY <1>3 DEF RemoveOff, Owned
<1>4. CASE Stop
  BY <1>4 DEF Stop, Discard, Free, TypeOK, Owned
<1>5. CASE Activate
  <2>1. CASE UNCHANGED <<data, mem>>
    BY <2>1 DEF Owned
  <2>2. ASSUME NEW n \in Objects, data' = n,
               \A o \in Objects : o # n => mem'[o] = mem[o]
        PROVE  Owned'
    <3>1. \A o \in Objects : mem[o].kind = "free"
      BY <1>5, BlinkAssumption DEF Activate, Owned, Steps, Allocated
    <3> QED
      BY <2>2, <3>1 DEF Owned
  <2> QED
    BY <1>5, <2>1, <2>2 DEF Activate, TypeOK
<1>6. CASE CreateOn
  BY <1>6 DEF CreateOn, Abandon, Free, Blank, TypeOK, Owned
<1>7. CASE CreateOff
  BY <1>7 DEF CreateOff, Owned
<1>8. CASE UndoOn
  BY <1>8 DEF UndoOn, Abandon, Free, Blank, TypeOK, Owned
<1>9. CASE Assign
  BY <1>9 DEF Assign, Owned
<1>10. ASSUME NEW o \in Objects, TimerFunction(o) PROVE Owned'
  BY <1>10 DEF TimerFunction, Owned
<1>11. ASSUME NEW o \in Objects, HeartbeatFunction(o) PROVE Owned'
  BY <1>11 DEF HeartbeatFunction, Beat, TypeOK, Owned
<1>12. ASSUME NEW w \in Writers, NEW a \in attrs, NEW v \in Delays, StoreDelay(w, a, v)
       PROVE  Owned'
  BY <1>12 DEF StoreDelay, Owned
<1>13. ASSUME NEW w \in Writers, Rearm(w) PROVE Owned'
  BY <1>13 DEF Rearm, Owned
<1>14. CASE StoreBrightness
  BY <1>14 DEF StoreBrightness, Owned
<1> QED
  BY <1>0, <1>1, <1>2, <1>3, <1>4, <1>5, <1>6, <1>7, <1>8, <1>9, <1>10, <1>11, <1>12,
     <1>13, <1>14
     DEF Next, Set, Fire

\* led_trigger_set goes from step to step knowing what is allocated: it
\* activates only after the old structure has gone.
LEMMA StepsStep ==
    ASSUME TypeOK, TypeOK', Owned, Steps, Attributes, [Next]_vars
    PROVE  Steps'
<1> USE DEF vars, setVars, writeVars
<1>0. CASE UNCHANGED vars
  BY <1>0 DEF Steps, Allocated
<1>1. ASSUME NEW t \in Kinds \cup {"none"}, SetTrigger(t) PROVE Steps'
  BY <1>1 DEF SetTrigger, Steps, Allocated
<1>2. CASE RemoveOn
  BY <1>2 DEF RemoveOn, Steps
<1>3. CASE RemoveOff
  BY <1>3 DEF RemoveOff, Steps
<1>4. CASE Stop
  BY <1>4 DEF Stop, Discard, Free, Blank, TypeOK, Steps, Allocated
<1>5. CASE Activate
  <2>1. CASE UNCHANGED <<data, mem>> /\ setPc' = "assign"
    BY <1>5, <2>1 DEF Activate, Steps, Allocated
  <2>2. ASSUME NEW n \in Objects, target # "none", data' = n,
               \/ setPc' = "create_on" /\ target = "timer" /\ mem'[n].kind = "timer"
               \/ setPc' = "assign"
        PROVE  Steps'
    BY <1>5, <2>2, BlinkAssumption DEF Activate, Steps
  <2>3. ASSUME NEW n \in Objects, data' = n, target # "none",
               mem' = [mem EXCEPT ![n] = Blank("timer")], setPc' = "create_on",
               target = "timer"
        PROVE  Steps'
    <3>1. mem'[n].kind = "timer"
      BY <2>3 DEF Blank, TypeOK
    <3> QED
      BY <2>2, <2>3, <3>1
  <2> QED
    BY <1>5, <2>1, <2>2, <2>3 DEF Activate
<1>6. CASE CreateOn
  BY <1>6 DEF CreateOn, Steps
<1>7. CASE CreateOff
  BY <1>7 DEF CreateOff, Steps
<1>8. CASE UndoOn
  BY <1>8 DEF UndoOn, Steps
<1>9. CASE Assign
  BY <1>9 DEF Assign, Steps, Allocated
<1>10. ASSUME NEW o \in Objects, TimerFunction(o) PROVE Steps'
  BY <1>10 DEF TimerFunction, Steps, Allocated
<1>11. ASSUME NEW o \in Objects, HeartbeatFunction(o) PROVE Steps'
  BY <1>11 DEF HeartbeatFunction, Beat, TypeOK, Steps, Allocated
<1>12. ASSUME NEW w \in Writers, NEW a \in attrs, NEW v \in Delays, StoreDelay(w, a, v)
       PROVE  Steps'
  BY <1>12 DEF StoreDelay, Steps, Attributes
<1>13. ASSUME NEW w \in Writers, Rearm(w) PROVE Steps'
  BY <1>13 DEF Rearm, Steps, Attributes
<1>14. CASE StoreBrightness
  BY <1>14 DEF StoreBrightness, Steps, Allocated
<1> QED
  BY <1>0, <1>1, <1>2, <1>3, <1>4, <1>5, <1>6, <1>7, <1>8, <1>9, <1>10, <1>11, <1>12,
     <1>13, <1>14
     DEF Next, Set, Fire

\* The attributes live inside the structure's lifetime: they are created after
\* it and removed, waiting for the writers inside, before it is freed.
LEMMA AttributesStep ==
    ASSUME TypeOK, TypeOK', Owned, Steps, Attributes, [Next]_vars
    PROVE  Attributes'
<1> USE DEF vars, setVars, writeVars
<1>0. CASE UNCHANGED vars
  BY <1>0 DEF Attributes
<1>1. ASSUME NEW t \in Kinds \cup {"none"}, SetTrigger(t) PROVE Attributes'
  BY <1>1 DEF SetTrigger, Attributes
<1>2. CASE RemoveOn
  BY <1>2 DEF RemoveOn, InStore, TypeOK, Attributes
<1>3. CASE RemoveOff
  BY <1>3 DEF RemoveOff, InStore, Attributes
<1>4. CASE Stop
  BY <1>4 DEF Stop, Attributes
<1>5. CASE Activate
  <2>1. attrs' = {} /\ setPc' \in {"assign", "create_on"}
    BY <1>5 DEF Activate, Attributes
  <2>2. \A w \in Writers : storing'[w] = "idle"
    BY <1>5 DEF Activate, Attributes
  <2> QED
    BY <2>1, <2>2 DEF Attributes
<1>6. CASE CreateOn
  BY <1>6 DEF CreateOn, Steps, Attributes
<1>7. CASE CreateOff
  BY <1>7 DEF CreateOff, Steps, Attributes
<1>8. CASE UndoOn
  BY <1>8 DEF UndoOn, InStore, Attributes
<1>9. CASE Assign
  BY <1>9 DEF Assign, Attributes
<1>10. ASSUME NEW o \in Objects, TimerFunction(o) PROVE Attributes'
  BY <1>10 DEF TimerFunction, Attributes
<1>11. ASSUME NEW o \in Objects, HeartbeatFunction(o) PROVE Attributes'
  BY <1>11 DEF HeartbeatFunction, Beat, TypeOK, Attributes
<1>12. ASSUME NEW w \in Writers, NEW a \in attrs, NEW v \in Delays, StoreDelay(w, a, v)
       PROVE  Attributes'
  BY <1>12 DEF StoreDelay, TypeOK, Attributes
<1>13. ASSUME NEW w \in Writers, Rearm(w) PROVE Attributes'
  BY <1>13 DEF Rearm, Attributes
<1>14. CASE StoreBrightness
  BY <1>14 DEF StoreBrightness, Attributes
<1> QED
  BY <1>0, <1>1, <1>2, <1>3, <1>4, <1>5, <1>6, <1>7, <1>8, <1>9, <1>10, <1>11, <1>12,
     <1>13, <1>14
     DEF Next, Set, Fire

\* While activate runs no structure is allocated.
LEMMA NothingAllocated ==
    ASSUME TypeOK, Owned, Steps, setPc = "activate"
    PROVE  \A o \in Objects : mem[o].kind = "free"
BY BlinkAssumption DEF Owned, Steps, Allocated

\* One step of any kind preserves the whole invariant.
LEMMA Inductive == IInv /\ [Next]_vars => IInv'
<1> SUFFICES ASSUME IInv, [Next]_vars PROVE IInv'
  OBVIOUS
<1> USE DEF IInv
<1>1. TypeOK'
  BY TypeStep
<1>2. Owned'
  BY <1>1, OwnedStep
<1>3. Steps'
  BY <1>1, StepsStep
<1>4. Attributes'
  BY <1>1, AttributesStep
<1> QED
  BY <1>1, <1>2, <1>3, <1>4

\* No trigger is set at first.
LEMMA Initially == Init => IInv
<1> SUFFICES ASSUME Init PROVE IInv
  OBVIOUS
<1>1. mem \in [Objects -> Objs]
  BY BlankTyped DEF Init
<1>2. TypeOK
  <2>1. storing \in [Writers -> {"idle", "delay_on", "delay_off"}]
    BY DEF Init
  <2>2. storeTo \in [Writers -> Objects \cup {NoObject}]
    BY DEF Init
  <2>3. armed \in SUBSET Objects /\ attrs \in SUBSET {"delay_on", "delay_off"}
    BY DEF Init
  <2>4. /\ trigger \in Kinds \cup {"none"} /\ target \in Kinds \cup {"none"}
        /\ data \in Objects \cup {NoObject} /\ setPc = "idle"
    BY DEF Init
  <2>5. delay \in Int
    BY DEF Init
  <2>6. lit \in BOOLEAN
    BY DEF Init
  <2> QED
    BY <1>1, <2>1, <2>2, <2>3, <2>4, <2>5, <2>6 DEF TypeOK, Objs
<1>3. Owned /\ Steps
  BY DEF Init, Owned, Steps, Allocated, Blank
<1>4. Attributes
  BY DEF Init, Attributes
<1> QED
  BY <1>2, <1>3, <1>4 DEF IInv

\* The invariant holds in every reachable state.
LEMMA Invariance == Spec => []IInv
BY Initially, Inductive, PTL DEF Spec

\* The variables keep their types, whatever the two triggers, their timers and
\* the writers of the attributes do in whatever order.
THEOREM TypesAreRight == Spec => []TypeOK
<1>1. IInv => TypeOK
  BY DEF IInv
<1> QED
  BY <1>1, Invariance, PTL

\* led_delay_on_store and led_delay_off_store: a writer inside an attribute
\* has the address of a timer trigger's structure that stays allocated until
\* the writer has left, although the trigger may be changed meanwhile.
THEOREM AttributesHaveData == Spec => []AttributesOwnData
<1>1. IInv => AttributesOwnData
  BY DEF IInv, Attributes, AttributesOwnData
<1> QED
  BY <1>1, Invariance, PTL

-----------------------------------------------------------------------------
\* Each of the four pauses of a heartbeat is a part of its period: the two
\* short beats fit into the first half.
LEMMA PauseFits ==
    ASSUME HZ >= 100, NEW ph \in 0 .. 3, NEW p \in Periods
    PROVE  Pause(ph, p) \in 0 .. p
<1>1. PICK load \in Loads : p = BeatPeriod(load)
  BY DEF Periods
<1>2. p \in Nat /\ Ticks(70) \in Nat
  BY <1>1, PeriodNat, TicksNat
<1>3. Ticks(70) =< p \div 4
  BY <1>1, QuarterFits
<1> DEFINE t == Ticks(70)
<1>4. t \in Nat /\ t =< p \div 4
  BY <1>2, <1>3
<1>5. Pause(ph, p) = CASE ph \in {0, 2} -> t
                       [] ph = 1        -> p \div 4 - t
                       [] OTHER         -> p - p \div 4 - t
  BY DEF Pause
<1> HIDE DEF t
<1> QED
  BY <1>2, <1>4, <1>5

\* The period of a heartbeat is one that some load gave.
Beating == \A o \in Objects : mem[o].kind = "heartbeat" => mem[o].period \in Periods

\* The period is set at the activation and at the first phase of each beat,
\* and at no other time.
LEMMA BeatingStep ==
    ASSUME IInv, TypeOK', Beating, [Next]_vars
    PROVE  Beating'
<1> USE DEF vars, setVars, writeVars
<1>0. CASE UNCHANGED vars
  BY <1>0 DEF Beating
<1>1. ASSUME NEW t \in Kinds \cup {"none"}, SetTrigger(t) PROVE Beating'
  BY <1>1 DEF SetTrigger, Beating
<1>2. CASE RemoveOn
  BY <1>2 DEF RemoveOn, Beating
<1>3. CASE RemoveOff
  BY <1>3 DEF RemoveOff, Beating
<1>4. CASE Stop
  BY <1>4 DEF Stop, Discard, Free, Blank, TypeOK, Beating
<1>5. CASE Activate
  <2>1. \A o \in Objects : mem[o].kind = "free"
    BY <1>5, NothingAllocated DEF Activate, IInv
  <2>2. CASE UNCHANGED <<data, mem>>
    BY <2>2 DEF Beating
  <2>3. ASSUME NEW n \in Objects, mem' = [mem EXCEPT ![n] = Blank("timer")]
        PROVE  Beating'
    BY <2>3 DEF Beating, Blank
  <2>4. ASSUME NEW n \in Objects, NEW load \in Loads,
               mem' = [mem EXCEPT ![n] = [Blank("heartbeat") EXCEPT
                                !.phase = 1, !.period = BeatPeriod(load)]]
        PROVE  Beating'
    BY <2>4 DEF Beating, Periods
  <2> QED
    BY <1>5, <2>2, <2>3, <2>4 DEF Activate
<1>6. CASE CreateOn
  BY <1>6 DEF CreateOn, Abandon, Free, Blank, TypeOK, Beating
<1>7. CASE CreateOff
  BY <1>7 DEF CreateOff, Beating
<1>8. CASE UndoOn
  BY <1>8 DEF UndoOn, Abandon, Free, Blank, Beating
<1>9. CASE Assign
  BY <1>9 DEF Assign, Beating
<1>10. ASSUME NEW o \in Objects, TimerFunction(o) PROVE Beating'
  BY <1>10 DEF TimerFunction, Beating
<1>11. ASSUME NEW o \in Objects, HeartbeatFunction(o) PROVE Beating'
  <2>1. data \in Objects
    BY <1>11 DEF HeartbeatFunction, TypeOK
  <2>2. mem[data].kind = "heartbeat"
    BY <1>11 DEF HeartbeatFunction, IInv, Owned
  <2> DEFINE ph == mem[data].phase
  <2>3. PICK p \in IF ph = 0 THEN Periods ELSE {mem[data].period} :
           mem' = [mem EXCEPT ![data].period = p, ![data].phase = NextPhase(ph)]
    BY <1>11 DEF HeartbeatFunction, Beat, Periods
  <2>4. p \in Periods
    BY <2>1, <2>2 DEF Beating
  <2> QED
    BY <2>3 DEF Beating, TypeOK
<1>12. ASSUME NEW w \in Writers, NEW a \in attrs, NEW v \in Delays, StoreDelay(w, a, v)
       PROVE  Beating'
  BY <1>12 DEF StoreDelay, TypeOK, Beating
<1>13. ASSUME NEW w \in Writers, Rearm(w) PROVE Beating'
  BY <1>13 DEF Rearm, Beating
<1>14. CASE StoreBrightness
  BY <1>14 DEF StoreBrightness, Beating
<1> QED
  BY <1>0, <1>1, <1>2, <1>3, <1>4, <1>5, <1>6, <1>7, <1>8, <1>9, <1>10, <1>11, <1>12,
     <1>13, <1>14
     DEF Next, Set, Fire

\* The delay handed to mod_timer is computed from the period the structure
\* then holds.
LEMMA PausesStep ==
    ASSUME HZ >= 100, IInv, TypeOK', Beating, Beating', PausesFit, [Next]_vars
    PROVE  PausesFit'
<1> USE DEF vars, setVars, writeVars
<1>0. CASE UNCHANGED vars
  BY <1>0 DEF PausesFit
<1>1. ASSUME NEW t \in Kinds \cup {"none"}, SetTrigger(t) PROVE PausesFit'
  BY <1>1 DEF SetTrigger, PausesFit
<1>2. CASE RemoveOn
  BY <1>2 DEF RemoveOn, PausesFit
<1>3. CASE RemoveOff
  BY <1>3 DEF RemoveOff, PausesFit
<1>4. CASE Stop
  BY <1>4 DEF Stop, Discard, Free, TypeOK, PausesFit
<1>5. CASE Activate
  <2>1. \A o \in Objects : mem[o].kind = "free"
    BY <1>5, NothingAllocated DEF Activate, IInv
  <2>2. CASE UNCHANGED <<data, mem, armed, delay>>
    BY <2>2 DEF PausesFit
  <2>3. ASSUME NEW n \in Objects, mem' = [mem EXCEPT ![n] = Blank("timer")]
        PROVE  PausesFit'
    BY <2>1, <2>3 DEF PausesFit, Blank, TypeOK
  <2>4. ASSUME NEW n \in Objects, NEW load \in Loads,
               mem' = [mem EXCEPT ![n] = [Blank("heartbeat") EXCEPT
                                !.phase = 1, !.period = BeatPeriod(load)]],
               delay' = Pause(0, BeatPeriod(load))
        PROVE  PausesFit'
    <3>1. delay' \in 0 .. BeatPeriod(load)
      BY <2>4, PauseFits DEF Periods
    <3>2. mem'[n].period = BeatPeriod(load)
      BY <2>4 DEF TypeOK
    <3> QED
      BY <2>1, <2>4, <3>1 DEF PausesFit, TypeOK
  <2> QED
    BY <1>5, <2>2, <2>3, <2>4 DEF Activate
<1>6. CASE CreateOn
  BY <1>6 DEF CreateOn, Abandon, Free, Blank, TypeOK, PausesFit
<1>7. CASE CreateOff
  BY <1>7 DEF CreateOff, PausesFit
<1>8. CASE UndoOn
  BY <1>8 DEF UndoOn, Abandon, Free, Blank, PausesFit
<1>9. CASE Assign
  BY <1>9 DEF Assign, PausesFit
<1>10. ASSUME NEW o \in Objects, TimerFunction(o) PROVE PausesFit'
  <2>1. data = o
    BY <1>10 DEF TimerFunction, IInv, Owned
  <2> QED
    BY <1>10, <2>1 DEF TimerFunction, PausesFit
<1>11. ASSUME NEW o \in Objects, HeartbeatFunction(o) PROVE PausesFit'
  <2>1. data \in Objects
    BY <1>11 DEF HeartbeatFunction, TypeOK
  <2>2. mem[data].kind = "heartbeat"
    BY <1>11 DEF HeartbeatFunction, IInv, Owned
  <2> DEFINE ph == mem[data].phase
  <2>3. PICK p \in IF ph = 0 THEN Periods ELSE {mem[data].period} :
           /\ mem' = [mem EXCEPT ![data].period = p, ![data].phase = NextPhase(ph)]
           /\ delay' = Pause(ph, p)
    BY <1>11 DEF HeartbeatFunction, Beat, Periods
  <2>4. p \in Periods /\ ph \in 0 .. 3
    BY <2>1, <2>2 DEF Beating, IInv, TypeOK
  <2>5. delay' \in 0 .. p /\ mem'[data].period = p
    BY <2>3, <2>4, PauseFits DEF TypeOK
  <2>6. \A q \in Objects : q # data => mem'[q] = mem[q]
    BY <2>3 DEF TypeOK
  <2> QED
    BY <2>5, <2>6 DEF PausesFit, IInv, Owned, TypeOK
<1>12. ASSUME NEW w \in Writers, NEW a \in attrs, NEW v \in Delays, StoreDelay(w, a, v)
       PROVE  PausesFit'
  BY <1>12 DEF StoreDelay, TypeOK, PausesFit
<1>13. ASSUME NEW w \in Writers, Rearm(w) PROVE PausesFit'
  <2>1. mem[storeTo[w]].kind = "timer"
    BY <1>13 DEF Rearm, IInv, Attributes
  <2> QED
    BY <1>13, <2>1 DEF Rearm, ModTimer, PausesFit
<1>14. CASE StoreBrightness
  BY <1>14 DEF StoreBrightness, PausesFit
<1> QED
  BY <1>0, <1>1, <1>2, <1>3, <1>4, <1>5, <1>6, <1>7, <1>8, <1>9, <1>10, <1>11, <1>12,
     <1>13, <1>14
     DEF Next, Set, Fire

\* led_heartbeat_function: at every frequency from 100 Hz on (the kernel's
\* choices are 100, 250 and 1000; the board runs at 250) the delay of a
\* pending heartbeat timer is at least nothing and at most its period, for
\* every load average. At lower frequencies 70 ms, rounded up to ticks, may
\* exceed a quarter of a period.
THEOREM PausesAreInAPeriod == ASSUME HZ >= 100 PROVE Spec => []PausesFit
<1>1. Init => Beating /\ PausesFit
  BY DEF Init, Beating, PausesFit, Blank
<1>2. IInv /\ IInv' /\ Beating /\ PausesFit /\ [Next]_vars => Beating' /\ PausesFit'
  BY BeatingStep, PausesStep DEF IInv
<1> QED
  BY <1>1, <1>2, Invariance, PTL DEF Spec

-----------------------------------------------------------------------------
\* No timer is pending before a timer structure has attributes.
Disarmed == setPc \in {"activate", "create_on"} => armed = {}

\* del_timer_sync in deactivate leaves no timer pending. err_out frees without
\* it before a store can have armed one; err_out_delayon may find one, and only
\* then the program is undefined.
LEMMA TimersStep ==
    ASSUME IInv, IInv', TimersOwnData, Disarmed, [Next]_vars
    PROVE  TimersOwnData' /\ Disarmed'
<1> USE DEF vars, setVars, writeVars
<1>0. CASE UNCHANGED vars
  BY <1>0 DEF TimersOwnData, Disarmed
<1>1. ASSUME NEW t \in Kinds \cup {"none"}, SetTrigger(t)
      PROVE  TimersOwnData' /\ Disarmed'
  <2>1. ~ Allocated => armed = {}
    BY <1>1, BlinkAssumption DEF SetTrigger, TimersOwnData, Allocated, IInv, TypeOK
  <2> QED
    BY <1>1, <2>1 DEF SetTrigger, IInv, Steps, TimersOwnData, Disarmed
<1>2. CASE RemoveOn
  BY <1>2 DEF RemoveOn, TimersOwnData, Disarmed
<1>3. CASE RemoveOff
  BY <1>3 DEF RemoveOff, TimersOwnData, Disarmed
<1>4. CASE Stop
  <2>1. armed' = {}
    BY <1>4, BlinkAssumption DEF Stop, Discard, TimersOwnData, IInv, TypeOK
  <2> QED
    BY <1>4, <2>1 DEF Stop, TimersOwnData, Disarmed
<1>5. CASE Activate
  <2>1. armed = {}
    BY <1>5 DEF Activate, Disarmed
  <2>2. CASE UNCHANGED <<data, mem, armed, delay, lit>> /\ setPc' = "assign"
    BY <2>1, <2>2 DEF TimersOwnData, Disarmed
  <2>3. ASSUME NEW n \in Objects, armed' = armed, setPc' = "create_on"
        PROVE  TimersOwnData' /\ Disarmed'
    BY <2>1, <2>3 DEF TimersOwnData, Disarmed
  <2>4. ASSUME NEW n \in Objects, NEW load \in Loads, data' = n, armed' = armed \cup {n},
               mem' = [mem EXCEPT ![n] = [Blank("heartbeat") EXCEPT
                                !.phase = 1, !.period = BeatPeriod(load)]],
               setPc' = "assign"
        PROVE  TimersOwnData' /\ Disarmed'
    <3>1. mem'[n].kind # "free"
      BY <2>4 DEF Blank, IInv, TypeOK
    <3> QED
      BY <2>1, <2>4, <3>1 DEF TimersOwnData, Disarmed
  <2> QED
    BY <1>5, <2>2, <2>3, <2>4 DEF Activate
<1>6. CASE CreateOn
  BY <1>6 DEF CreateOn, TimersOwnData, Disarmed
<1>7. CASE CreateOff
  BY <1>7 DEF CreateOff, TimersOwnData, Disarmed
<1>8. CASE UndoOn
  <2>1. CASE data \in armed
    BY <1>8, <2>1 DEF UndoOn, TimersOwnData, Disarmed
  <2>2. CASE data \notin armed
    <3>1. armed = {}
      BY <1>8, <2>2 DEF UndoOn, TimersOwnData
    <3> QED
      BY <1>8, <3>1 DEF UndoOn, TimersOwnData, Disarmed
  <2> QED
    BY <2>1, <2>2
<1>9. CASE Assign
  BY <1>9 DEF Assign, TimersOwnData, Disarmed
<1>10. ASSUME NEW o \in Objects, TimerFunction(o) PROVE TimersOwnData' /\ Disarmed'
  BY <1>10 DEF TimerFunction, TimersOwnData, Disarmed
<1>11. ASSUME NEW o \in Objects, HeartbeatFunction(o) PROVE TimersOwnData' /\ Disarmed'
  BY <1>11 DEF HeartbeatFunction, Beat, IInv, TypeOK, TimersOwnData, Disarmed
<1>12. ASSUME NEW w \in Writers, NEW a \in attrs, NEW v \in Delays, StoreDelay(w, a, v)
       PROVE  TimersOwnData' /\ Disarmed'
  BY <1>12 DEF StoreDelay, IInv, TypeOK, TimersOwnData, Disarmed
<1>13. ASSUME NEW w \in Writers, Rearm(w) PROVE TimersOwnData' /\ Disarmed'
  BY <1>13 DEF Rearm, ModTimer, IInv, Attributes, TimersOwnData, Disarmed
<1>14. CASE StoreBrightness
  BY <1>14 DEF StoreBrightness, TimersOwnData, Disarmed
<1> QED
  BY <1>0, <1>1, <1>2, <1>3, <1>4, <1>5, <1>6, <1>7, <1>8, <1>9, <1>10, <1>11, <1>12,
     <1>13, <1>14
     DEF Next, Set, Fire

\* A pending timer always belongs to the structure in trigger_data, which is
\* allocated, whatever fails and whoever writes: only err_out_delayon, after a
\* store to delay_on while delay_off was being created, can leave one behind.
THEOREM TimersKeepData == Spec => []TimersOwnData
<1>1. Init => TimersOwnData /\ Disarmed
  BY DEF Init, TimersOwnData, Disarmed
<1>2. IInv /\ IInv' /\ TimersOwnData /\ Disarmed /\ [Next]_vars
         => TimersOwnData' /\ Disarmed'
  BY TimersStep
<1> QED
  BY <1>1, <1>2, Invariance, PTL DEF Spec

-----------------------------------------------------------------------------
\* trigger_data names an allocated structure or none.
Filled ==
    /\ trigger # "none" /\ setPc \in {"idle", "remove_on", "remove_off", "stop"} =>
          data = NoObject \/ Allocated
    /\ setPc = "assign" /\ target # "none" => data = NoObject \/ Allocated

\* Only a failed kzalloc leaves trigger_data as the previous trigger left it.
LEMMA FilledStep ==
    ASSUME "alloc" \notin MayFail, IInv, IInv', Filled, [Next]_vars
    PROVE  Filled'
<1> USE DEF vars, setVars, writeVars
<1>0. CASE UNCHANGED vars
  BY <1>0 DEF Allocated, Filled
<1>1. ASSUME NEW t \in Kinds \cup {"none"}, SetTrigger(t) PROVE Filled'
  BY <1>1 DEF SetTrigger, Allocated, Filled
<1>2. CASE RemoveOn
  BY <1>2 DEF RemoveOn, Allocated, Filled
<1>3. CASE RemoveOff
  BY <1>3 DEF RemoveOff, Allocated, Filled
<1>4. CASE Stop
  BY <1>4 DEF Stop, Filled
<1>5. CASE Activate
  <2>1. CASE setPc' = "create_on" \/ target = "none"
    BY <1>5, <2>1 DEF Activate, Filled
  <2>2. ASSUME NEW n \in Objects, NEW load \in Loads, data' = n,
               mem' = [mem EXCEPT ![n] = [Blank("heartbeat") EXCEPT
                                !.phase = 1, !.period = BeatPeriod(load)]]
        PROVE  Allocated'
    BY <2>2, BlinkAssumption DEF Blank, Allocated, IInv, TypeOK
  <2> QED
    BY <1>5, <2>2 DEF Activate, Filled
<1>6. CASE CreateOn
  BY <1>6 DEF CreateOn, Abandon, Filled
<1>7. CASE CreateOff
  BY <1>7 DEF CreateOff, IInv, Steps, Allocated, Filled
<1>8. CASE UndoOn
  BY <1>8 DEF UndoOn, Abandon, Filled
<1>9. CASE Assign
  BY <1>9 DEF Assign, Allocated, Filled
<1>10. ASSUME NEW o \in Objects, TimerFunction(o) PROVE Filled'
  BY <1>10 DEF TimerFunction, Allocated, Filled
<1>11. ASSUME NEW o \in Objects, HeartbeatFunction(o) PROVE Filled'
  BY <1>11 DEF HeartbeatFunction, Beat, IInv, TypeOK, Allocated, Filled
<1>12. ASSUME NEW w \in Writers, NEW a \in attrs, NEW v \in Delays, StoreDelay(w, a, v)
       PROVE  Filled'
  BY <1>12 DEF StoreDelay, IInv, TypeOK, Allocated, Filled
<1>13. ASSUME NEW w \in Writers, Rearm(w) PROVE Filled'
  BY <1>13 DEF Rearm, Allocated, Filled
<1>14. CASE StoreBrightness
  BY <1>14 DEF StoreBrightness, Allocated, Filled
<1> QED
  BY <1>0, <1>1, <1>2, <1>3, <1>4, <1>5, <1>6, <1>7, <1>8, <1>9, <1>10, <1>11, <1>12,
     <1>13, <1>14
     DEF Next, Set, Fire

\* Where kzalloc does not fail, deactivate never frees a structure that was
\* freed before. When it fails, trigger_data keeps pointing at the previous
\* trigger's structure (ledtrig-timer.c:155).
THEOREM DataIsFreedOnce == ASSUME "alloc" \notin MayFail PROVE Spec => []DataFreedOnce
<1>1. Init => Filled
  BY DEF Init, Filled
<1>2. IInv /\ IInv' /\ Filled /\ [Next]_vars => Filled'
  BY FilledStep
<1>3. IInv /\ Filled => DataFreedOnce
  BY DEF IInv, Steps, Filled, Allocated, DataFreedOnce
<1> QED
  BY <1>1, <1>2, <1>3, Invariance, PTL DEF Spec
=============================================================================
