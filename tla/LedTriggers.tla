---------------------------- MODULE LedTriggers ----------------------------
(***************************************************************************)
(* The LED class and its trigger core: drivers/leds/led-class.c,           *)
(* led-triggers.c, led-core.c and leds.h.                                  *)
(*                                                                         *)
(* LED drivers register and unregister LEDs, trigger modules register and  *)
(* unregister triggers, user space writes the sysfs attribute "trigger",   *)
(* and triggers drive the LEDs attached to them.  Every one of these       *)
(* operations is run by a kernel thread; two global rw semaphores          *)
(* (triggers_list_lock, leds_list_lock) and one per LED (trigger_lock)     *)
(* order them.                                                             *)
(*                                                                         *)
(* Grain of atomicity: the board's kernel is built for one CPU without     *)
(* preemption, so a thread loses the CPU only where it can sleep: at a     *)
(* contended semaphore and in the driver-model calls.  One step of a       *)
(* thread runs from one such place to the next; led_trigger_set is cut     *)
(* finer, because triggers act from interrupts in the middle of it.        *)
(***************************************************************************)
EXTENDS Integers, FiniteSets

CONSTANTS
    Leds,            \* struct led_classdev objects
    Triggers,        \* struct led_trigger objects (their names are unique)
    Threads,         \* kernel threads running the operations
    NoTrigger,       \* the NULL trigger, "none" in sysfs
    NoThread,        \* no owner
    DefaultTrigger,  \* led_cdev->default_trigger of every LED
    Requests,        \* the kinds of operation this instance asks for
    CreateMayFail,   \* device_create_file may run out of memory
    MaxOps           \* bound: operations started in one behaviour

Kinds == {"led_register", "led_unregister", "store", "show",
          "trig_register", "trig_unregister"}

ASSUME NamesAssumption ==
    Leds # {} /\ NoTrigger \notin Triggers /\ NoThread \notin Threads
ASSUME DefaultAssumption == DefaultTrigger \in [Leds -> Triggers \cup {NoTrigger}]
ASSUME RequestAssumption ==
    Requests \subseteq Kinds /\ CreateMayFail \in BOOLEAN /\ MaxOps \in Nat

VARIABLES
    ledState, attrs, \* where each LED is in its life; the attributes it has
    ledsList,        \* leds_list
    trigState,       \* where each trigger is in its life
    triggerList,     \* trigger_list
    trigger,         \* led_cdev->trigger
    ledCdevs,        \* trigger->led_cdevs
    active,          \* triggers whose activate ran on the LED and not deactivate
    litBy,           \* who set the brightness last: "off", "user" or a trigger
    readers,         \* who holds the two list locks for reading
    triggerLock,     \* who holds led_cdev->trigger_lock
    pc, cur, walk,   \* each thread: its step, its LED, the LEDs its walk has ahead
    op, arg,         \* the operation it runs and the trigger it is about
    touched,         \* history: user space asked for a trigger of this LED
    budget           \* operations that may still be started

devVars  == <<ledState, attrs, ledsList, trigState, triggerList>>
bindVars == <<trigger, ledCdevs, active, litBy>>
lockVars == <<readers, triggerLock>>
walkVars == <<cur, walk>>
reqVars  == <<op, arg, touched, budget>>
vars == <<devVars, bindVars, lockVars, pc, walkVars, reqVars>>

TriggersOrNone == Triggers \cup {NoTrigger}
Locks == {"triggers_list_lock", "leds_list_lock"}
SetSteps == {"ts_detach", "ts_deactivate", "ts_attach", "ts_activate", "ts_assign"}
Steps == SetSteps \cup
    {"idle", "reg_create", "reg_list", "reg_file", "lookup", "lock", "release",
     "unreg_files", "unreg_dev", "unreg_list", "trig_list", "walk_start", "walk"}

Init ==
    /\ ledState = [l \in Leds |-> "absent"] /\ attrs = [l \in Leds |-> {}]
    /\ trigState = [t \in Triggers |-> "absent"]
    /\ ledsList = {} /\ triggerList = {}
    /\ trigger = [l \in Leds |-> NoTrigger] /\ ledCdevs = [t \in Triggers |-> {}]
    /\ active = [l \in Leds |-> {}] /\ litBy = [l \in Leds |-> "off"]
    /\ readers = [k \in Locks |-> {}] /\ triggerLock = [l \in Leds |-> NoThread]
    /\ pc = [p \in Threads |-> "idle"] /\ op = [p \in Threads |-> "store"]
    /\ cur = [p \in Threads |-> CHOOSE l \in Leds : TRUE]
    /\ arg = [p \in Threads |-> NoTrigger] /\ walk = [p \in Threads |-> {}]
    /\ touched = [l \in Leds |-> FALSE] /\ budget = MaxOps

-----------------------------------------------------------------------------
\* The semaphores.  A list lock is held for writing only inside one step, so
\* its readers are all the state it needs; a queued writer keeps later readers
\* out, as the kernel's rw semaphores do.
WaitsToWrite(k) ==
    \E p \in Threads : pc[p] \in IF k = "leds_list_lock" THEN {"reg_list", "unreg_list"}
                                                         ELSE {"trig_list"}
MayWrite_Anyway(k) == TRUE   \* mutant: list_add and list_del without the lock
MayWrite(k) == readers[k] = {}
DownRead(k, p) == ~ WaitsToWrite(k) /\ readers' = [readers EXCEPT ![k] = @ \cup {p}]
UpRead(k, p) == readers' = [readers EXCEPT ![k] = @ \ {p}]

At(p, s) == pc[p] = s
Goto(p, s) == pc' = [pc EXCEPT ![p] = s]
SetLed(l, s) == ledState' = [ledState EXCEPT ![l] = s]
SetAttrs(l, s) == attrs' = [attrs EXCEPT ![l] = s]

\* The sysfs core lets no attribute disappear under one of its callbacks.
InAttribute(l) ==
    \E p \in Threads : ~ At(p, "idle") /\ op[p] \in {"store", "show"} /\ cur[p] = l

-----------------------------------------------------------------------------
\* Requests.  A driver registers an LED once and unregisters it after the
\* registration returned; a trigger module does the same with its trigger, and
\* may be loaded again.
Begin(p, kind, l, t, s) ==
    /\ At(p, "idle") /\ kind \in Requests /\ budget > 0
    /\ budget' = budget - 1
    /\ op' = [op EXCEPT ![p] = kind] /\ arg' = [arg EXCEPT ![p] = t]
    /\ cur' = [cur EXCEPT ![p] = l]
    /\ Goto(p, s)
    /\ UNCHANGED <<attrs, ledsList, triggerList, bindVars, lockVars, walk>>

BeginLedRegister(p, l) ==
    /\ ledState[l] = "absent" /\ SetLed(l, "registering")
    /\ Begin(p, "led_register", l, DefaultTrigger[l], "reg_create")
    /\ UNCHANGED <<trigState, touched>>

BeginLedUnregister(p, l) ==
    /\ ledState[l] = "registered" /\ SetLed(l, "unregistering")
    /\ Begin(p, "led_unregister", l, NoTrigger, "unreg_files")
    /\ UNCHANGED <<trigState, touched>>

\* led_trigger_store: "none" needs no look at trigger_list.
BeginStore(p, l, t) ==
    /\ "trigger" \in attrs[l]
    /\ Begin(p, "store", l, t, IF t = NoTrigger THEN "lock" ELSE "lookup")
    /\ touched' = [touched EXCEPT ![l] = TRUE]
    /\ UNCHANGED <<ledState, trigState>>

BeginShow(p, l) ==
    /\ "trigger" \in attrs[l]
    /\ Begin(p, "show", l, NoTrigger, "lookup")
    /\ UNCHANGED <<ledState, trigState, touched>>

BeginTrigRegister(p, t) ==
    /\ trigState[t] = "absent"
    /\ trigState' = [trigState EXCEPT ![t] = "registering"]
    /\ Begin(p, "trig_register", cur[p], t, "trig_list")
    /\ UNCHANGED <<ledState, touched>>

BeginTrigUnregister(p, t) ==
    /\ trigState[t] = "registered"
    /\ trigState' = [trigState EXCEPT ![t] = "unregistering"]
    /\ Begin(p, "trig_unregister", cur[p], t, "trig_list")
    /\ UNCHANGED <<ledState, touched>>

-----------------------------------------------------------------------------
\* led_classdev_register: device_create and the brightness attribute, which
\* leave nothing behind when they fail.
RegCreate(p) ==
    /\ At(p, "reg_create")
    /\ \/ SetAttrs(cur[p], {"brightness"}) /\ Goto(p, "reg_list") /\ UNCHANGED ledState
       \/ CreateMayFail /\ SetLed(cur[p], "absent") /\ Goto(p, "idle") /\ UNCHANGED attrs
    /\ UNCHANGED <<ledsList, lockVars>>

\* list_add_tail under leds_list_lock, then init_rwsem(&trigger_lock).
RegList(p) ==
    /\ At(p, "reg_list") /\ MayWrite("leds_list_lock")
    /\ ledsList' = ledsList \cup {cur[p]}
    /\ triggerLock' = [triggerLock EXCEPT ![cur[p]] = NoThread]
    /\ Goto(p, "reg_file")
    /\ UNCHANGED <<ledState, attrs, readers>>

\* The trigger attribute, then led_trigger_set_default if there is a default;
\* the error path takes the LED off leds_list without leds_list_lock.
RegFile(p) ==
    /\ At(p, "reg_file")
    /\ \/ /\ SetAttrs(cur[p], {"brightness", "trigger"})
          /\ IF arg[p] = NoTrigger THEN SetLed(cur[p], "registered") /\ Goto(p, "idle")
                                   ELSE UNCHANGED ledState /\ Goto(p, "lookup")
          /\ UNCHANGED ledsList
       \/ /\ CreateMayFail
          /\ SetAttrs(cur[p], {}) /\ SetLed(cur[p], "failed")
          /\ ledsList' = ledsList \ {cur[p]}
          /\ Goto(p, "idle")
    /\ UNCHANGED lockVars

\* __led_classdev_unregister, around the release of the LED's trigger.
UnregFiles(p) ==
    /\ At(p, "unreg_files") /\ ~ InAttribute(cur[p])
    /\ SetAttrs(cur[p], {}) /\ Goto(p, "lock")
    /\ UNCHANGED <<ledState, ledsList, lockVars>>

UnregDevice(p) ==
    /\ At(p, "unreg_dev") /\ Goto(p, "unreg_list")
    /\ UNCHANGED <<ledState, attrs, ledsList, lockVars>>

UnregList(p) ==
    /\ At(p, "unreg_list") /\ MayWrite("leds_list_lock")
    /\ ledsList' = ledsList \ {cur[p]}
    /\ SetLed(cur[p], "gone") /\ Goto(p, "idle")
    /\ UNCHANGED <<attrs, lockVars>>

LedSteps(p) ==
    /\ \/ RegCreate(p) \/ RegList(p) \/ RegFile(p)
       \/ UnregFiles(p) \/ UnregDevice(p) \/ UnregList(p)
    /\ UNCHANGED <<trigState, triggerList, bindVars, walkVars, reqVars>>

-----------------------------------------------------------------------------
\* led_trigger_register and led_trigger_unregister change trigger_list and walk
\* leds_list under its read lock.
TrigList(p) ==
    /\ At(p, "trig_list") /\ MayWrite("triggers_list_lock")
    /\ triggerList' = IF op[p] = "trig_register" THEN triggerList \cup {arg[p]}
                                                 ELSE triggerList \ {arg[p]}
    /\ Goto(p, "walk_start")
    /\ UNCHANGED <<trigState, readers, walkVars>>

WalkStart(p) ==
    /\ At(p, "walk_start") /\ DownRead("leds_list_lock", p)
    /\ walk' = [walk EXCEPT ![p] = ledsList]
    /\ Goto(p, "walk")
    /\ UNCHANGED <<trigState, triggerList, cur>>

WalkNext(p) ==
    /\ At(p, "walk") /\ Goto(p, "lock")
    /\ \E l \in walk[p] : /\ cur' = [cur EXCEPT ![p] = l]
                          /\ walk' = [walk EXCEPT ![p] = @ \ {l}]
    /\ UNCHANGED <<trigState, triggerList, readers>>

WalkEnd(p) ==
    /\ At(p, "walk") /\ walk[p] = {} /\ UpRead("leds_list_lock", p)
    /\ trigState' = [trigState EXCEPT ![arg[p]] =
                        IF op[p] = "trig_register" THEN "registered" ELSE "absent"]
    /\ Goto(p, "idle")
    /\ UNCHANGED <<triggerList, walkVars>>

TrigSteps(p) ==
    /\ TrigList(p) \/ WalkStart(p) \/ WalkNext(p) \/ WalkEnd(p)
    /\ UNCHANGED <<ledState, attrs, ledsList, bindVars, triggerLock, reqVars>>

-----------------------------------------------------------------------------
Lookup_DropsLock(p) ==       \* mutant: triggers_list_lock is not kept for the rest
    /\ At(p, "lookup") /\ ~ WaitsToWrite("triggers_list_lock")
    /\ Goto(p, IF op[p] = "store" /\ arg[p] \notin triggerList THEN "idle" ELSE "lock")
    /\ UNCHANGED <<ledState, lockVars>>

Lookup_Leaks(p) ==           \* mutant: no up_read before -EINVAL
    /\ At(p, "lookup") /\ DownRead("triggers_list_lock", p)
    /\ Goto(p, IF op[p] = "store" /\ arg[p] \notin triggerList THEN "idle" ELSE "lock")
    /\ UNCHANGED <<ledState, triggerLock>>

\* down_read(&triggers_list_lock) in led_trigger_store, led_trigger_show and
\* led_trigger_set_default; an unknown name is refused at once.
Lookup(p) ==
    /\ At(p, "lookup")
    /\ IF op[p] = "store" /\ arg[p] \notin triggerList
       THEN ~ WaitsToWrite("triggers_list_lock") /\ UNCHANGED readers /\ Goto(p, "idle")
       ELSE DownRead("triggers_list_lock", p) /\ Goto(p, "lock")
    /\ UNCHANGED <<ledState, triggerLock>>

CallsDefault_Never(p) == FALSE   \* mutant: no led_trigger_set_default
CallsDefault(p) == arg[p] \in triggerList

\* Whether the operation, once it has the LED's lock, calls led_trigger_set.
CallsSet(p) ==
    LET old == trigger[cur[p]] IN
    CASE op[p] = "store"           -> TRUE
      [] op[p] = "show"            -> FALSE
      [] op[p] = "led_register"    -> CallsDefault(p)
      [] op[p] = "led_unregister"  -> old # NoTrigger
      [] op[p] = "trig_register"   -> old = NoTrigger /\ DefaultTrigger[cur[p]] = arg[p]
      [] op[p] = "trig_unregister" -> old = arg[p]

\* The trigger argument of that call.
Target(p) == IF op[p] = "trig_unregister" THEN NoTrigger ELSE arg[p]

\* down_write(&trigger_lock); led_trigger_show, which only reads, is alike.
Lock(p) ==
    /\ At(p, "lock") /\ triggerLock[cur[p]] = NoThread
    /\ triggerLock' = [triggerLock EXCEPT ![cur[p]] = p]
    /\ Goto(p, IF CallsSet(p) THEN "ts_detach" ELSE "release")
    /\ UNCHANGED <<ledState, readers>>

\* up_write(&trigger_lock), and up_read(&triggers_list_lock) where it is held.
Release(p) ==
    /\ At(p, "release")
    /\ triggerLock' = [triggerLock EXCEPT ![cur[p]] = NoThread]
    /\ UpRead("triggers_list_lock", p)
    /\ Goto(p, IF op[p] = "led_unregister" THEN "unreg_dev"
               ELSE IF op[p] \in {"trig_register", "trig_unregister"} THEN "walk" ELSE "idle")
    /\ IF op[p] = "led_register" THEN SetLed(cur[p], "registered") ELSE UNCHANGED ledState

LockSteps(p) ==
    /\ Lookup(p) \/ Lock(p) \/ Release(p)
    /\ UNCHANGED <<attrs, ledsList, trigState, triggerList, bindVars, walkVars, reqVars>>

-----------------------------------------------------------------------------
\* led_trigger_set: list_del(&led_cdev->trig_list) from the old trigger's list ...
Unlink_Missing(t, l) == UNCHANGED ledCdevs   \* mutant: no list_del
Unlink(t, l) == ledCdevs' = [ledCdevs EXCEPT ![t] = @ \ {l}]

TsDetach(p) ==
    /\ At(p, "ts_detach")
    /\ LET old == trigger[cur[p]] IN
       IF old = NoTrigger THEN UNCHANGED ledCdevs /\ Goto(p, "ts_attach")
                          ELSE Unlink(old, cur[p]) /\ Goto(p, "ts_deactivate")
    /\ UNCHANGED <<trigger, active, litBy>>

\* ... deactivate, and then LED_OFF ...
TurnOff_Missing(l) == UNCHANGED litBy        \* mutant: no LED_OFF
TurnOff(l) == litBy' = [litBy EXCEPT ![l] = "off"]

TsDeactivate(p) ==
    /\ At(p, "ts_deactivate") /\ Goto(p, "ts_attach")
    /\ active' = [active EXCEPT ![cur[p]] = @ \ {trigger[cur[p]]}]
    /\ TurnOff(cur[p])
    /\ UNCHANGED <<trigger, ledCdevs>>

\* ... list_add_tail to the new trigger's list ...
TsAttach_Unchecked(p) ==     \* mutant: the NULL trigger is activated, too
    /\ At(p, "ts_attach") /\ Goto(p, "ts_activate")
    /\ ledCdevs' = [ledCdevs EXCEPT ![Target(p)] = @ \cup {cur[p]}]
    /\ UNCHANGED <<trigger, active, litBy>>

TsAttach(p) ==
    /\ At(p, "ts_attach")
    /\ IF Target(p) = NoTrigger
       THEN UNCHANGED ledCdevs /\ Goto(p, "ts_assign")
       ELSE /\ ledCdevs' = [ledCdevs EXCEPT ![Target(p)] = @ \cup {cur[p]}]
            /\ Goto(p, "ts_activate")
    /\ UNCHANGED <<trigger, active, litBy>>

\* ... activate, and last the assignment to led_cdev->trigger.
TsActivate(p) ==
    /\ At(p, "ts_activate") /\ Goto(p, "ts_assign")
    /\ active' = [active EXCEPT ![cur[p]] = @ \cup {Target(p)}]
    /\ UNCHANGED <<trigger, ledCdevs, litBy>>

TsAssign(p) ==
    /\ At(p, "ts_assign") /\ Goto(p, "release")
    /\ trigger' = [trigger EXCEPT ![cur[p]] = Target(p)]
    /\ UNCHANGED <<ledCdevs, active, litBy>>

LedTriggerSet(p) ==
    /\ TsDetach(p) \/ TsDeactivate(p) \/ TsAttach(p) \/ TsActivate(p) \/ TsAssign(p)
    /\ UNCHANGED <<devVars, lockVars, walkVars, reqVars>>

-----------------------------------------------------------------------------
\* Brightness.  led_trigger_event drives every LED on the trigger's list; an
\* activated trigger also drives its LED directly, from a timer; user space
\* writes the attribute "brightness".
TriggerEvent(t) ==
    /\ trigState[t] # "absent"
    /\ \E lit \in {"off", t} :
          litBy' = [l \in Leds |-> IF l \in ledCdevs[t] THEN lit ELSE litBy[l]]

ActiveTrigger(l) == \E t \in active[l] : litBy' = [litBy EXCEPT ![l] = t]

StoreBrightness(l) ==
    /\ "brightness" \in attrs[l]
    /\ \E by \in {"off", "user"} : litBy' = [litBy EXCEPT ![l] = by]

Brightness ==
    /\ \/ \E t \in Triggers : TriggerEvent(t)
       \/ \E l \in Leds : ActiveTrigger(l) \/ StoreBrightness(l)
    /\ UNCHANGED <<devVars, trigger, ledCdevs, active, lockVars, pc, walkVars, reqVars>>

Start(p) ==
    \/ \E l \in Leds : \/ BeginLedRegister(p, l) \/ BeginLedUnregister(p, l)
                       \/ BeginShow(p, l) \/ \E t \in TriggersOrNone : BeginStore(p, l, t)
    \/ \E t \in Triggers : BeginTrigRegister(p, t) \/ BeginTrigUnregister(p, t)

Continue(p) == LedSteps(p) \/ TrigSteps(p) \/ LockSteps(p) \/ LedTriggerSet(p)

Next == (\E p \in Threads : Start(p) \/ Continue(p)) \/ Brightness

\* The scheduler runs every runnable thread; nobody has to ask for anything.
Fairness == \A p \in Threads : WF_vars(Continue(p))

Spec == Init /\ [][Next]_vars
FairSpec == Spec /\ Fairness

-----------------------------------------------------------------------------
TypeOK ==
    /\ ledState \in [Leds -> {"absent", "registering", "registered",
                              "unregistering", "gone", "failed"}]
    /\ attrs \in [Leds -> SUBSET {"brightness", "trigger"}] /\ ledsList \in SUBSET Leds
    /\ trigState \in [Triggers -> {"absent", "registering", "registered", "unregistering"}]
    /\ triggerList \in SUBSET Triggers
    /\ trigger \in [Leds -> TriggersOrNone] /\ ledCdevs \in [Triggers -> SUBSET Leds]
    /\ active \in [Leds -> SUBSET Triggers] /\ litBy \in [Leds -> {"off", "user"} \cup Triggers]
    /\ readers \in [Locks -> SUBSET Threads]
    /\ triggerLock \in [Leds -> Threads \cup {NoThread}]
    /\ pc \in [Threads -> Steps] /\ cur \in [Threads -> Leds]
    /\ walk \in [Threads -> SUBSET Leds]
    /\ op \in [Threads -> Kinds] /\ arg \in [Threads -> TriggersOrNone]
    /\ touched \in [Leds -> BOOLEAN] /\ budget \in 0 .. MaxOps

OnLists(l) == {t \in Triggers : l \in ledCdevs[t]}
Own(l) == {trigger[l]} \ {NoTrigger}

\* While nobody holds an LED's trigger_lock, its trigger pointer, the lists it
\* hangs on and the activated triggers agree: it is on exactly the list of its
\* trigger, activated exactly for it (led_trigger_set as a whole).
AttachmentConsistent ==
    \A l \in Leds : triggerLock[l] = NoThread => OnLists(l) = Own(l) /\ active[l] = Own(l)

\* A trigger's light does not outlive the trigger: outside led_trigger_set an
\* LED was last driven by its own trigger, by the user, or is off.
LitByOwnTrigger ==
    \A l \in Leds : triggerLock[l] = NoThread => litBy[l] \in {"off", "user", trigger[l]}

\* What led_trigger_set, cut in five steps and run by anyone, amounts to: an LED
\* is bound to the trigger whose list it is on or which is activated for it, and
\* bound to one at a time; it is dark when its trigger lets it go, and only the
\* trigger it is bound to and user space ever change its light.
Drivers(l) == OnLists(l) \cup active[l]
Only(S) == IF S = {} THEN NoTrigger ELSE CHOOSE t \in S : TRUE
bound == [l \in Leds |-> Only(Drivers(l))]

Binding == INSTANCE LedBinding WITH light <- litBy
ImplementsBinding == Binding!Spec

\* Once led_trigger_unregister has returned, no registered LED uses the
\* trigger, whatever stores and registrations ran beside it.
RegisteredLedsLeaveTrigger ==
    \A l \in Leds, t \in Triggers :
        ledState[l] = "registered" /\ trigState[t] = "absent" =>
            trigger[l] # t /\ l \notin ledCdevs[t]

\* The comment in led_trigger_unregister: "Remove anyone actively using this
\* trigger".  After it nobody is on the trigger's list.
NobodyUsesUnregistered ==
    \A t \in Triggers : trigState[t] = "absent" => ledCdevs[t] = {}

\* Neither order of registering an LED and its default trigger, nor any
\* interleaving of the two, loses the default: led_classdev_register adds the
\* LED before it looks for the trigger, led_trigger_register the reverse.
DefaultTriggerHonoured ==
    \A l \in Leds :
        LET d == DefaultTrigger[l] IN
        ledState[l] = "registered" /\ ~ touched[l]
            /\ (d # NoTrigger => trigState[d] = "registered")
        => trigger[l] = d

\* A walk over leds_list never stands on an LED that has been unregistered, nor
\* has one ahead: its read lock keeps __led_classdev_unregister from list_del.
WalkersOnList ==
    \A p \in readers["leds_list_lock"] :
        /\ \A l \in walk[p] : ledState[l] # "gone"
        /\ pc[p] # "walk" => ledState[cur[p]] # "gone"

\* No deadlock among the semaphores and the removal of attributes: every
\* operation that was started returns.
OperationsReturn == \A p \in Threads : pc[p] # "idle" ~> pc[p] = "idle"
=============================================================================
