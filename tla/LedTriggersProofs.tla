------------------------- MODULE LedTriggersProofs -------------------------
(***************************************************************************)
(* Proofs about LedTriggers, for any LEDs, triggers, threads, default      *)
(* triggers and number of operations.                                      *)
(*                                                                         *)
(* AttachmentConsistent and LitByOwnTrigger say nothing of an LED whose    *)
(* trigger_lock is held.  The inductive invariant adds                     *)
(*   Holders     who holds which trigger_lock, so that two threads are     *)
(*               never inside led_trigger_set for one LED;                 *)
(*   Halfway     how far led_trigger_set has got, at each of its steps;    *)
(*   NewLeds     nobody can reach an LED that is not on leds_list yet, so  *)
(*               the init_rwsem of led_classdev_register takes the lock    *)
(*               from nobody.                                              *)
(***************************************************************************)
EXTENDS LedTriggers, TLAPS

Held == SetSteps \cup {"release"}
\* The steps at which a thread works on cur[p], an LED that others know of.
Using == Held \cup {"reg_file", "lookup", "lock", "unreg_files", "unreg_dev", "unreg_list"}
Creating == {"reg_create", "reg_list"}

Holders == \A l \in Leds, p \in Threads :
    triggerLock[l] = p <=> pc[p] \in Held /\ cur[p] = l

Unreachable(l) ==
    /\ l \notin ledsList /\ "trigger" \notin attrs[l]
    /\ \A q \in Threads : l \notin walk[q] /\ (pc[q] \in Using => cur[q] # l)

NewLeds ==
    /\ \A l \in Leds : ledState[l] = "absent" =>
           Unreachable(l) /\ \A q \in Threads : pc[q] \in Creating => cur[q] # l
    /\ \A p \in Threads : pc[p] \in Creating =>
           /\ ledState[cur[p]] = "registering" /\ Unreachable(cur[p])
           /\ \A q \in Threads : q # p /\ pc[q] \in Creating => cur[q] # cur[p]

\* An LED at rest, detached from its lists, off them and inactive, on its new
\* list, and there with the new trigger activated.
Settled(l) ==
    OnLists(l) = Own(l) /\ active[l] = Own(l) /\ litBy[l] \in {"off", "user", trigger[l]}
Unlinked(l) ==
    /\ trigger[l] # NoTrigger /\ OnLists(l) = {} /\ active[l] = Own(l)
    /\ litBy[l] \in {"off", "user", trigger[l]}
Loose(l) ==
    OnLists(l) = {} /\ active[l] = {} /\ litBy[l] \in {"off", "user"}
Linked(l, t) ==
    /\ t # NoTrigger /\ OnLists(l) = {t} /\ active[l] = {}
    /\ litBy[l] \in {"off", "user", t}
Bound(l, t) ==
    /\ OnLists(l) = {t} \ {NoTrigger} /\ active[l] = {t} \ {NoTrigger}
    /\ litBy[l] \in {"off", "user", t}

HalfwayOf(p) ==
    /\ At(p, "ts_detach")     => Settled(cur[p])
    /\ At(p, "ts_deactivate") => Unlinked(cur[p])
    /\ At(p, "ts_attach")     => Loose(cur[p])
    /\ At(p, "ts_activate")   => Linked(cur[p], Target(p))
    /\ At(p, "ts_assign")     => Bound(cur[p], Target(p))
    /\ At(p, "release")       => Settled(cur[p])

Halfway ==
    /\ \A l \in Leds : triggerLock[l] = NoThread => Settled(l)
    /\ \A p \in Threads : HalfwayOf(p)

\* led_trigger_register and led_trigger_unregister are about a trigger.
RealTriggers == \A p \in Threads :
    op[p] \in {"trig_register", "trig_unregister"} => arg[p] \in Triggers

IInv == TypeOK /\ RealTriggers /\ Holders /\ NewLeds /\ Halfway

-----------------------------------------------------------------------------
\* Requests, the steps of an operation and the brightness keep the types.
LEMMA TypeBegin ==
    ASSUME TypeOK, NEW p \in Threads, NEW kind \in Kinds, NEW l \in Leds,
           NEW t \in TriggersOrNone, NEW s \in Steps, Begin(p, kind, l, t, s),
           ledState' \in [Leds -> {"absent", "registering", "registered",
                                   "unregistering", "gone", "failed"}],
           trigState' \in [Triggers -> {"absent", "registering", "registered",
                                        "unregistering"}],
           touched' \in [Leds -> BOOLEAN]
    PROVE  TypeOK'
<1>1. pc' \in [Threads -> Steps]
    BY DEF TypeOK, Begin, Goto
<1>2. /\ op' \in [Threads -> Kinds] /\ arg' \in [Threads -> TriggersOrNone]
      /\ cur' \in [Threads -> Leds] /\ walk' \in [Threads -> SUBSET Leds]
    BY DEF TypeOK, Begin
<1>3. budget' \in 0 .. MaxOps
    BY RequestAssumption DEF TypeOK, Begin
<1>4. UNCHANGED <<attrs, ledsList, triggerList, bindVars, lockVars>>
    BY DEF Begin
<1> QED
    BY <1>1, <1>2, <1>3, <1>4 DEF TypeOK, bindVars, lockVars

\* Types: the calls that start.
LEMMA TypeStart ==
    ASSUME TypeOK, NEW p \in Threads, Start(p) PROVE TypeOK'
<1> USE DEF Kinds, Steps, TriggersOrNone
<1>1. ASSUME NEW l \in Leds, BeginLedRegister(p, l) PROVE TypeOK'
  <2>1. Begin(p, "led_register", l, DefaultTrigger[l], "reg_create")
    BY <1>1 DEF BeginLedRegister
  <2> QED
    BY <1>1, <2>1, TypeBegin, DefaultAssumption DEF BeginLedRegister, SetLed, TypeOK
<1>2. ASSUME NEW l \in Leds, BeginLedUnregister(p, l) PROVE TypeOK'
  <2>1. Begin(p, "led_unregister", l, NoTrigger, "unreg_files")
    BY <1>2 DEF BeginLedUnregister
  <2> QED
    BY <1>2, <2>1, TypeBegin DEF BeginLedUnregister, SetLed, TypeOK
<1>3. ASSUME NEW l \in Leds, BeginShow(p, l) PROVE TypeOK'
  <2>1. Begin(p, "show", l, NoTrigger, "lookup")
    BY <1>3 DEF BeginShow
  <2> QED
    BY <1>3, <2>1, TypeBegin DEF BeginShow, TypeOK
<1>4. ASSUME NEW l \in Leds, NEW t \in TriggersOrNone, BeginStore(p, l, t) PROVE TypeOK'
  <2>1. PICK s \in {"lock", "lookup"} : Begin(p, "store", l, t, s)
    BY <1>4 DEF BeginStore
  <2> QED
    BY <1>4, <2>1, TypeBegin DEF BeginStore, TypeOK
<1>5. ASSUME NEW t \in Triggers, BeginTrigRegister(p, t) PROVE TypeOK'
  <2>1. Begin(p, "trig_register", cur[p], t, "trig_list") /\ cur[p] \in Leds
    BY <1>5 DEF BeginTrigRegister, TypeOK
  <2> QED
    BY <1>5, <2>1, TypeBegin DEF BeginTrigRegister, TypeOK
<1>6. ASSUME NEW t \in Triggers, BeginTrigUnregister(p, t) PROVE TypeOK'
  <2>1. Begin(p, "trig_unregister", cur[p], t, "trig_list") /\ cur[p] \in Leds
    BY <1>6 DEF BeginTrigUnregister, TypeOK
  <2> QED
    BY <1>6, <2>1, TypeBegin DEF BeginTrigUnregister, TypeOK
<1> QED
    BY <1>1, <1>2, <1>3, <1>4, <1>5, <1>6 DEF Start

\* The last step of led_classdev_register's own, with or without the attribute.
LEMMA RegFileFrame ==
    ASSUME TypeOK, NEW p \in Threads, LedSteps(p), RegFile(p)
    PROVE  /\ pc[p] = "reg_file" /\ \E s \in {"idle", "lookup"} : pc' = [pc EXCEPT ![p] = s]
           /\ \E s \in {"registered", ledState[cur[p]], "failed"} :
                 ledState' = [ledState EXCEPT ![cur[p]] = s]
           /\ \E s \in {{"brightness", "trigger"}, {}} :
                 attrs' = [attrs EXCEPT ![cur[p]] = s]
           /\ ledsList' \in {ledsList, ledsList \ {cur[p]}}
           /\ UNCHANGED <<lockVars, trigState, triggerList, bindVars, walkVars, reqVars>>
<1>1. UNCHANGED <<lockVars, trigState, triggerList, bindVars, walkVars, reqVars>>
    BY DEF LedSteps, RegFile
<1>2. pc[p] = "reg_file" /\ ledsList' \in {ledsList, ledsList \ {cur[p]}}
    BY DEF RegFile, At
<1>3. \E s \in {"idle", "lookup"} : pc' = [pc EXCEPT ![p] = s]
    BY DEF RegFile, Goto
<1>4. \E s \in {{"brightness", "trigger"}, {}} : attrs' = [attrs EXCEPT ![cur[p]] = s]
    BY DEF RegFile, SetAttrs
<1>5. \E s \in {"registered", ledState[cur[p]], "failed"} :
         ledState' = [ledState EXCEPT ![cur[p]] = s]
    BY DEF RegFile, SetLed, TypeOK
<1> QED
    BY <1>1, <1>2, <1>3, <1>4, <1>5

\* Types: the steps that continue a call.
LEMMA TypeContinue ==
    ASSUME TypeOK, RealTriggers, Halfway, NEW p \in Threads, Continue(p) PROVE TypeOK'
<1> USE DEF TypeOK, Goto, SetLed, SetAttrs, At, Steps, Locks
<1>1. ASSUME LedSteps(p) PROVE TypeOK'
  <2>1. ledState' \in [Leds -> {"absent", "registering", "registered",
                                "unregistering", "gone", "failed"}]
    BY <1>1 DEF LedSteps, RegCreate, RegList, RegFile, UnregFiles, UnregDevice, UnregList
  <2>2. attrs' \in [Leds -> SUBSET {"brightness", "trigger"}] /\ ledsList' \in SUBSET Leds
    BY <1>1 DEF LedSteps, RegCreate, RegList, RegFile, UnregFiles, UnregDevice, UnregList
  <2>3. pc' \in [Threads -> Steps]
    BY <1>1 DEF LedSteps, RegCreate, RegList, RegFile, UnregFiles, UnregDevice, UnregList
  <2>4. /\ triggerLock' \in [Leds -> Threads \cup {NoThread}] /\ UNCHANGED readers
    BY <1>1 DEF LedSteps, RegCreate, RegList, RegFile, UnregFiles, UnregDevice, UnregList,
       lockVars
  <2>5. UNCHANGED <<trigState, triggerList, bindVars, walkVars, reqVars>>
    BY <1>1 DEF LedSteps
  <2> QED
    BY <2>1, <2>2, <2>3, <2>4, <2>5 DEF bindVars, walkVars, reqVars
<1>2. ASSUME TrigSteps(p) PROVE TypeOK'
  <2> USE <1>2 DEF TrigSteps, bindVars, walkVars, reqVars, DownRead, UpRead
  <2>1. CASE TrigList(p)
    <3>1. triggerList' \in SUBSET Triggers
      <4>1. CASE op[p] = "trig_register"
        BY <2>1, <4>1 DEF TrigList, RealTriggers
      <4>2. CASE op[p] # "trig_register"
        BY <2>1, <4>2 DEF TrigList
      <4> QED
        BY <4>1, <4>2
    <3> QED
      BY <2>1, <3>1 DEF TrigList
  <2>2. CASE WalkStart(p)
    BY <2>2 DEF WalkStart
  <2>3. CASE WalkNext(p)
    BY <2>3 DEF WalkNext
  <2>4. CASE WalkEnd(p)
    BY <2>4 DEF WalkEnd
  <2> QED
    BY <2>1, <2>2, <2>3, <2>4
<1>3. ASSUME LockSteps(p) PROVE TypeOK'
  <2> USE <1>3 DEF LockSteps, bindVars, lockVars, walkVars, reqVars, DownRead, UpRead
  <2>1. CASE Lookup(p)
    BY <2>1 DEF Lookup
  <2>2. CASE Lock(p)
    BY <2>2 DEF Lock, SetSteps
  <2>3. CASE Release(p)
    BY <2>3 DEF Release
  <2> QED
    BY <2>1, <2>2, <2>3
<1>4. ASSUME LedTriggerSet(p) PROVE TypeOK'
  <2> USE <1>4 DEF LedTriggerSet, devVars, lockVars, walkVars, reqVars, SetSteps,
                   TriggersOrNone
  <2>1. CASE TsDetach(p)
    BY <2>1 DEF TsDetach, Unlink
  <2>2. CASE TsDeactivate(p)
    BY <2>2 DEF TsDeactivate, TurnOff
  <2>3. CASE TsAttach(p)
    BY <2>3 DEF TsAttach
  <2>4. CASE TsActivate(p)
    <3>1. Target(p) \in Triggers
      BY <2>4 DEF TsActivate, Halfway, HalfwayOf, Linked, Target
    <3> QED
      BY <2>4, <3>1 DEF TsActivate
  <2>5. CASE TsAssign(p)
    BY <2>5 DEF TsAssign, Target
  <2> QED
    BY <2>1, <2>2, <2>3, <2>4, <2>5
<1> QED
    BY <1>1, <1>2, <1>3, <1>4 DEF Continue

\* Types: the steps that set a brightness.
LEMMA TypeBrightness ==
    ASSUME TypeOK, Brightness PROVE TypeOK'
<1>1. litBy' \in [Leds -> {"off", "user"} \cup Triggers]
    BY DEF Brightness, TriggerEvent, ActiveTrigger, StoreBrightness, TypeOK
<1> QED
    BY <1>1 DEF Brightness, TypeOK, devVars, lockVars, walkVars, reqVars

-----------------------------------------------------------------------------
\* What the steps do, by group, to the variables the invariant is about.
LEMMA StartFrame ==
    ASSUME TypeOK, NEW p \in Threads, Start(p)
    PROVE  /\ UNCHANGED <<attrs, ledsList, bindVars, lockVars, walk>>
           /\ pc[p] = "idle" /\ pc' = [pc EXCEPT ![p] = pc'[p]]
           /\ cur' = [cur EXCEPT ![p] = cur'[p]]
           /\ op' = [op EXCEPT ![p] = op'[p]] /\ arg' = [arg EXCEPT ![p] = arg'[p]]
           /\ pc'[p] \in {"reg_create", "unreg_files", "lock", "lookup", "trig_list"}
<1> USE DEF TypeOK, Begin, Goto, At
<1> QED
    BY DEF Start, BeginLedRegister, BeginLedUnregister, BeginShow, BeginStore,
       BeginTrigRegister, BeginTrigUnregister

\* Registration and unregistration are always about a trigger.
LEMMA RealTriggersStep ==
    ASSUME TypeOK, RealTriggers, [Next]_vars PROVE RealTriggers'
<1>1. ASSUME NEW p \in Threads, Start(p) PROVE RealTriggers'
    BY <1>1 DEF Start, Begin, BeginLedRegister, BeginLedUnregister, BeginShow, BeginStore,
       BeginTrigRegister, BeginTrigUnregister, RealTriggers, TypeOK
<1>2. ASSUME NEW p \in Threads, Continue(p) PROVE UNCHANGED <<op, arg>>
    BY <1>2 DEF Continue, LedSteps, TrigSteps, LockSteps, LedTriggerSet, reqVars
<1>3. CASE UNCHANGED <<op, arg>>
    BY <1>3 DEF RealTriggers
<1> QED
    BY <1>1, <1>2, <1>3 DEF Next, Brightness, reqVars, vars

-----------------------------------------------------------------------------
\* trigger_lock: taken by Lock, kept through led_trigger_set, given by Release.
LEMMA HoldersStep ==
    ASSUME TypeOK, Holders, NewLeds, [Next]_vars PROVE Holders'
<1> USE DEF TypeOK, Holders, Held, SetSteps, Goto, At
<1>1. ASSUME NEW p \in Threads, Start(p) PROVE Holders'
  <2>1. /\ UNCHANGED triggerLock /\ cur' = [cur EXCEPT ![p] = cur'[p]]
        /\ pc' = [pc EXCEPT ![p] = pc'[p]] /\ pc[p] \notin Held /\ pc'[p] \notin Held
    BY <1>1, StartFrame DEF lockVars
  <2> QED
    BY <2>1
<1>2. ASSUME NEW p \in Threads, LedSteps(p) PROVE Holders'
  <2>1. CASE RegList(p)
    <3>1. triggerLock[cur[p]] = NoThread
        BY <2>1 DEF RegList, NewLeds, Creating, Unreachable, Using
    <3>2. triggerLock' = triggerLock
        BY <2>1, <3>1 DEF RegList
    <3> QED
        BY <1>2, <2>1, <3>2 DEF RegList, LedSteps, walkVars
  <2>2. CASE ~ RegList(p)
    <3>1. /\ UNCHANGED <<triggerLock, cur>> /\ pc[p] \notin Held
          /\ pc' = [pc EXCEPT ![p] = pc'[p]] /\ pc'[p] \notin Held
        BY <1>2, <2>2 DEF LedSteps, RegCreate, RegFile, UnregFiles, UnregDevice, UnregList,
           lockVars, walkVars
    <3> QED
        BY <3>1
  <2> QED
    BY <2>1, <2>2
<1>3. ASSUME NEW p \in Threads, TrigSteps(p) PROVE Holders'
  <2>1. /\ UNCHANGED triggerLock /\ cur' = [cur EXCEPT ![p] = cur'[p]]
        /\ pc' = [pc EXCEPT ![p] = pc'[p]] /\ pc[p] \notin Held /\ pc'[p] \notin Held
    BY <1>3 DEF TrigSteps, TrigList, WalkStart, WalkNext, WalkEnd, walkVars
  <2> QED
    BY <2>1
<1>4. ASSUME NEW p \in Threads, LockSteps(p) PROVE Holders'
  <2> USE <1>4 DEF LockSteps, walkVars
  <2>1. CASE Lookup(p)
    BY <2>1 DEF Lookup
  <2>2. CASE Lock(p)
    BY <2>2, NamesAssumption DEF Lock
  <2>3. CASE Release(p)
    BY <2>3, NamesAssumption DEF Release
  <2> QED
    BY <2>1, <2>2, <2>3
<1>5. ASSUME NEW p \in Threads, LedTriggerSet(p) PROVE Holders'
  <2>1. /\ UNCHANGED <<triggerLock, cur>> /\ pc' = [pc EXCEPT ![p] = pc'[p]]
        /\ pc[p] \in Held /\ pc'[p] \in Held
    BY <1>5 DEF LedTriggerSet, TsDetach, TsDeactivate, TsAttach, TsActivate, TsAssign,
       lockVars, walkVars
  <2> QED
    BY <2>1
<1>6. CASE UNCHANGED <<triggerLock, pc, cur>>
    BY <1>6
<1> QED
    BY <1>1, <1>2, <1>3, <1>4, <1>5, <1>6 DEF Next, Continue, Brightness, lockVars,
       walkVars, vars

-----------------------------------------------------------------------------
\* An LED stays out of reach until led_classdev_register puts it on leds_list.
LEMMA NewLedsStep ==
    ASSUME TypeOK, NewLeds, [Next]_vars PROVE NewLeds'
<1> USE DEF TypeOK, NewLeds, Unreachable, Creating, Using, Held, SetSteps, Goto, At
<1>1. ASSUME NEW p \in Threads, Start(p) PROVE NewLeds'
  <2> USE DEF Begin, SetLed
  <2>1. ASSUME NEW l \in Leds, BeginLedRegister(p, l) PROVE NewLeds'
    BY <2>1 DEF BeginLedRegister
  <2>2. ASSUME NEW l \in Leds, BeginLedUnregister(p, l) PROVE NewLeds'
    BY <2>2 DEF BeginLedUnregister
  <2>3. ASSUME NEW l \in Leds, BeginShow(p, l) PROVE NewLeds'
    BY <2>3 DEF BeginShow
  <2>4. ASSUME NEW l \in Leds, NEW t \in TriggersOrNone, BeginStore(p, l, t) PROVE NewLeds'
    BY <2>4 DEF BeginStore
  <2>5. ASSUME NEW t \in Triggers, BeginTrigRegister(p, t) \/ BeginTrigUnregister(p, t)
        PROVE  NewLeds'
    BY <2>5 DEF BeginTrigRegister, BeginTrigUnregister
  <2> QED
    BY <1>1, <2>1, <2>2, <2>3, <2>4, <2>5 DEF Start
<1>2. ASSUME NEW p \in Threads, LedSteps(p) PROVE NewLeds'
  <2> USE <1>2 DEF LedSteps, walkVars, SetLed, SetAttrs
  <2>1. CASE RegCreate(p)
    BY <2>1 DEF RegCreate
  <2>2. CASE RegList(p)
    BY <2>2 DEF RegList
  <2>3. CASE RegFile(p)
    <3>1. ASSUME NEW l \in Leds, ledState'[l] = "absent" PROVE ledState[l] = "absent"
        BY <2>3, <3>1, RegFileFrame
    <3>2. ASSUME NEW l \in Leds, l # cur[p], Unreachable(l) PROVE Unreachable(l)'
        BY <2>3, <3>2, RegFileFrame
    <3>3. ~ Unreachable(cur[p]) /\ ledState'[cur[p]] # "absent"
        BY <2>3, RegFileFrame
    <3>4. \A q \in Threads : pc'[q] \in Creating => q # p /\ pc[q] \in Creating
        BY <2>3, RegFileFrame
    <3>5. /\ UNCHANGED cur
          /\ \A l \in Leds : l # cur[p] => ledState'[l] = ledState[l]
        BY <2>3, RegFileFrame
    <3> HIDE DEF Unreachable, Creating
    <3>6. \A l \in Leds : ledState'[l] = "absent" =>
             Unreachable(l)' /\ \A q \in Threads : pc'[q] \in Creating => cur'[q] # l
        BY <3>1, <3>2, <3>3, <3>4, <3>5
    <3>7. \A r \in Threads : pc'[r] \in Creating =>
             /\ ledState'[cur'[r]] = "registering" /\ Unreachable(cur[r])'
             /\ \A q \in Threads : q # r /\ pc'[q] \in Creating => cur'[q] # cur'[r]
        BY <3>2, <3>3, <3>4, <3>5
    <3> QED
        BY <3>5, <3>6, <3>7
  <2>4. CASE UnregFiles(p)
    BY <2>4 DEF UnregFiles
  <2>5. CASE UnregDevice(p)
    BY <2>5 DEF UnregDevice
  <2>6. CASE UnregList(p)
    BY <2>6 DEF UnregList
  <2> QED
    BY <2>1, <2>2, <2>3, <2>4, <2>5, <2>6
<1>3. ASSUME NEW p \in Threads, TrigSteps(p) PROVE NewLeds'
  <2> USE <1>3 DEF TrigSteps, walkVars
  <2>1. CASE TrigList(p)
    BY <2>1 DEF TrigList
  <2>2. CASE WalkStart(p)
    BY <2>2 DEF WalkStart
  <2>3. CASE WalkNext(p)
    BY <2>3 DEF WalkNext
  <2>4. CASE WalkEnd(p)
    BY <2>4 DEF WalkEnd
  <2> QED
    BY <2>1, <2>2, <2>3, <2>4
<1>4. ASSUME NEW p \in Threads, LockSteps(p) PROVE NewLeds'
    BY <1>4 DEF LockSteps, Lookup, Lock, Release, SetLed, walkVars
<1>5. ASSUME NEW p \in Threads, LedTriggerSet(p) PROVE NewLeds'
  <2>1. /\ UNCHANGED <<devVars, walkVars>> /\ pc' = [pc EXCEPT ![p] = pc'[p]]
        /\ pc[p] \in Held /\ pc'[p] \in Held
    BY <1>5 DEF LedTriggerSet, TsDetach, TsDeactivate, TsAttach, TsActivate, TsAssign
  <2> QED
    BY <2>1 DEF devVars, walkVars
<1>6. CASE UNCHANGED <<devVars, pc, walkVars>>
    BY <1>6 DEF devVars, walkVars
<1> QED
    BY <1>1, <1>2, <1>3, <1>4, <1>5, <1>6 DEF Next, Continue, Brightness, vars

-----------------------------------------------------------------------------
\* led_trigger_set touches one LED only.
LEMMA OtherLeds ==
    ASSUME TypeOK, NEW p \in Threads, LedTriggerSet(p), NEW l \in Leds, l # cur[p]
    PROVE  /\ OnLists(l)' = OnLists(l) /\ active'[l] = active[l]
           /\ trigger'[l] = trigger[l] /\ litBy'[l] = litBy[l]
<1> USE DEF TypeOK, OnLists
<1>1. CASE TsDetach(p)
    BY <1>1 DEF TsDetach, Unlink
<1>2. CASE TsDeactivate(p)
    BY <1>2 DEF TsDeactivate, TurnOff
<1>3. CASE TsAttach(p)
    BY <1>3 DEF TsAttach
<1>4. CASE TsActivate(p)
    BY <1>4 DEF TsActivate
<1>5. CASE TsAssign(p)
    BY <1>5 DEF TsAssign
<1> QED
    BY <1>1, <1>2, <1>3, <1>4, <1>5 DEF LedTriggerSet

\* Each of its steps takes the LED it works on from one stage to the next.
LEMMA NextStage ==
    ASSUME TypeOK, NEW p \in Threads, HalfwayOf(p), LedTriggerSet(p)
    PROVE  HalfwayOf(p)'
<1> DEFINE l == cur[p]
           T == Target(p)
<1>1. l' = l /\ T' = T /\ l \in Leds /\ T \in TriggersOrNone
    BY DEF LedTriggerSet, walkVars, reqVars, Target, TypeOK, TriggersOrNone
<1>2. Own(l) = {trigger[l]} \ {NoTrigger}
    BY DEF Own
<1> HIDE DEF l, T
<1>3. CASE TsDetach(p)
  <2>1. CASE trigger[l] = NoTrigger
    <3>1. pc'[p] = "ts_attach" /\ UNCHANGED <<ledCdevs, active, litBy>>
        BY <1>3, <2>1 DEF TsDetach, Goto, TypeOK, l
    <3>2. Loose(l)
        BY <1>1, <1>3, <2>1, NamesAssumption DEF TsDetach, At, HalfwayOf, Settled, Own, Loose,
           TypeOK, l
    <3> QED
        BY <1>1, <3>1, <3>2 DEF HalfwayOf, At, Loose, OnLists, l
  <2>2. CASE trigger[l] # NoTrigger
    <3>1. /\ pc'[p] = "ts_deactivate" /\ UNCHANGED <<trigger, active, litBy>>
          /\ ledCdevs' = [ledCdevs EXCEPT ![trigger[l]] = @ \ {l}]
        BY <1>3, <2>2 DEF TsDetach, Unlink, Goto, TypeOK, l
    <3>2. Settled(l)
        BY <1>3 DEF TsDetach, At, HalfwayOf, l
    <3>3. OnLists(l)' = {}
        BY <1>1, <2>2, <3>1, <3>2 DEF Settled, OnLists, Own, TypeOK
    <3> QED
        BY <1>1, <2>2, <3>1, <3>2, <3>3 DEF HalfwayOf, At, Settled, Unlinked, Own, l
  <2> QED
    BY <2>1, <2>2
<1>4. CASE TsDeactivate(p)
  <2>1. /\ pc'[p] = "ts_attach" /\ UNCHANGED ledCdevs
        /\ active'[l] = active[l] \ {trigger[l]} /\ litBy'[l] = "off"
    BY <1>1, <1>4 DEF TsDeactivate, TurnOff, Goto, TypeOK, l
  <2>2. Unlinked(l)
    BY <1>4 DEF TsDeactivate, At, HalfwayOf, l
  <2>3. OnLists(l)' = {} /\ active'[l] = {}
    BY <1>1, <2>1, <2>2 DEF Unlinked, OnLists, Own
  <2> QED
    BY <1>1, <2>1, <2>3 DEF HalfwayOf, At, Loose, l
<1>5. CASE TsAttach(p)
  <2>1. Loose(l) /\ UNCHANGED <<active, litBy>>
    BY <1>5 DEF TsAttach, At, HalfwayOf, l
  <2>2. CASE T = NoTrigger
    <3>1. pc'[p] = "ts_assign" /\ UNCHANGED ledCdevs
        BY <1>5, <2>2 DEF TsAttach, Goto, TypeOK, T
    <3> QED
        BY <1>1, <2>1, <2>2, <3>1 DEF HalfwayOf, At, Loose, Bound, OnLists, l, T
  <2>3. CASE T # NoTrigger
    <3>1. /\ pc'[p] = "ts_activate"
          /\ ledCdevs' = [ledCdevs EXCEPT ![T] = @ \cup {l}]
        BY <1>5, <2>3 DEF TsAttach, Goto, TypeOK, T, l
    <3>2. OnLists(l)' = {T}
        BY <1>1, <2>1, <2>3, <3>1 DEF Loose, OnLists, TypeOK, TriggersOrNone
    <3> QED
        BY <1>1, <2>1, <2>3, <3>1, <3>2 DEF HalfwayOf, At, Loose, Linked, l, T
  <2> QED
    BY <2>2, <2>3
<1>6. CASE TsActivate(p)
  <2>1. /\ pc'[p] = "ts_assign" /\ UNCHANGED <<ledCdevs, litBy>>
        /\ active'[l] = active[l] \cup {T}
    BY <1>1, <1>6 DEF TsActivate, Goto, TypeOK, l, T
  <2>2. Linked(l, T)
    BY <1>6 DEF TsActivate, At, HalfwayOf, l, T
  <2>3. OnLists(l)' = {T} \ {NoTrigger} /\ active'[l] = {T} \ {NoTrigger}
    BY <1>1, <2>1, <2>2 DEF Linked, OnLists
  <2> QED
    BY <1>1, <2>1, <2>2, <2>3 DEF HalfwayOf, At, Linked, Bound, l, T
<1>7. CASE TsAssign(p)
  <2>1. /\ pc'[p] = "release" /\ UNCHANGED <<ledCdevs, active, litBy>>
        /\ trigger'[l] = T
    BY <1>1, <1>7 DEF TsAssign, Goto, TypeOK, l, T
  <2>2. Bound(l, T)
    BY <1>7 DEF TsAssign, At, HalfwayOf, l, T
  <2>3. Settled(l)'
    BY <1>1, <2>1, <2>2 DEF Bound, Settled, OnLists, Own
  <2> QED
    BY <1>1, <2>1, <2>3 DEF HalfwayOf, At, l
<1> QED
    BY <1>3, <1>4, <1>5, <1>6, <1>7 DEF LedTriggerSet

\* A step that leaves the attachments alone, takes no thread into led_trigger_set
\* and lets go of no lock keeps every stage.
LEMMA StagesKept ==
    ASSUME Halfway, UNCHANGED <<bindVars, triggerLock>>, NEW p \in Threads, pc'[p] \notin Held,
           \A q \in Threads \ {p} : /\ pc'[q] = pc[q] /\ cur'[q] = cur[q]
                                    /\ op'[q] = op[q] /\ arg'[q] = arg[q]
    PROVE  Halfway'
<1>1. \A l \in Leds : triggerLock'[l] = NoThread => Settled(l)'
    BY DEF Halfway, Settled, OnLists, Own, bindVars
<1>2. HalfwayOf(p)'
    BY DEF HalfwayOf, At, Held, SetSteps
<1>3. ASSUME NEW q \in Threads \ {p} PROVE HalfwayOf(q)'
  <2>1. HalfwayOf(q) /\ Target(q)' = Target(q)
    BY DEF Halfway, Target
  <2> QED
    BY <2>1 DEF HalfwayOf, At, Settled, Unlinked, Loose, Linked, Bound, OnLists, Own, bindVars
<1> QED
    BY <1>1, <1>2, <1>3 DEF Halfway

\* Each step inside led_trigger_set takes its LED to the next stage.
LEMMA HalfwayStep ==
    ASSUME IInv, [Next]_vars PROVE Halfway'
<1> USE DEF IInv
<1>1. ASSUME NEW p \in Threads, Start(p) PROVE Halfway'
  <2>1. /\ UNCHANGED <<bindVars, triggerLock>> /\ pc'[p] \notin Held
        /\ \A q \in Threads \ {p} : /\ pc'[q] = pc[q] /\ cur'[q] = cur[q]
                                     /\ op'[q] = op[q] /\ arg'[q] = arg[q]
    BY <1>1, StartFrame DEF lockVars, Held, SetSteps, TypeOK
  <2> QED
    BY <2>1, StagesKept
<1>2. ASSUME NEW p \in Threads, LedSteps(p) PROVE Halfway'
  <2>1. UNCHANGED triggerLock
    <3>1. CASE RegList(p)
      <4>1. triggerLock[cur[p]] = NoThread
        BY <3>1 DEF RegList, At, NewLeds, Creating, Unreachable, Using, Holders, TypeOK
      <4> QED
        BY <3>1, <4>1 DEF RegList, TypeOK
    <3>2. CASE ~ RegList(p)
        BY <1>2, <3>2 DEF LedSteps, RegCreate, RegFile, UnregFiles, UnregDevice, UnregList,
           lockVars
    <3> QED
        BY <3>1, <3>2
  <2>2. /\ UNCHANGED bindVars /\ pc'[p] \notin Held
        /\ \A q \in Threads \ {p} : /\ pc'[q] = pc[q] /\ cur'[q] = cur[q]
                                     /\ op'[q] = op[q] /\ arg'[q] = arg[q]
    BY <1>2 DEF LedSteps, RegCreate, RegList, RegFile, UnregFiles, UnregDevice, UnregList,
       Goto, walkVars, reqVars, Held, SetSteps, TypeOK
  <2> QED
    BY <2>1, <2>2, StagesKept
<1>3. ASSUME NEW p \in Threads, TrigSteps(p) PROVE Halfway'
  <2>1. /\ UNCHANGED <<bindVars, triggerLock>> /\ pc'[p] \notin Held
        /\ \A q \in Threads \ {p} : /\ pc'[q] = pc[q] /\ cur'[q] = cur[q]
                                     /\ op'[q] = op[q] /\ arg'[q] = arg[q]
    BY <1>3 DEF TrigSteps, TrigList, WalkStart, WalkNext, WalkEnd, Goto, walkVars, reqVars,
       Held, SetSteps, TypeOK
  <2> QED
    BY <2>1, StagesKept
<1>4. ASSUME NEW p \in Threads, LockSteps(p) PROVE Halfway'
  <2>1. CASE Lookup(p)
    <3>1. /\ UNCHANGED <<bindVars, triggerLock>> /\ pc'[p] \notin Held
          /\ \A q \in Threads \ {p} : /\ pc'[q] = pc[q] /\ cur'[q] = cur[q]
                                       /\ op'[q] = op[q] /\ arg'[q] = arg[q]
        BY <1>4, <2>1 DEF LockSteps, Lookup, Goto, walkVars, reqVars, Held, SetSteps, TypeOK
    <3> QED
        BY <3>1, StagesKept
  <2>2. CASE Lock(p)
    <3>1. Settled(cur[p])
        BY <2>2 DEF Lock, Halfway, TypeOK
    <3>2. \A l \in Leds : triggerLock'[l] = NoThread => triggerLock[l] = NoThread
        BY <2>2, NamesAssumption DEF Lock, TypeOK
    <3>3. /\ UNCHANGED <<bindVars, cur, op, arg>> /\ pc'[p] \in {"ts_detach", "release"}
          /\ \A q \in Threads \ {p} : pc'[q] = pc[q]
        BY <1>4, <2>2 DEF LockSteps, Lock, Goto, walkVars, reqVars, TypeOK
    <3> QED
        BY <3>1, <3>2, <3>3 DEF Halfway, HalfwayOf, At, Settled, Unlinked, Loose, Linked, Bound,
           OnLists, Own, Target, bindVars
  <2>3. CASE Release(p)
    <3>1. Settled(cur[p])
        BY <2>3 DEF Release, At, Halfway, HalfwayOf
    <3>2. \A l \in Leds : triggerLock'[l] = NoThread => l = cur[p] \/ triggerLock[l] = NoThread
        BY <2>3 DEF Release, TypeOK
    <3>3. /\ UNCHANGED <<bindVars, cur, op, arg>> /\ pc'[p] \notin Held
          /\ \A q \in Threads \ {p} : pc'[q] = pc[q]
        BY <1>4, <2>3 DEF LockSteps, Release, Goto, walkVars, reqVars, Held, SetSteps, TypeOK
    <3> QED
        BY <3>1, <3>2, <3>3 DEF Halfway, HalfwayOf, At, Settled, Unlinked, Loose, Linked, Bound,
           OnLists, Own, Target, bindVars, Held, SetSteps
  <2> QED
    BY <1>4, <2>1, <2>2, <2>3 DEF LockSteps
<1>5. ASSUME NEW p \in Threads, LedTriggerSet(p) PROVE Halfway'
  <2>1. /\ UNCHANGED <<triggerLock, cur, op, arg>> /\ pc[p] \in Held
        /\ \A q \in Threads \ {p} : pc'[q] = pc[q]
    BY <1>5 DEF LedTriggerSet, TsDetach, TsDeactivate, TsAttach, TsActivate, TsAssign, At,
       Goto, lockVars, walkVars, reqVars, Held, SetSteps, TypeOK
  <2>2. triggerLock[cur[p]] = p /\ cur[p] \in Leds
    BY <2>1 DEF Holders, TypeOK
  <2>3. ASSUME NEW l \in Leds, triggerLock'[l] = NoThread PROVE Settled(l)'
    <3>1. l # cur[p] /\ Settled(l)
        BY <2>1, <2>2, <2>3, NamesAssumption DEF Halfway
    <3> QED
        BY <1>5, <3>1, OtherLeds DEF Settled, Own
  <2>4. HalfwayOf(p)'
    BY <1>5, NextStage DEF Halfway
  <2>5. ASSUME NEW q \in Threads \ {p} PROVE HalfwayOf(q)'
    <3>1. CASE pc[q] \in Held
      <4>1. cur[q] # cur[p] /\ cur[q] \in Leds
        BY <2>2, <3>1 DEF Holders, TypeOK
      <4>2. /\ OnLists(cur[q])' = OnLists(cur[q]) /\ active'[cur[q]] = active[cur[q]]
            /\ trigger'[cur[q]] = trigger[cur[q]] /\ litBy'[cur[q]] = litBy[cur[q]]
        BY <1>5, <2>1, <4>1, OtherLeds DEF OnLists
      <4>3. HalfwayOf(q) /\ Target(q)' = Target(q) /\ cur'[q] = cur[q] /\ pc'[q] = pc[q]
        BY <2>1 DEF Halfway, Target
      <4> QED
        BY <4>2, <4>3 DEF HalfwayOf, At, Settled, Unlinked, Loose, Linked, Bound, Own
    <3>2. CASE pc[q] \notin Held
        BY <2>1, <3>2 DEF HalfwayOf, At, Held, SetSteps
    <3> QED
        BY <3>1, <3>2
  <2> QED
    BY <2>3, <2>4, <2>5 DEF Halfway
<1>6. CASE Brightness
  <2>1. /\ UNCHANGED <<trigger, ledCdevs, active, triggerLock, pc, cur, op, arg>>
        /\ \A l \in Leds : litBy'[l] \in {litBy[l], "off", "user"} \cup OnLists(l) \cup active[l]
    BY <1>6 DEF Brightness, TriggerEvent, ActiveTrigger, StoreBrightness, OnLists, TypeOK,
       lockVars, walkVars, reqVars
  <2>2. \A l \in Leds : triggerLock'[l] = NoThread => Settled(l)'
    BY <2>1 DEF Halfway, Settled, OnLists, Own
  <2>3. ASSUME NEW p \in Threads PROVE HalfwayOf(p)'
    <3>1. HalfwayOf(p) /\ Target(p)' = Target(p) /\ cur[p] \in Leds
        BY <2>1 DEF Halfway, Target, TypeOK
    <3> QED
        BY <2>1, <3>1 DEF HalfwayOf, At, Settled, Unlinked, Loose, Linked, Bound, OnLists, Own
  <2> QED
    BY <2>2, <2>3 DEF Halfway
<1>7. CASE UNCHANGED vars
  <2>1. UNCHANGED <<bindVars, triggerLock, pc, cur, op, arg>>
    BY <1>7 DEF vars, lockVars, walkVars, reqVars
  <2> QED
    BY <2>1 DEF Halfway, HalfwayOf, At, Settled, Unlinked, Loose, Linked, Bound, OnLists, Own,
       Target, bindVars
<1> QED
    BY <1>1, <1>2, <1>3, <1>4, <1>5, <1>6, <1>7 DEF Next, Continue

-----------------------------------------------------------------------------
\* The invariant holds at first.
LEMMA InitIInv == Init => IInv
<1> SUFFICES ASSUME Init PROVE IInv
    OBVIOUS
<1>1. TypeOK
  <2>1. cur \in [Threads -> Leds]
    BY NamesAssumption DEF Init
  <2> QED
    BY <2>1, RequestAssumption DEF Init, TypeOK, Steps, Kinds, TriggersOrNone
<1>2. RealTriggers
    BY DEF Init, RealTriggers
<1>3. Holders
    BY NamesAssumption DEF Init, Holders, Held, SetSteps
<1>4. NewLeds
    BY DEF Init, NewLeds, Unreachable, Using, Creating, Held, SetSteps
<1>5. Halfway
    BY DEF Init, Halfway, HalfwayOf, At, Settled, OnLists, Own
<1> QED
    BY <1>1, <1>2, <1>3, <1>4, <1>5 DEF IInv

\* Every step preserves the inductive invariant.
LEMMA NextIInv == IInv /\ [Next]_vars => IInv'
<1> SUFFICES ASSUME IInv, [Next]_vars PROVE IInv'
    OBVIOUS
<1>1. TypeOK'
  <2>1. CASE UNCHANGED vars
    BY <2>1 DEF IInv, TypeOK, vars, devVars, bindVars, lockVars, walkVars, reqVars
  <2> QED
    BY <2>1, TypeStart, TypeContinue, TypeBrightness DEF IInv, Next
<1> QED
    BY <1>1, RealTriggersStep, HoldersStep, NewLedsStep, HalfwayStep DEF IInv

\* The inductive invariant holds in every reachable state.
THEOREM Invariance == Spec => []IInv
<1> QED
    BY InitIInv, NextIInv, PTL DEF Spec

\* The variables keep their types; in particular no thread activates or links
\* the NULL trigger.
THEOREM TypeCorrect == Spec => []TypeOK
<1>1. IInv => TypeOK
    BY DEF IInv
<1> QED
    BY <1>1, Invariance, PTL

\* An LED nobody is changing is on the list of its own trigger and on no other,
\* and activated for that trigger and no other: led_trigger_set is atomic for
\* everyone who respects trigger_lock.
THEOREM AttachmentsConsistent == Spec => []AttachmentConsistent
<1>1. IInv => AttachmentConsistent
    BY DEF IInv, Halfway, Settled, AttachmentConsistent
<1> QED
    BY <1>1, Invariance, PTL

\* No trigger leaves its light behind on an LED that has moved on.
THEOREM LightsConsistent == Spec => []LitByOwnTrigger
<1>1. IInv => LitByOwnTrigger
    BY DEF IInv, Halfway, Settled, LitByOwnTrigger
<1> QED
    BY <1>1, Invariance, PTL

-----------------------------------------------------------------------------
\* The trigger an LED is bound to, by how far led_trigger_set has got with it.
LEMMA BoundTo ==
    ASSUME NEW l \in Leds, NEW t \in TriggersOrNone, Drivers(l) = {t} \ {NoTrigger}
    PROVE  bound[l] = t
<1>1. CASE t = NoTrigger
    BY <1>1 DEF bound, Only
<1>2. CASE t # NoTrigger
  <2>1. Only({t}) = t
    BY DEF Only
  <2> QED
    BY <1>2, <2>1 DEF bound
<1> QED
    BY <1>1, <1>2

\* At most one trigger drives an LED, at rest or halfway.
LEMMA OneDriver ==
    ASSUME IInv, NEW l \in Leds
    PROVE  \E t \in TriggersOrNone : Drivers(l) = {t} \ {NoTrigger}
<1> USE DEF IInv, Drivers, TriggersOrNone
<1>1. CASE triggerLock[l] = NoThread
    BY <1>1 DEF Halfway, Settled, Own, TypeOK
<1>2. ASSUME NEW p \in Threads, triggerLock[l] = p
      PROVE  \E t \in TriggersOrNone : Drivers(l) = {t} \ {NoTrigger}
  <2>1. pc[p] \in Held /\ cur[p] = l /\ HalfwayOf(p)
    BY <1>2 DEF Holders, Halfway
  <2>2. Target(p) \in TriggersOrNone /\ trigger[l] \in TriggersOrNone
    BY DEF Target, TypeOK
  <2> QED
    BY <2>1, <2>2 DEF HalfwayOf, At, Held, SetSteps, Settled, Unlinked, Loose, Linked,
       Bound, Own
<1> QED
    BY <1>1, <1>2 DEF TypeOK

\* A step of led_trigger_set moves the LED it works on, or nothing.
LEMMA SetBinds ==
    ASSUME IInv, NEW p \in Threads, LedTriggerSet(p)
    PROVE  \/ UNCHANGED <<bound, litBy>>
           \/ Binding!Unbind(cur[p])
           \/ \E t \in Triggers : Binding!Bind(cur[p], t)
<1> DEFINE l == cur[p]
<1>1. l \in Leds /\ l' = l /\ HalfwayOf(p) /\ HalfwayOf(p)'
    BY NextStage DEF IInv, Halfway, TypeOK, LedTriggerSet, walkVars
<1>2. Target(p)' = Target(p) /\ Target(p) \in TriggersOrNone /\ trigger[l] \in TriggersOrNone
    BY <1>1 DEF LedTriggerSet, reqVars, Target, IInv, TypeOK, TriggersOrNone
<1>3. bound' = [bound EXCEPT ![l] = bound'[l]]
  <2>1. \A k \in Leds \ {l} : Drivers(k)' = Drivers(k)
    BY OtherLeds DEF IInv, Drivers
  <2> QED
    BY <2>1 DEF bound
<1>4. Drivers(l)' = Drivers(l) => UNCHANGED bound
    BY <1>1, <1>3 DEF bound
<1> HIDE DEF l
<1>5. CASE TsDetach(p)
  <2>1. Settled(l) /\ UNCHANGED <<active, litBy>>
    BY <1>1, <1>5 DEF TsDetach, At, HalfwayOf, l
  <2>2. Drivers(l)' = Drivers(l)
    <3>1. OnLists(l)' \subseteq OnLists(l)
        BY <1>1, <1>5 DEF TsDetach, Unlink, OnLists, IInv, TypeOK
    <3> QED
        BY <1>1, <2>1, <3>1 DEF Settled, Drivers
  <2> QED
    BY <1>4, <2>1, <2>2
<1>6. CASE TsDeactivate(p)
  <2>1. Unlinked(l) /\ litBy' = [litBy EXCEPT ![l] = "off"] /\ pc'[p] = "ts_attach"
    BY <1>1, <1>6 DEF TsDeactivate, TurnOff, At, Goto, HalfwayOf, l, IInv, TypeOK
  <2>2. Loose(l)'
    BY <1>1, <2>1 DEF HalfwayOf, At, l
  <2>3. Drivers(l) = {trigger[l]} \ {NoTrigger} /\ trigger[l] # NoTrigger /\ Drivers(l)' = {}
    BY <2>1, <2>2 DEF Unlinked, Loose, Own, Drivers
  <2>4. bound[l] # NoTrigger /\ bound'[l] = NoTrigger
    BY <1>1, <1>2, <2>3, BoundTo DEF bound, Only
  <2> QED
    BY <1>3, <2>1, <2>4 DEF Binding!Unbind, l
<1>7. CASE TsAttach(p)
  <2>1. Loose(l) /\ UNCHANGED <<active, litBy>>
    BY <1>1, <1>7 DEF TsAttach, At, HalfwayOf, l
  <2>2. CASE Target(p) = NoTrigger
    <3>1. Drivers(l)' = Drivers(l)
        BY <1>1, <1>7, <2>1, <2>2 DEF TsAttach, Drivers, OnLists
    <3> QED
        BY <1>4, <2>1, <3>1
  <2>3. CASE Target(p) # NoTrigger
    <3>1. pc'[p] = "ts_activate"
        BY <1>7, <2>3 DEF TsAttach, Goto, IInv, TypeOK
    <3>2. Linked(l, Target(p))'
        BY <1>1, <1>2, <3>1 DEF HalfwayOf, At, l
    <3>3. Drivers(l) = {} /\ Drivers(l)' = {Target(p)}
        BY <1>2, <2>1, <3>2 DEF Loose, Linked, Drivers
    <3>4. bound[l] = NoTrigger /\ bound'[l] = Target(p)
      <4>1. Only({}) = NoTrigger /\ Only({Target(p)}) = Target(p)
        BY DEF Only
      <4> QED
        BY <1>1, <3>3, <4>1 DEF bound
    <3> QED
        BY <1>2, <1>3, <2>1, <2>3, <3>4 DEF Binding!Bind, l, TriggersOrNone
  <2> QED
    BY <2>2, <2>3
<1>8. CASE TsActivate(p)
  <2>1. Linked(l, Target(p)) /\ UNCHANGED litBy /\ pc'[p] = "ts_assign"
    BY <1>1, <1>8 DEF TsActivate, At, Goto, HalfwayOf, l, IInv, TypeOK
  <2>2. Bound(l, Target(p))'
    BY <1>1, <1>2, <2>1 DEF HalfwayOf, At, l
  <2> QED
    BY <1>2, <1>4, <2>1, <2>2 DEF Linked, Bound, Drivers
<1>9. CASE TsAssign(p)
  <2>1. Drivers(l)' = Drivers(l) /\ UNCHANGED litBy
    BY <1>1, <1>9 DEF TsAssign, Drivers, OnLists
  <2> QED
    BY <1>4, <2>1
<1> QED
    BY <1>5, <1>6, <1>7, <1>8, <1>9 DEF LedTriggerSet, l

\* Every step of the trigger core is a step of LedBinding, or none.
LEMMA BindingStep ==
    ASSUME IInv, [Next]_vars PROVE [Binding!Next]_<<bound, litBy>>
<1>1. ASSUME NEW p \in Threads, LedTriggerSet(p) PROVE [Binding!Next]_<<bound, litBy>>
  <2>1. cur[p] \in Leds
    BY DEF IInv, TypeOK
  <2> QED
    BY <1>1, <2>1, SetBinds DEF Binding!Next
<1>2. CASE Brightness
  <2>1. /\ UNCHANGED <<ledCdevs, active>>
        /\ \A l \in Leds : litBy'[l] \in {litBy[l], "off", "user"} \cup OnLists(l) \cup active[l]
    BY <1>2 DEF Brightness, TriggerEvent, ActiveTrigger, StoreBrightness, OnLists, IInv, TypeOK
  <2>2. UNCHANGED bound
    BY <2>1 DEF bound, Drivers, OnLists
  <2>3. \A l \in Leds : litBy'[l] \in {litBy[l], "off", "user", bound[l]}
    <3> TAKE l \in Leds
    <3>1. PICK t \in TriggersOrNone : Drivers(l) = {t} \ {NoTrigger}
        BY OneDriver
    <3>2. bound[l] = t
        BY <3>1, BoundTo
    <3> QED
        BY <2>1, <3>1, <3>2 DEF Drivers
  <2>4. litBy' \in [Leds -> {"off", "user"} \cup Triggers]
    BY TypeBrightness, <1>2 DEF IInv, TypeOK
  <2> QED
    BY <2>2, <2>3, <2>4 DEF Binding!Next, Binding!Drive
<1>3. CASE UNCHANGED bindVars
    BY <1>3 DEF bindVars, bound, Drivers, OnLists
<1>4. ASSUME NEW p \in Threads, Start(p) PROVE UNCHANGED bindVars
    BY <1>4, StartFrame DEF IInv
<1> QED
    BY <1>1, <1>2, <1>3, <1>4 DEF Next, Continue, LedSteps, TrigSteps, LockSteps, vars

\* The trigger core implements LedBinding: cut into steps, interrupted by timers
\* and run by any number of threads, led_trigger_set still moves an LED from one
\* trigger to the next through darkness, and nobody else changes its light.
THEOREM TriggersImplementBinding == Spec => ImplementsBinding
<1>1. Init => Binding!Init
    BY DEF Init, Binding!Init, bound, Only, Drivers, OnLists
<1>2. IInv /\ [Next]_vars => [Binding!Next]_<<bound, litBy>>
    BY BindingStep
<1> QED
    BY <1>1, <1>2, Invariance, PTL DEF Spec, ImplementsBinding, Binding!Spec
=============================================================================
