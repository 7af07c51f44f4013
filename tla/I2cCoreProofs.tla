---------------------------- MODULE I2cCoreProofs ----------------------------
(***************************************************************************)
(* Proofs about I2cCore: an open device file keeps its adapter, and the    *)
(* device files stay parallel to the adapters, for any number of adapters, *)
(* numbers and processes.                                                  *)
(***************************************************************************)
EXTENDS I2cCore, TLAPS, SequenceTheorems, WellFoundedInduction

-----------------------------------------------------------------------------
Holding == {"attach", "create", "detach", "destroy", "add", "notify", "next"}
CallType == [op : {"none", "add", "del", "register", "unregister", "open"},
             adap : Adapters \cup {NoAdapter}, todo : SUBSET Adapters,
             minor : Minors \cup {NoMinor}]
Served(a) == \E i \in DOMAIN devList : devList[i] = a

\* Who is inside core_lock, and what each step of a call knows.
Stage(p) ==
    LET c == call[p] IN
    /\ pc[p] \in Holding <=> coreLock = p
    /\ pc[p] \in {"idle", "register"} => c = NoCall
    /\ pc[p] \in {"add", "notify"} => c.op = "add"
    /\ pc[p] \in {"attach", "create"} => c.op \in {"add", "register"}
    /\ pc[p] \in {"detach", "destroy"} => c.op \in {"del", "unregister"}
    /\ pc[p] = "del" => c.op = "del"
    /\ pc[p] = "next" => c.op \in {"add", "del", "register", "unregister"}
    /\ pc[p] = "open" => c.op = "open" /\ c.minor \in Minors
    /\ pc[p] \in {"attach", "create", "detach", "destroy"} => c.adap \in class
    /\ c.todo \subseteq class
    /\ c.op \in {"add", "del", "open"} => c.todo = {}
    /\ pc[p] = "register" \/ c.op = "register" => devModule = "loaded"
    /\ pc[p] = "attach" => devModule # "out"
    /\ c.op = "unregister" => devModule = "going"
Stages == (onBus <=> devModule # "out") /\ \A p \in Procs : Stage(p)

\* The life of an adapter, its number and its registration.
Registered == \A a \in class : life[a] # "out" /\ nr[a] \in Minors /\ idr[nr[a]] = a
Assigned ==
    \A n \in Minors : idr[n] # NoAdapter =>
        /\ nr[idr[n]] = n
        /\ idr[n] \in class \/ \E p \in Procs : At(p, "add") /\ call[p].adap = idr[n]
Going == \A a \in Adapters : life[a] = "going" => a \in class
Adding ==
    \A p \in Procs : call[p].op = "add" =>
        LET a == call[p].adap IN
        /\ a \in Adapters /\ life[a] = "loaded"
        /\ IF At(p, "add") THEN a \notin class /\ nr[a] \in Minors /\ idr[nr[a]] = a
                           ELSE a \in class
Deleting ==
    \A p \in Procs : call[p].op = "del" =>
        /\ call[p].adap \in class /\ life[call[p].adap] = "going"
        /\ \A q \in Procs : call[q].op = "del" /\ call[q].adap = call[p].adap => q = p
Numbered == Registered /\ Assigned /\ Going /\ Adding /\ Deleting

\* The list and the nodes: an i2c_dev without a node yet is the last one, a node
\* without an i2c_dev is about to be destroyed.
Live == \A i \in DOMAIN devList : devList[i] \in class
Once ==
    \A i, j \in DOMAIN devList : i < j /\ devList[i] = devList[j] =>
        j = Len(devList) /\ \E p \in Procs : At(p, "create")
InHand ==
    \A p \in Procs :
        /\ At(p, "create") => devList # <<>> /\ devList[Len(devList)] = call[p].adap
        /\ At(p, "destroy") => ~ Served(call[p].adap)
WithNode ==
    \A i \in DOMAIN devList :
        nr[devList[i]] \in nodes \/ (i = Len(devList) /\ \E p \in Procs : At(p, "create"))
Backed(n) ==
    \/ \E i \in DOMAIN devList :
          nr[devList[i]] = n /\ (i = Len(devList) => \A p \in Procs : ~ At(p, "create"))
    \/ \E p \in Procs : At(p, "destroy") /\ nr[call[p].adap] = n
Listed == Live /\ Once /\ InHand /\ WithNode /\ \A n \in nodes : Backed(n)

\* Whom i2c-dev still has to serve, and whom it has let go.
Excuses(p, a) ==
    \/ At(p, "register")
    \/ pc[p] \in {"notify", "attach"} /\ call[p].adap = a
    \/ call[p].op = "register" /\ a \in call[p].todo
    \/ call[p].op = "unregister"
    \/ call[p].op = "del" /\ call[p].adap = a /\ pc[p] \in {"destroy", "next"}
AllServed ==
    onBus => \A a \in class : Served(a) \/ a \in unserved \/ \E p \in Procs : Excuses(p, a)
Unregistering ==
    \A p \in Procs, a \in Adapters :
        call[p].op = "unregister" /\ Served(a) =>
            a \in call[p].todo \/ (At(p, "detach") /\ a = call[p].adap)
LettingGo ==
    \A p \in Procs :
        call[p].op = "del" /\ pc[p] \in {"destroy", "next"} => ~ Served(call[p].adap)
Serving == AllServed /\ (~ onBus => devList = <<>>) /\ Unregistering /\ LettingGo

IInv == TypeOK /\ Stages /\ Numbered /\ OpenFilesReachAdapter /\ Listed /\ Serving

\* Every set of numbers has a least one.
LEMMA LeastExists ==
    ASSUME NEW I \in SUBSET Nat, I # {}
    PROVE  \E x \in I : \A y \in I : x =< y
<1> DEFINE R == {ss \in Nat \X Nat : ss[1] < ss[2]}
<1>1. IsWellFoundedOn(R, Nat)
  BY NatLessThanWellFounded DEF OpToRel
<1>2. PICK x \in I : \A y \in I : <<y, x>> \notin R
  <2> HIDE DEF R
  <2> QED
    BY <1>1, WFMin
<1>3. \A y \in I : ~ (y < x)
  BY <1>2
<1> QED
  BY <1>3

\* i2c_dev_get_by_minor returns an i2c_dev of that number, or 0 when there is none.
LEMMA FoundByMinor ==
    ASSUME devList \in Seq(Adapters), NEW n
    PROVE  IF ByMinor(n) = 0 THEN \A i \in DOMAIN devList : nr[devList[i]] # n
           ELSE ByMinor(n) \in DOMAIN devList /\ nr[devList[ByMinor(n)]] = n
<1> DEFINE I == {i \in 1 .. Len(devList) : nr[devList[i]] = n}
<1>1. ByMinor(n) = IF I # {} THEN Min(I) ELSE 0
  BY DEF ByMinor, SelectInSeq
<1>2. ASSUME I # {} PROVE Min(I) \in I
  <2>1. I \in SUBSET Nat
    OBVIOUS
  <2>2. \E x \in I : \A y \in I : x =< y
    <3> HIDE DEF I
    <3> QED
      BY <1>2, <2>1, LeastExists
  <2> QED
    BY <2>2 DEF Min
<1>3. DOMAIN devList = 1 .. Len(devList)
  OBVIOUS
<1>4. CASE I = {}
  BY <1>1, <1>3, <1>4
<1>5. CASE I # {}
  <2>1. ByMinor(n) \in I
    <3> HIDE DEF I
    <3> QED
      BY <1>1, <1>2, <1>5
  <2> QED
    BY <1>3, <2>1
<1> QED
  BY <1>4, <1>5

\* list_del takes out one i2c_dev and keeps the others in their order.
LEMMA Removal ==
    ASSUME NEW S, NEW s \in Seq(S), NEW i \in 1 .. Len(s)
    PROVE  /\ RemoveAt(s, i) \in Seq(S)
           /\ Len(RemoveAt(s, i)) = Len(s) - 1
           /\ \A j \in 1 .. Len(s) - 1 :
                 RemoveAt(s, i)[j] = IF j < i THEN s[j] ELSE s[j + 1]
<1> DEFINE before == SubSeq(s, 1, i - 1)
           after == SubSeq(s, i + 1, Len(s))
<1>1. /\ before \in Seq(S) /\ Len(before) = i - 1
      /\ \A j \in 1 .. i - 1 : before[j] = s[j]
  <2>1. \A j \in 1 .. i - 1 : s[j] \in S
    OBVIOUS
  <2>2. Len(before) = IF 1 <= i - 1 THEN (i - 1) - 1 + 1 ELSE 0
    BY <2>1, SubSeqProperties
  <2>3. before \in Seq(S) /\ \A j \in 1 .. (i - 1) - 1 + 1 : before[j] = s[1 + j - 1]
    BY <2>1, SubSeqProperties
  <2> HIDE DEF before
  <2> QED
    BY <2>2, <2>3
<1>2. /\ after \in Seq(S) /\ Len(after) = Len(s) - i
      /\ \A j \in 1 .. Len(s) - i : after[j] = s[i + j]
  <2>1. \A j \in i + 1 .. Len(s) : s[j] \in S
    OBVIOUS
  <2>2. Len(after) = IF i + 1 <= Len(s) THEN Len(s) - (i + 1) + 1 ELSE 0
    BY <2>1, SubSeqProperties
  <2>3. after \in Seq(S) /\ \A j \in 1 .. Len(s) - (i + 1) + 1 : after[j] = s[(i + 1) + j - 1]
    BY <2>1, SubSeqProperties
  <2> HIDE DEF after
  <2> QED
    BY <2>2, <2>3
<1>3. RemoveAt(s, i) = before \o after
  BY DEF RemoveAt
<1> HIDE DEF before, after
<1>4. /\ before \o after \in Seq(S)
      /\ Len(before \o after) = Len(before) + Len(after)
      /\ \A j \in 1 .. Len(before) + Len(after) :
            (before \o after)[j] = IF j <= Len(before) THEN before[j] ELSE after[j - Len(before)]
  BY <1>1, <1>2, ConcatProperties
<1> QED
  BY <1>1, <1>2, <1>3, <1>4

\* return_i2c_dev in i2cdev_attach_adapter: the i2c_dev at hand is the last one.
LEMMA ReturnsLast ==
    ASSUME devList \in Seq(Adapters), devList # <<>>, NEW a,
           devList[Len(devList)] = a, ReturnDev(a)
    PROVE  /\ devList' \in Seq(Adapters) /\ Len(devList') = Len(devList) - 1
           /\ \A j \in 1 .. Len(devList) - 1 : devList'[j] = devList[j]
<1> DEFINE I == {i \in 1 .. Len(devList) : devList[i] = a}
           L == Len(devList)
<1>1. L \in I /\ \A i \in I : L >= i
  OBVIOUS
<1>2. Max(I) = L
  BY <1>1 DEF Max
<1>3. SelectLastInSeq(devList, LAMBDA d : d = a) = L
  BY <1>1, <1>2 DEF SelectLastInSeq
<1>4. devList' = RemoveAt(devList, L) /\ L \in 1 .. Len(devList)
  BY <1>1, <1>3 DEF ReturnDev
<1>5. /\ RemoveAt(devList, L) \in Seq(Adapters)
      /\ Len(RemoveAt(devList, L)) = Len(devList) - 1
      /\ \A j \in 1 .. Len(devList) - 1 :
            RemoveAt(devList, L)[j] = IF j < L THEN devList[j] ELSE devList[j + 1]
  BY <1>4, Removal
<1> QED
  BY <1>4, <1>5

-----------------------------------------------------------------------------
\* A process outside every call has a call record too.
LEMMA NoCallTyped == NoCall \in CallType
  BY DEF NoCall, Calls, CallType

\* The adapter that is attached or detached is registered, so it has a number.
LEMMA HandNumber ==
    ASSUME TypeOK, Stages, Numbered, NEW p \in Procs,
           pc[p] \in {"attach", "create", "detach", "destroy"}
    PROVE  call[p].adap \in class /\ call[p].adap \in Adapters /\ nr[call[p].adap] \in Minors
  BY DEF TypeOK, Stages, Stage, Numbered, Registered, Assigned, Going, Adding, Deleting

\* Types: nodes are numbers because adapters at hand have one, and list_del finds
\* the i2c_dev it takes out.
LEMMA TypeStep ==
    ASSUME TypeOK, Stages, Numbered, Listed, [Next]_vars
    PROVE  TypeOK'
<1> USE DEF TypeOK
<1>0. CASE UNCHANGED vars
  BY <1>0 DEF vars, moduleVars, devVars
<1> SUFFICES ASSUME NEW p \in Procs, AdapterCalls(p) \/ DriverCalls(p) \/ DevCalls(p)
             PROVE  TypeOK'
  BY <1>0 DEF Next
<1>1. ASSUME Attach(p) PROVE TypeOK'
  <2>1. call[p].adap \in Adapters
    BY <1>1, HandNumber DEF Attach, At
  <2>2. Append(devList, call[p].adap) \in Seq(Adapters)
    BY <2>1
  <2> QED
    BY <1>1, <2>1, <2>2 DEF Attach, Goto, At, moduleVars
<1>2. ASSUME Create(p) PROVE TypeOK'
  <2>1. call[p].adap \in Adapters /\ nr[call[p].adap] \in Minors
    BY <1>2, HandNumber DEF Create, At
  <2>2. devList' \in Seq(Adapters)
    <3>1. devList # <<>> /\ devList[Len(devList)] = call[p].adap
      BY <1>2 DEF Create, At, Listed, InHand
    <3> QED
      BY <1>2, <3>1, ReturnsLast DEF Create
  <2> QED
    BY <1>2, <2>1, <2>2 DEF Create, Goto, At, moduleVars
<1>3. ASSUME Detach(p) PROVE TypeOK'
  <2>1. devList' \in Seq(Adapters)
    <3> DEFINE i == ByMinor(nr[call[p].adap])
    <3>1. i # 0 => i \in 1 .. Len(devList)
      BY FoundByMinor
    <3>2. i # 0 => RemoveAt(devList, i) \in Seq(Adapters)
      BY <3>1, Removal
    <3> QED
      BY <1>3, <3>2 DEF Detach
  <2> QED
    BY <1>3, <2>1 DEF Detach, Goto, At, moduleVars
<1>4. ASSUME Destroy(p) PROVE TypeOK'
  BY <1>4 DEF Destroy, Goto, Unlock, Return, NoCall, Calls, At, moduleVars
<1>5. ASSUME NEW a \in Adapters, NEW n \in Minors, AddAdapter(p, a, n) PROVE TypeOK'
  BY <1>5 DEF AddAdapter, Goto, Lock, Unlock, Return, NoCall, Calls, At, devVars
<1>6. ASSUME Added(p) PROVE TypeOK'
  <2>1. call[p].adap \in Adapters /\ nr[call[p].adap] \in Minors
    BY <1>6 DEF Added, At, Stages, Stage, Numbered, Registered, Assigned, Going, Adding,
       Deleting
  <2>2. CASE class' = class \cup {call[p].adap} /\ Goto(p, "notify")
    BY <1>6, <2>1, <2>2 DEF Added, Goto, Unlock, Return, At, devVars
  <2>3. CASE Unlock(p)
    <3>1. call' \in [Procs -> CallType] /\ coreLock' = NoProc
      BY <2>3, NoCallTyped DEF Unlock, Return, CallType
    <3>2. CASE class' = class \cup {call[p].adap} /\ UNCHANGED <<coreLock, idr, life, call>>
      BY <1>6, <2>1, <2>3, <3>1, <3>2 DEF Added, Goto, Unlock, Return, devVars, CallType
    <3>3. CASE /\ idr' = [idr EXCEPT ![nr[call[p].adap]] = NoAdapter]
               /\ life' = [life EXCEPT ![call[p].adap] = "out"] /\ UNCHANGED class
      BY <1>6, <2>1, <2>3, <3>1, <3>3 DEF Added, Goto, Unlock, Return, devVars, CallType
    <3> QED
      BY <1>6, <3>2, <3>3 DEF Added
  <2> QED
    BY <1>6, <2>2, <2>3 DEF Added
<1>7. ASSUME Notify(p) PROVE TypeOK'
  BY <1>7 DEF Notify, Goto, Unlock, Return, NoCall, Calls, At, moduleVars, devVars
<1>8. ASSUME NEW a \in Adapters, Unload(p, a) PROVE TypeOK'
  BY <1>8 DEF Unload, Goto, Unlock, Return, NoCall, Calls, At, devVars
<1>9. ASSUME DelAdapter(p) PROVE TypeOK'
  BY <1>9 DEF DelAdapter, Goto, Lock, Unlock, Return, NoCall, Calls, At, moduleVars,
     devVars
<1>10. ASSUME RegisterDriver(p) PROVE TypeOK'
  BY <1>10 DEF RegisterDriver, Goto, Unlock, Return, NoCall, Calls, At, devVars
<1>11. ASSUME Walk(p) PROVE TypeOK'
  <2>1. Calls("register", NoAdapter, RegisterWalk, NoMinor) \in CallType
    BY DEF CallType, Calls, RegisterWalk
  <2>2. call' \in [Procs -> CallType]
    BY <1>11, <2>1 DEF Walk, CallType
  <2> QED
    BY <1>11, <2>2 DEF Walk, Goto, Lock, At, moduleVars, devVars, CallType
<1>12. ASSUME DelDriver(p) PROVE TypeOK'
  BY <1>12 DEF DelDriver, Goto, Lock, Unlock, Return, NoCall, Calls, At, devVars
<1>13. ASSUME VisitNext(p) PROVE TypeOK'
  BY <1>13 DEF VisitNext, Goto, Unlock, Return, NoCall, Calls, At, moduleVars, devVars
<1>14. ASSUME Finish(p) PROVE TypeOK'
  BY <1>14 DEF Finish, Goto, Unlock, Return, NoCall, Calls, At, moduleVars
<1>15. ASSUME NEW n \in Minors, Open(p, n) PROVE TypeOK'
  BY <1>15 DEF Open, Goto, Unlock, Return, NoCall, Calls, At, moduleVars, devVars
<1>16. ASSUME OpenGet(p) PROVE TypeOK'
  <2>1. files' \in [Procs -> Adapters \cup {Closed}]
    <3>1. call[p].minor \in Minors
      BY <1>16 DEF OpenGet, At, Stages, Stage
    <3> QED
      BY <1>16, <3>1 DEF OpenGet, Found
  <2>2. call' \in [Procs -> CallType]
    BY <1>16, NoCallTyped DEF OpenGet, Return, CallType
  <2> QED
    BY <1>16, <2>1, <2>2 DEF OpenGet, Return, Goto, moduleVars, devVars, CallType
<1>17. ASSUME Release(p) PROVE TypeOK'
  BY <1>17 DEF Release, Goto, Unlock, Return, NoCall, Calls, At, moduleVars, devVars
<1> QED
  BY <1>1, <1>2, <1>3, <1>4, <1>5, <1>6, <1>7, <1>8, <1>9, <1>10, <1>11, <1>12, <1>13,
     <1>14, <1>15, <1>16, <1>17 DEF AdapterCalls, DriverCalls, DevCalls

-----------------------------------------------------------------------------
\* A step of p leaves the stage of another process alone: one that is inside
\* core_lock sees no other inside.
Apart(p) ==
    /\ \A q \in Procs \ {p} : pc'[q] = pc[q] /\ call'[q] = call[q]
    /\ coreLock' = coreLock \/ (coreLock \in {p, NoProc} /\ coreLock' \in {p, NoProc})
    /\ class \subseteq class' \/ coreLock = p
    /\ \/ devModule' = devModule \/ devModule = "out"
       \/ coreLock \in {p, NoProc} /\ \A q \in Procs \ {p} : pc[q] # "register"

\* So the stages of the others remain.
LEMMA OtherStages ==
    ASSUME TypeOK, Stages, NEW p \in Procs, Apart(p)
    PROVE  \A q \in Procs \ {p} : Stage(q)'
<1> SUFFICES ASSUME NEW q \in Procs \ {p} PROVE Stage(q)'
  OBVIOUS
<1>1. pc'[q] = pc[q] /\ call'[q] = call[q] /\ Stage(q)
  BY DEF Apart, Stages
<1>2. pc[q] \in Holding <=> coreLock' = q
  BY <1>1, OthersAssumption DEF Stage, Apart
<1>3. CASE coreLock \in {p, NoProc}
  <2>1. pc[q] \notin Holding
    BY <1>1, <1>3, OthersAssumption DEF Stage
  <2>2. pc[q] \in {"idle", "register", "del", "open"}
    BY <2>1 DEF TypeOK, Holding
  <2> QED
    BY <1>1, <1>2, <2>1, <2>2 DEF Stage, NoCall, Calls, Apart
<1>4. CASE coreLock \notin {p, NoProc}
  BY <1>1, <1>2, <1>4 DEF Stage, Apart
<1> QED
  BY <1>3, <1>4

\* Every step is apart in that sense: only the holder of core_lock takes an adapter
\* out, and i2c-dev does not leave while somebody registers it.
LEMMA StepApart ==
    ASSUME TypeOK, Stages, NEW p \in Procs, AdapterCalls(p) \/ DriverCalls(p) \/ DevCalls(p)
    PROVE  Apart(p)
<1> USE DEF TypeOK, Apart
<1>0. pc[p] \in Holding => coreLock = p
  BY DEF Stages, Stage
<1>b. call[p].op = "unregister" => \A q \in Procs : pc[q] # "register"
  BY DEF Stages, Stage
<1>1. ASSUME Attach(p) PROVE Apart(p)
  BY <1>0, <1>1 DEF Attach, Holding, Goto, At, moduleVars
<1>2. ASSUME Create(p) PROVE Apart(p)
  BY <1>0, <1>2 DEF Create, Holding, Goto, At, moduleVars
<1>3. ASSUME Detach(p) PROVE Apart(p)
  BY <1>0, <1>3 DEF Detach, Holding, Goto, At, moduleVars
<1>4. ASSUME Destroy(p) PROVE Apart(p)
  BY <1>0, <1>4 DEF Destroy, Holding, Goto, At, moduleVars
<1>5. ASSUME NEW a \in Adapters, NEW n \in Minors, AddAdapter(p, a, n) PROVE Apart(p)
  BY <1>0, <1>5 DEF AddAdapter, Holding, Goto, Lock, At, devVars
<1>6. ASSUME Added(p) PROVE Apart(p)
  BY <1>0, <1>6 DEF Added, Holding, Goto, Unlock, Return, At, devVars
<1>7. ASSUME Notify(p) PROVE Apart(p)
  BY <1>0, <1>7 DEF Notify, Holding, Goto, At, moduleVars, devVars
<1>8. ASSUME NEW a \in Adapters, Unload(p, a) PROVE Apart(p)
  BY <1>0, <1>8 DEF Unload, Holding, Goto, At, devVars
<1>9. ASSUME DelAdapter(p) PROVE Apart(p)
  BY <1>0, <1>9 DEF DelAdapter, Holding, Goto, Lock, At, moduleVars, devVars
<1>10. ASSUME RegisterDriver(p) PROVE Apart(p)
  BY <1>0, <1>10 DEF RegisterDriver, Holding, Goto, At, devVars
<1>11. ASSUME Walk(p) PROVE Apart(p)
  BY <1>0, <1>11 DEF Walk, Holding, Goto, Lock, At, moduleVars, devVars
<1>12. ASSUME DelDriver(p) PROVE Apart(p)
  BY <1>0, <1>12 DEF DelDriver, Holding, Goto, Lock, At, devVars
<1>13. ASSUME VisitNext(p) PROVE Apart(p)
  BY <1>0, <1>13 DEF VisitNext, Holding, Goto, At, moduleVars, devVars
<1>14. ASSUME Finish(p) PROVE Apart(p)
  BY <1>0, <1>b, <1>14 DEF Finish, Holding, Goto, Unlock, Return, At, moduleVars
<1>15. ASSUME NEW n \in Minors, Open(p, n) PROVE Apart(p)
  BY <1>0, <1>15 DEF Open, Holding, Goto, At, moduleVars, devVars
<1>16. ASSUME OpenGet(p) PROVE Apart(p)
  BY <1>0, <1>16 DEF OpenGet, Holding, Goto, Return, At, moduleVars, devVars
<1>17. ASSUME Release(p) PROVE Apart(p)
  BY <1>0, <1>17 DEF Release, Holding, At, moduleVars, devVars
<1> QED
  BY <1>1, <1>2, <1>3, <1>4, <1>5, <1>6, <1>7, <1>8, <1>9, <1>10, <1>11, <1>12, <1>13,
     <1>14, <1>15, <1>16, <1>17 DEF AdapterCalls, DriverCalls, DevCalls

\* core_lock has one holder, and each call goes through its stages.
LEMMA StagesStep ==
    ASSUME TypeOK, TypeOK', Stages, Numbered, [Next]_vars
    PROVE  Stages'
<1>0. CASE UNCHANGED vars
  BY <1>0 DEF vars, moduleVars, devVars, Stages, Stage, NoCall, Calls
<1> SUFFICES ASSUME NEW p \in Procs, AdapterCalls(p) \/ DriverCalls(p) \/ DevCalls(p)
             PROVE  (onBus' <=> devModule' # "out") /\ Stage(p)'
  BY <1>0, StepApart, OtherStages DEF Next, Stages
<1> USE DEF Stage, Holding, NoCall, Calls
<1>a. Stage(p) /\ p # NoProc /\ (onBus <=> devModule # "out")
  BY OthersAssumption DEF Stages
<1>1. ASSUME Attach(p) PROVE (onBus' <=> devModule' # "out") /\ Stage(p)'
  BY <1>a, <1>1 DEF Attach, TypeOK, Goto, At, moduleVars
<1>2. ASSUME Create(p) PROVE (onBus' <=> devModule' # "out") /\ Stage(p)'
  BY <1>a, <1>2 DEF Create, TypeOK, Goto, At, moduleVars
<1>3. ASSUME Detach(p) PROVE (onBus' <=> devModule' # "out") /\ Stage(p)'
  BY <1>a, <1>3 DEF Detach, TypeOK, Goto, At, moduleVars
<1>4. ASSUME Destroy(p) PROVE (onBus' <=> devModule' # "out") /\ Stage(p)'
  BY <1>a, <1>4 DEF Destroy, TypeOK, Goto, At, moduleVars
<1>5. ASSUME NEW a \in Adapters, NEW n \in Minors, AddAdapter(p, a, n)
   PROVE (onBus' <=> devModule' # "out") /\ Stage(p)'
  BY <1>a, <1>5 DEF AddAdapter, TypeOK, Goto, Lock, At, devVars
<1>6. ASSUME Added(p) PROVE (onBus' <=> devModule' # "out") /\ Stage(p)'
  BY <1>a, <1>6 DEF Added, TypeOK, Goto, Unlock, Return, At, devVars
<1>7. ASSUME Notify(p) PROVE (onBus' <=> devModule' # "out") /\ Stage(p)'
  BY <1>a, <1>7 DEF Notify, Numbered, Registered, Assigned, Going, Adding, Deleting,
     TypeOK, Goto, At, moduleVars, devVars
<1>8. ASSUME NEW a \in Adapters, Unload(p, a)
   PROVE (onBus' <=> devModule' # "out") /\ Stage(p)'
  BY <1>a, <1>8 DEF Unload, TypeOK, Goto, At, devVars
<1>9. ASSUME DelAdapter(p) PROVE (onBus' <=> devModule' # "out") /\ Stage(p)'
  BY <1>a, <1>9 DEF DelAdapter, Numbered, Registered, Assigned, Going, Adding, Deleting,
     TypeOK, Goto, Lock, At, moduleVars, devVars
<1>10. ASSUME RegisterDriver(p) PROVE (onBus' <=> devModule' # "out") /\ Stage(p)'
  BY <1>a, <1>10 DEF RegisterDriver, TypeOK, Goto, At, devVars
<1>11. ASSUME Walk(p) PROVE (onBus' <=> devModule' # "out") /\ Stage(p)'
  BY <1>a, <1>11 DEF Walk, RegisterWalk, TypeOK, Goto, Lock, At, moduleVars, devVars
<1>12. ASSUME DelDriver(p) PROVE (onBus' <=> devModule' # "out") /\ Stage(p)'
  BY <1>a, <1>12 DEF DelDriver, TypeOK, Goto, Lock, At, devVars
<1>13. ASSUME VisitNext(p) PROVE (onBus' <=> devModule' # "out") /\ Stage(p)'
  BY <1>13 DEF VisitNext, TypeOK, Goto, At, moduleVars, devVars
<1>14. ASSUME Finish(p) PROVE (onBus' <=> devModule' # "out") /\ Stage(p)'
  BY <1>a, <1>14 DEF Finish, TypeOK, Goto, Unlock, Return, At, moduleVars
<1>15. ASSUME NEW n \in Minors, Open(p, n)
   PROVE (onBus' <=> devModule' # "out") /\ Stage(p)'
  BY <1>a, <1>15 DEF Open, TypeOK, Goto, At, moduleVars, devVars
<1>16. ASSUME OpenGet(p) PROVE (onBus' <=> devModule' # "out") /\ Stage(p)'
  BY <1>a, <1>16 DEF OpenGet, TypeOK, Goto, Return, At, moduleVars, devVars
<1>17. ASSUME Release(p) PROVE (onBus' <=> devModule' # "out") /\ Stage(p)'
  BY <1>a, <1>17 DEF Release, TypeOK, At, moduleVars, devVars
<1> QED
  BY <1>1, <1>2, <1>3, <1>4, <1>5, <1>6, <1>7, <1>8, <1>9, <1>10, <1>11, <1>12, <1>13,
     <1>14, <1>15, <1>16, <1>17 DEF AdapterCalls, DriverCalls, DevCalls

\* An adapter keeps its number and its place in the idr from the time it is added
\* to the end of its removal.
LEMMA NumberedStep ==
    ASSUME TypeOK, TypeOK', Stages, Numbered, [Next]_vars
    PROVE  Numbered'
<1>0. CASE UNCHANGED vars
  BY <1>0 DEF vars, moduleVars, devVars, Numbered, Registered, Assigned, Going, Adding,
     Deleting, At
<1> SUFFICES ASSUME NEW p \in Procs, AdapterCalls(p) \/ DriverCalls(p) \/ DevCalls(p)
             PROVE  Numbered'
  BY <1>0 DEF Next
<1> USE DEF Numbered, Registered, Assigned, Going, Adding, Deleting, TypeOK, NoCall, Calls
<1>a. Stage(p)
  BY DEF Stages
<1>1. ASSUME Attach(p) PROVE Numbered'
  BY <1>1 DEF Attach, Stage, Goto, Return, At, moduleVars
<1>2. ASSUME Create(p) PROVE Numbered'
  BY <1>2 DEF Create, Stage, Goto, Return, At, moduleVars
<1>3. ASSUME Detach(p) PROVE Numbered'
  BY <1>3 DEF Detach, Stage, Goto, Return, At, moduleVars
<1>4. ASSUME Destroy(p) PROVE Numbered'
  BY <1>4 DEF Destroy, Stage, Goto, Return, At, moduleVars
<1>5. ASSUME NEW a \in Adapters, NEW n \in Minors, AddAdapter(p, a, n) PROVE Numbered'
  <2>1. Registered'
    BY <1>a, AdaptersAssumption, <1>5 DEF AddAdapter, Stage, Goto, Lock, Return, At,
       devVars
  <2>2. Assigned'
    <3> SUFFICES ASSUME NEW m \in Minors, idr'[m] # NoAdapter
                 PROVE  /\ nr'[idr'[m]] = m
                        /\ \/ idr'[m] \in class'
                           \/ \E q \in Procs : At(q, "add")' /\ call'[q].adap = idr'[m]
      BY DEF Assigned
    <3>1. CASE m = n
      BY <1>5, <3>1 DEF AddAdapter, Lock, Goto, At
    <3>2. CASE m # n
      <4>1. idr'[m] = idr[m] /\ idr[m] \in Adapters /\ nr[idr[m]] = m
        BY <1>5, <3>2 DEF AddAdapter
      <4>2. idr[m] \in class \/ \E q \in Procs : At(q, "add") /\ call[q].adap = idr[m]
        BY <4>1, AdaptersAssumption
      <4>3. CASE idr[m] \in class
        BY <1>5, <4>1, <4>3 DEF AddAdapter
      <4>4. CASE \E q \in Procs : At(q, "add") /\ call[q].adap = idr[m]
        <5>1. PICK q \in Procs : At(q, "add") /\ call[q].adap = idr[m]
          BY <4>4
        <5>2. q # p /\ call[q].op = "add" /\ idr[m] # a
          BY <1>5, <5>1 DEF AddAdapter, At, Stages, Stage
        <5>3. pc'[q] = pc[q] /\ call'[q] = call[q] /\ nr'[idr[m]] = nr[idr[m]]
          BY <1>5, <4>1, <5>2 DEF AddAdapter, Goto
        <5> QED
          BY <4>1, <5>1, <5>3 DEF At
      <4> QED
        BY <4>2, <4>3, <4>4
    <3> QED
      BY <3>1, <3>2
  <2>3. Going'
    BY <1>5 DEF AddAdapter, Stage, Goto, Lock, Return, At, devVars
  <2>4. Adding'
    BY <1>a, AdaptersAssumption, <1>5 DEF AddAdapter, Stage, Goto, Lock, Return, At,
       devVars
  <2>5. Deleting'
    BY <1>5 DEF AddAdapter, Stage, Goto, Lock, Return, At, devVars
  <2> QED
    BY <2>1, <2>2, <2>3, <2>4, <2>5
<1>6. ASSUME Added(p) PROVE Numbered'
  <2>1. Registered'
    BY <1>a, <1>6 DEF Added, Stage, Goto, Unlock, Return, At, devVars
  <2>2. Assigned'
    BY <1>a, AdaptersAssumption, OthersAssumption, <1>6
       DEF Added, Stage, Goto, Unlock, Return, At, devVars
  <2>3. Going'
    BY <1>6 DEF Added, Stage, Goto, Unlock, Return, At, devVars
  <2>4. Adding'
    <3>1. call[p].op = "add" /\ call[p].adap \notin class /\ call[p].adap \in Adapters
          /\ nr[call[p].adap] \in Minors /\ life[call[p].adap] = "loaded"
          /\ idr[nr[call[p].adap]] = call[p].adap
      BY <1>a, <1>6 DEF Added, At, Stage
    <3>2. \A q \in Procs \ {p} : ~ At(q, "add")
      BY <1>6 DEF Added, At, Stages, Stage, Holding
    <3>3. CASE class' = class \cup {call[p].adap} /\ Goto(p, "notify")
               /\ UNCHANGED <<idr, life, call>>
      BY <1>6, <3>1, <3>2, <3>3 DEF Added, Goto, At
    <3>4. CASE Return(p) /\ life' = [life EXCEPT ![call[p].adap] = "out"] /\ UNCHANGED class
      <4> SUFFICES ASSUME NEW q \in Procs \ {p}, call[q].op = "add"
                   PROVE  call[q].adap \in Adapters /\ life'[call[q].adap] = "loaded"
                          /\ call[q].adap \in class
        BY <3>2, <3>4 DEF Return, Goto, At
      <4> QED
        BY <3>1, <3>2, <3>4
    <3> QED
      BY <1>6, <3>3, <3>4 DEF Added, Unlock
  <2>5. Deleting'
    BY <1>a, <1>6 DEF Added, Stage, Goto, Unlock, Return, At, devVars
  <2> QED
    BY <2>1, <2>2, <2>3, <2>4, <2>5
<1>7. ASSUME Notify(p) PROVE Numbered'
  BY <1>7 DEF Notify, Stage, Goto, Return, At, moduleVars, devVars
<1>8. ASSUME NEW a \in Adapters, Unload(p, a) PROVE Numbered'
  BY <1>8 DEF Unload, Stage, Goto, Return, At, devVars
<1>9. ASSUME DelAdapter(p) PROVE Numbered'
  BY <1>9 DEF DelAdapter, Stage, Goto, Lock, Return, At, moduleVars, devVars
<1>10. ASSUME RegisterDriver(p) PROVE Numbered'
  BY <1>10 DEF RegisterDriver, Stage, Goto, Return, At, devVars
<1>11. ASSUME Walk(p) PROVE Numbered'
  BY <1>11 DEF Walk, Stage, Goto, Lock, Return, At, moduleVars, devVars
<1>12. ASSUME DelDriver(p) PROVE Numbered'
  BY <1>12 DEF DelDriver, Stage, Goto, Lock, Return, At, devVars
<1>13. ASSUME VisitNext(p) PROVE Numbered'
  BY <1>13 DEF VisitNext, Stage, Goto, Return, At, moduleVars, devVars
<1>14. ASSUME Finish(p) PROVE Numbered'
  <2>1. Registered'
    BY <1>14 DEF Finish, Stage, Goto, Unlock, Return, At, moduleVars
  <2>2. Assigned'
    BY <1>14 DEF Finish, Stage, Goto, Unlock, Return, At, moduleVars
  <2>3. Going'
    BY <1>14 DEF Finish, Stage, Goto, Unlock, Return, At, moduleVars
  <2>4. Adding'
    BY <1>14 DEF Finish, Stage, Goto, Unlock, Return, At, moduleVars
  <2>5. Deleting'
    BY <1>14 DEF Finish, Stage, Goto, Unlock, Return, At, moduleVars
  <2> QED
    BY <2>1, <2>2, <2>3, <2>4, <2>5
<1>15. ASSUME NEW n \in Minors, Open(p, n) PROVE Numbered'
  BY <1>15 DEF Open, Stage, Goto, Return, At, moduleVars, devVars
<1>16. ASSUME OpenGet(p) PROVE Numbered'
  BY <1>16 DEF OpenGet, Stage, Goto, Return, At, moduleVars, devVars
<1>17. ASSUME Release(p) PROVE Numbered'
  BY <1>17 DEF Release, Stage, Goto, Return, At, moduleVars, devVars
<1> QED
  BY <1>1, <1>2, <1>3, <1>4, <1>5, <1>6, <1>7, <1>8, <1>9, <1>10, <1>11, <1>12, <1>13,
     <1>14, <1>15, <1>16, <1>17 DEF AdapterCalls, DriverCalls, DevCalls

\* i2c_get_adapter grants a file only an adapter that is registered and stays.
LEMMA FilesStep ==
    ASSUME TypeOK, TypeOK', Stages, Numbered, OpenFilesReachAdapter, [Next]_vars
    PROVE  OpenFilesReachAdapter'
<1> USE DEF OpenFilesReachAdapter
<1>0. CASE UNCHANGED vars
  BY <1>0 DEF vars, moduleVars, devVars
<1> SUFFICES ASSUME NEW p \in Procs, AdapterCalls(p) \/ DriverCalls(p) \/ DevCalls(p)
             PROVE  OpenFilesReachAdapter'
  BY <1>0 DEF Next
<1>a. Stage(p)
  BY DEF Stages
<1> USE DEF TypeOK
<1>1. ASSUME Attach(p) PROVE OpenFilesReachAdapter'
  BY <1>1 DEF Attach, Stage, Goto, At, moduleVars
<1>2. ASSUME Create(p) PROVE OpenFilesReachAdapter'
  BY <1>2 DEF Create, Stage, Goto, At, moduleVars
<1>3. ASSUME Detach(p) PROVE OpenFilesReachAdapter'
  BY <1>3 DEF Detach, Stage, Goto, At, moduleVars
<1>4. ASSUME Destroy(p) PROVE OpenFilesReachAdapter'
  BY <1>4 DEF Destroy, Stage, Goto, At, moduleVars
<1>5. ASSUME NEW a \in Adapters, NEW n \in Minors, AddAdapter(p, a, n)
   PROVE OpenFilesReachAdapter'
  BY <1>5 DEF AddAdapter, Stage, Goto, Lock, At, devVars
<1>6. ASSUME Added(p) PROVE OpenFilesReachAdapter'
  BY <1>a, <1>6 DEF Added, Stage, Numbered, Registered, Adding, Deleting, Goto, Unlock,
     Return, At, devVars
<1>7. ASSUME Notify(p) PROVE OpenFilesReachAdapter'
  BY <1>7 DEF Notify, Stage, Goto, At, moduleVars, devVars
<1>8. ASSUME NEW a \in Adapters, Unload(p, a) PROVE OpenFilesReachAdapter'
  BY <1>8 DEF Unload, Stage, Goto, At, devVars
<1>9. ASSUME DelAdapter(p) PROVE OpenFilesReachAdapter'
  BY <1>9 DEF DelAdapter, Stage, Goto, Lock, At, moduleVars, devVars
<1>10. ASSUME RegisterDriver(p) PROVE OpenFilesReachAdapter'
  BY <1>10 DEF RegisterDriver, Stage, Goto, At, devVars
<1>11. ASSUME Walk(p) PROVE OpenFilesReachAdapter'
  BY <1>11 DEF Walk, Stage, Goto, Lock, At, moduleVars, devVars
<1>12. ASSUME DelDriver(p) PROVE OpenFilesReachAdapter'
  BY <1>12 DEF DelDriver, Stage, Goto, Lock, At, devVars
<1>13. ASSUME VisitNext(p) PROVE OpenFilesReachAdapter'
  BY <1>13 DEF VisitNext, Stage, Goto, At, moduleVars, devVars
<1>14. ASSUME Finish(p) PROVE OpenFilesReachAdapter'
  BY <1>14 DEF Finish, Stage, Numbered, Registered, Adding, Deleting, Goto, Unlock,
     Return, At, moduleVars
<1>15. ASSUME NEW n \in Minors, Open(p, n) PROVE OpenFilesReachAdapter'
  BY <1>15 DEF Open, Stage, Goto, At, moduleVars, devVars
<1>16. ASSUME OpenGet(p) PROVE OpenFilesReachAdapter'
  <2> DEFINE b == idr[call[p].minor]
  <2>1. SUFFICES ASSUME Found(b)
                 PROVE  b \in class /\ life[b] = "loaded"
    BY <1>16 DEF OpenGet, moduleVars, Return
  <2>2. call[p].minor \in Minors /\ b # NoAdapter /\ b \in Adapters /\ life[b] # "going"
    BY <1>a, <1>16, <2>1 DEF OpenGet, At, Stage, Found
  <2>3. \A q \in Procs : ~ At(q, "add")
    BY <1>16, OthersAssumption DEF OpenGet, At, Stages, Stage, Holding
  <2>4. b \in class
    BY <2>2, <2>3 DEF Numbered, Assigned
  <2> QED
    BY <2>2, <2>4 DEF Numbered, Registered
<1>17. ASSUME Release(p) PROVE OpenFilesReachAdapter'
  BY <1>17 DEF Release, Stage, At, moduleVars, devVars
<1> QED
  BY <1>1, <1>2, <1>3, <1>4, <1>5, <1>6, <1>7, <1>8, <1>9, <1>10, <1>11, <1>12, <1>13,
     <1>14, <1>15, <1>16, <1>17 DEF AdapterCalls, DriverCalls, DevCalls

-----------------------------------------------------------------------------
\* No other process is inside core_lock.
LEMMA Alone ==
    ASSUME Stages, NEW p \in Procs, pc[p] \in Holding
    PROVE  \A q \in Procs \ {p} : pc[q] \notin Holding
  BY DEF Stages, Stage

\* Steps that leave the list and the nodes alone.
ListKept(p) ==
    /\ UNCHANGED <<devList, nodes>> /\ \A a \in class : nr'[a] = nr[a]
    /\ \A i \in DOMAIN devList : devList[i] \in class'
    /\ \A q \in Procs : q # p => pc'[q] = pc[q] /\ call'[q] = call[q]
    /\ pc[p] \notin {"create", "destroy"} /\ pc'[p] \notin {"create", "destroy"}
    /\ \A q \in Procs : At(q, "destroy") => nr'[call[q].adap] = nr[call[q].adap]

\* They leave the whole of Listed alone.
LEMMA ListedKept ==
    ASSUME TypeOK, Listed, NEW p \in Procs, ListKept(p)
    PROVE  Listed'
<1>1. /\ devList' = devList /\ nodes' = nodes
      /\ \A i \in DOMAIN devList : devList[i] \in class' /\ nr'[devList[i]] = nr[devList[i]]
  BY DEF ListKept, Listed, Live
<1>2. /\ \A q \in Procs : At(q, "create")' <=> At(q, "create")
      /\ \A q \in Procs : At(q, "destroy")' <=> At(q, "destroy")
      /\ \A q \in Procs : At(q, "create") \/ At(q, "destroy") => call'[q] = call[q]
  BY DEF ListKept, At
<1>3. \A q \in Procs : At(q, "destroy") => nr'[call[q].adap] = nr[call[q].adap]
  BY DEF ListKept
<1>4. Live'
  BY <1>1 DEF Live
<1>5. Once'
  BY <1>1, <1>2 DEF Once, Listed
<1>6. InHand'
  BY <1>1, <1>2 DEF InHand, Listed, Served
<1>7. WithNode'
  BY <1>1, <1>2 DEF WithNode, Listed
<1>8. ASSUME NEW n \in nodes PROVE Backed(n)'
  <2>1. Backed(n)
    BY DEF Listed
  <2>2. CASE \E i \in DOMAIN devList :
                nr[devList[i]] = n /\ (i = Len(devList) => \A q \in Procs : ~ At(q, "create"))
    BY <1>1, <1>2, <2>2 DEF Backed
  <2>3. CASE \E q \in Procs : At(q, "destroy") /\ nr[call[q].adap] = n
    BY <1>2, <1>3, <2>3 DEF Backed
  <2> QED
    BY <2>1, <2>2, <2>3 DEF Backed
<1> QED
  BY <1>1, <1>4, <1>5, <1>6, <1>7, <1>8 DEF Listed

\* get_free_i2c_dev: the new i2c_dev comes last, and its node is still to come.
LEMMA AttachListed ==
    ASSUME TypeOK, Stages, Numbered, Listed, NEW p \in Procs, Attach(p)
    PROVE  Listed'
<1> DEFINE a == call[p].adap
<1>1. pc[p] = "attach" /\ a \in class /\ a \in Adapters
  BY HandNumber DEF Attach, At
<1>2. \A q \in Procs : ~ At(q, "create") /\ ~ At(q, "destroy")
  BY <1>1, Alone DEF At, Holding
<1>3. CASE devList' = Append(devList, a) /\ Goto(p, "create")
  <2>1. /\ DOMAIN devList = 1 .. Len(devList) /\ DOMAIN devList' = 1 .. Len(devList) + 1
        /\ Len(devList) \in Nat /\ Len(devList') = Len(devList) + 1
        /\ devList'[Len(devList) + 1] = a
        /\ \A i \in 1 .. Len(devList) : devList'[i] = devList[i]
    BY <1>1, <1>3, AppendProperties DEF TypeOK
  <2>2. /\ class' = class /\ nr' = nr /\ nodes' = nodes /\ call' = call
        /\ At(p, "create")' /\ \A q \in Procs : q # p => ~ At(q, "create")'
        /\ \A q \in Procs : ~ At(q, "destroy")'
    BY <1>2, <1>3 DEF Attach, Goto, At, TypeOK, moduleVars
  <2>3. Live'
    BY <1>1, <2>1, <2>2 DEF Live, Listed
  <2>4. Once'
    BY <1>2, <2>1, <2>2 DEF Once, Listed
  <2>5. InHand'
    BY <2>1, <2>2 DEF InHand
  <2>6. WithNode'
    BY <1>2, <2>1, <2>2 DEF WithNode, Listed
  <2>7. \A n \in nodes : Backed(n)'
    BY <1>2, <2>1, <2>2 DEF Backed, Listed
  <2> QED
    BY <2>2, <2>3, <2>4, <2>5, <2>6, <2>7 DEF Listed
<1>4. CASE UNCHANGED devList /\ Goto(p, "next")
  <2>1. ListKept(p)
    BY <1>1, <1>2, <1>4 DEF ListKept, Attach, Goto, moduleVars, Listed, Live, TypeOK
  <2> QED
    BY <2>1, ListedKept
<1> QED
  BY <1>3, <1>4 DEF Attach

\* device_create gives the last i2c_dev its node, or refuses because the adapter
\* has an i2c_dev with a node before it, or fails; then the last one goes.
LEMMA CreateListed ==
    ASSUME TypeOK, Stages, Numbered, Listed, NEW p \in Procs, Create(p)
    PROVE  Listed'
<1> DEFINE a == call[p].adap
           L == Len(devList)
<1>1. pc[p] = "create" /\ a \in class /\ a \in Adapters
  BY HandNumber DEF Create, At
<1>2. /\ \A q \in Procs : q # p => ~ At(q, "create")
      /\ \A q \in Procs : ~ At(q, "destroy")
  BY <1>1, Alone DEF At, Holding
<1>3. /\ class' = class /\ nr' = nr /\ call' = call
      /\ \A q \in Procs : ~ At(q, "create")' /\ ~ At(q, "destroy")'
  BY <1>2 DEF Create, Goto, At, TypeOK, moduleVars
<1>4. /\ devList # <<>> /\ devList[L] = a /\ L \in 1 .. L /\ DOMAIN devList = 1 .. L
  BY <1>1 DEF Listed, InHand, At, TypeOK
<1>5. CASE nr[a] \notin nodes /\ nodes' = nodes \cup {nr[a]} /\ UNCHANGED devList
  <2>1. \A i \in 1 .. L - 1 : nr[devList[i]] \in nodes
    BY <1>4 DEF Listed, WithNode
  <2>2. \A i \in 1 .. L - 1 : devList[i] # a
    BY <1>5, <2>1
  <2>3. Live'
    BY <1>3, <1>5 DEF Live, Listed
  <2>4. Once'
    BY <1>4, <1>5, <2>2 DEF Once, Listed
  <2>5. InHand'
    BY <1>3 DEF InHand
  <2>6. WithNode'
    BY <1>3, <1>4, <1>5, <2>1 DEF WithNode
  <2>7. \A n \in nodes' : Backed(n)'
    BY <1>2, <1>3, <1>4, <1>5 DEF Backed, Listed
  <2> QED
    BY <2>3, <2>4, <2>5, <2>6, <2>7 DEF Listed
<1>6. CASE ReturnDev(a) /\ UNCHANGED nodes
  <2>1. /\ devList' \in Seq(Adapters) /\ Len(devList') = L - 1
        /\ \A j \in 1 .. L - 1 : devList'[j] = devList[j]
    BY <1>4, <1>6, ReturnsLast DEF TypeOK
  <2>2. DOMAIN devList' = 1 .. L - 1
    BY <2>1
  <2>3. Live'
    BY <1>3, <1>4, <2>1, <2>2 DEF Live, Listed
  <2>4. Once'
    BY <1>4, <2>1, <2>2 DEF Once, Listed
  <2>5. InHand'
    BY <1>3 DEF InHand
  <2>6. WithNode'
    BY <1>3, <1>4, <1>6, <2>1, <2>2 DEF WithNode, Listed
  <2>7. ASSUME NEW n \in nodes PROVE Backed(n)'
    <3>1. PICK i \in DOMAIN devList :
              nr[devList[i]] = n /\ (i = L => \A q \in Procs : ~ At(q, "create"))
      BY <1>2 DEF Backed, Listed
    <3>2. i # L
      BY <1>1, <3>1 DEF At
    <3>3. i \in DOMAIN devList' /\ nr'[devList'[i]] = n
      BY <1>3, <1>4, <2>1, <2>2, <3>1, <3>2
    <3> QED
      BY <1>3, <3>3 DEF Backed
  <2> QED
    BY <1>6, <2>3, <2>4, <2>5, <2>6, <2>7 DEF Listed
<1> QED
  BY <1>5, <1>6 DEF Create

\* i2cdev_detach_adapter takes out the adapter's only i2c_dev; its node is next.
LEMMA DetachListed ==
    ASSUME TypeOK, Stages, Numbered, Listed, NEW p \in Procs, Detach(p)
    PROVE  Listed'
<1> DEFINE a == call[p].adap
           L == Len(devList)
           k == ByMinor(nr[a])
<1>1. pc[p] = "detach" /\ a \in class /\ a \in Adapters
  BY HandNumber DEF Detach, At
<1>2. /\ \A q \in Procs : ~ At(q, "create") /\ ~ At(q, "destroy")
      /\ DOMAIN devList = 1 .. L /\ L \in Nat
  BY <1>1, Alone DEF At, Holding, TypeOK
<1>3. CASE k = 0
  <2>1. ListKept(p)
    BY <1>1, <1>2, <1>3 DEF ListKept, Detach, Goto, moduleVars, Listed, Live, TypeOK
  <2> QED
    BY <2>1, ListedKept
<1>4. CASE k # 0
  <2>1. k \in 1 .. L /\ nr[devList[k]] = nr[a]
    BY <1>2, <1>4, FoundByMinor DEF TypeOK
  <2>2. devList' = RemoveAt(devList, k) /\ Goto(p, "destroy")
    BY <1>4 DEF Detach
  <2> HIDE DEF k
  <2>3. devList[k] = a
    BY <1>1, <1>2, <2>1 DEF Numbered, Registered, Listed, Live
  <2>4. /\ devList' \in Seq(Adapters) /\ Len(devList') = L - 1
        /\ \A j \in 1 .. L - 1 : devList'[j] = IF j < k THEN devList[j] ELSE devList[j + 1]
    <3>1. devList \in Seq(Adapters) /\ k \in 1 .. Len(devList)
      BY <2>1 DEF TypeOK
    <3>2. /\ RemoveAt(devList, k) \in Seq(Adapters)
          /\ Len(RemoveAt(devList, k)) = Len(devList) - 1
          /\ \A j \in 1 .. Len(devList) - 1 :
                RemoveAt(devList, k)[j] = IF j < k THEN devList[j] ELSE devList[j + 1]
      BY <3>1, Removal
    <3> QED
      BY <2>2, <3>2
  <2>5. DOMAIN devList' = 1 .. L - 1
    BY <2>4
  <2>6. /\ class' = class /\ nr' = nr /\ call' = call /\ nodes' = nodes
        /\ At(p, "destroy")' /\ \A q \in Procs : q # p => ~ At(q, "destroy")'
        /\ \A q \in Procs : ~ At(q, "create")'
    BY <1>2, <2>2 DEF Detach, Goto, At, TypeOK, moduleVars
  <2>7. \A j \in 1 .. L : j # k => devList[j] # a
    BY <1>2, <2>1, <2>3 DEF Listed, Once
  <2>8. \A i, j \in 1 .. L : devList[i] = devList[j] => i = j
    BY <1>2 DEF Listed, Once
  <2>9. Live'
    BY <1>2, <2>4, <2>5, <2>6 DEF Live, Listed
  <2>10. Once'
    <3> SUFFICES ASSUME NEW i \in 1 .. L - 1, NEW j \in 1 .. L - 1, i < j
                 PROVE  devList'[i] # devList'[j]
      BY <2>5 DEF Once
    <3> DEFINE f(m) == IF m < k THEN m ELSE m + 1
    <3>1. f(i) \in 1 .. L /\ f(j) \in 1 .. L /\ f(i) # f(j)
      BY <1>2, <2>1
    <3>2. devList'[i] = devList[f(i)] /\ devList'[j] = devList[f(j)]
      BY <2>4
    <3> QED
      BY <2>8, <3>1, <3>2
  <2>11. InHand'
    <3>1. \A j \in 1 .. L - 1 : devList'[j] # a
      BY <1>2, <2>1, <2>4, <2>7
    <3> QED
      BY <2>5, <2>6, <3>1 DEF InHand, Served
  <2>12. WithNode'
    BY <1>2, <2>4, <2>5, <2>6 DEF WithNode, Listed
  <2>13. ASSUME NEW n \in nodes PROVE Backed(n)'
    <3>1. PICK i \in 1 .. L : nr[devList[i]] = n
      BY <1>2 DEF Backed, Listed
    <3>2. CASE i = k
      BY <2>3, <2>6, <3>1, <3>2 DEF Backed
    <3>3. CASE i # k
      <4> DEFINE j == IF i < k THEN i ELSE i - 1
      <4>1. j \in 1 .. L - 1 /\ devList'[j] = devList[i]
        BY <1>2, <2>1, <2>4, <3>3
      <4> QED
        BY <2>5, <2>6, <3>1, <4>1 DEF Backed
    <3> QED
      BY <3>2, <3>3
  <2> QED
    BY <2>6, <2>9, <2>10, <2>11, <2>12, <2>13 DEF Listed
<1> QED
  BY <1>3, <1>4

\* device_destroy takes away the node whose i2c_dev went.
LEMMA DestroyListed ==
    ASSUME TypeOK, Stages, Numbered, Listed, NEW p \in Procs, Destroy(p)
    PROVE  Listed'
<1> DEFINE a == call[p].adap
<1>1. pc[p] = "destroy" /\ a \in class /\ ~ Served(a)
  BY HandNumber DEF Destroy, At, Listed, InHand
<1>2. /\ \A q \in Procs : ~ At(q, "create")
      /\ \A q \in Procs : q # p => ~ At(q, "destroy")
  BY <1>1, Alone DEF At, Holding
<1>3. /\ class' = class /\ nr' = nr /\ devList' = devList /\ nodes' = nodes \ {nr[a]}
      /\ \A q \in Procs : ~ At(q, "create")' /\ ~ At(q, "destroy")'
  BY <1>2 DEF Destroy, Goto, At, TypeOK, moduleVars
<1>4. \A i \in DOMAIN devList : nr[devList[i]] # nr[a]
  BY <1>1 DEF Served, Numbered, Registered, Listed, Live
<1>5. Live'
  BY <1>3 DEF Live, Listed
<1>6. Once'
  BY <1>2, <1>3 DEF Once, Listed
<1>7. InHand'
  BY <1>3 DEF InHand
<1>8. WithNode'
  BY <1>2, <1>3, <1>4 DEF WithNode, Listed
<1>9. \A n \in nodes' : Backed(n)'
  BY <1>2, <1>3 DEF Backed, Listed
<1> QED
  BY <1>5, <1>6, <1>7, <1>8, <1>9 DEF Listed

\* The list and the nodes after any step.  An adapter leaves the class only when
\* i2c-dev has let it go.
LEMMA ListedStep ==
    ASSUME TypeOK, TypeOK', Stages, Numbered, Listed, Serving, [Next]_vars
    PROVE  Listed'
<1>0. CASE UNCHANGED vars
  BY <1>0 DEF vars, moduleVars, devVars, Listed, Live, Once, InHand, Served, WithNode,
     Backed, At
<1> SUFFICES ASSUME NEW p \in Procs, AdapterCalls(p) \/ DriverCalls(p) \/ DevCalls(p)
             PROVE  Listed'
  BY <1>0 DEF Next
<1>a. Stage(p) /\ \A i \in DOMAIN devList : devList[i] \in class
  BY DEF Stages, Listed, Live
<1>b. coreLock \in {NoProc, p} => \A q \in Procs : q # p => ~ At(q, "destroy")
  BY OthersAssumption DEF Stages, Stage, At, Holding
<1>1. ASSUME Attach(p) PROVE Listed'
  BY <1>1, AttachListed
<1>2. ASSUME Create(p) PROVE Listed'
  BY <1>2, CreateListed
<1>3. ASSUME Detach(p) PROVE Listed'
  BY <1>3, DetachListed
<1>4. ASSUME Destroy(p) PROVE Listed'
  BY <1>4, DestroyListed
<1>5. ASSUME NEW a \in Adapters, NEW n \in Minors, AddAdapter(p, a, n) PROVE ListKept(p)
  BY <1>a, <1>b, <1>5 DEF AddAdapter, ListKept, Numbered, Registered, Adding, Deleting,
     Goto, Lock, At, devVars
<1>6. ASSUME Added(p) PROVE ListKept(p)
  BY <1>a, <1>6 DEF Added, ListKept, TypeOK, Stage, Holding, Goto, Unlock, Return, At,
     devVars
<1>7. ASSUME Notify(p) PROVE ListKept(p)
  BY <1>a, <1>7 DEF Notify, ListKept, Goto, At, moduleVars, devVars
<1>8. ASSUME NEW a \in Adapters, Unload(p, a) PROVE ListKept(p)
  BY <1>a, <1>8 DEF Unload, ListKept, Goto, At, devVars
<1>9. ASSUME DelAdapter(p) PROVE ListKept(p)
  BY <1>a, <1>9 DEF DelAdapter, ListKept, Goto, Lock, At, moduleVars, devVars
<1>10. ASSUME RegisterDriver(p) PROVE ListKept(p)
  BY <1>a, <1>10 DEF RegisterDriver, ListKept, Goto, At, devVars
<1>11. ASSUME Walk(p) PROVE ListKept(p)
  BY <1>a, <1>11 DEF Walk, ListKept, Goto, Lock, At, moduleVars, devVars
<1>12. ASSUME DelDriver(p) PROVE ListKept(p)
  BY <1>a, <1>12 DEF DelDriver, ListKept, Goto, Lock, At, devVars
<1>13. ASSUME VisitNext(p) PROVE ListKept(p)
  BY <1>a, <1>13 DEF VisitNext, ListKept, TypeOK, Stage, Holding, Goto, At, moduleVars,
     devVars
<1>14. ASSUME Finish(p) PROVE ListKept(p)
  <2>1. pc[p] = "next" /\ coreLock = p
    BY <1>14, <1>a DEF Finish, At, Stage, Holding
  <2>2. \A i \in DOMAIN devList : devList[i] \in class'
    <3>1. CASE call[p].op = "del"
      <4>1. class' = class \ {call[p].adap}
        BY <1>14, <3>1 DEF Finish
      <4>2. call[p].adap \in Adapters => ~ Served(call[p].adap)
        BY <2>1, <3>1 DEF Serving, LettingGo
      <4> QED
        BY <1>a, <4>1, <4>2 DEF Served, TypeOK
    <3>2. CASE call[p].op # "del"
      BY <1>14, <1>a, <3>2 DEF Finish, moduleVars
    <3> QED
      BY <3>1, <3>2
  <2>3. /\ UNCHANGED <<devList, nodes, nr>> /\ pc'[p] = "idle"
        /\ \A q \in Procs : q # p => pc'[q] = pc[q] /\ call'[q] = call[q]
    BY <1>14 DEF Finish, Unlock, Return, Goto, TypeOK
  <2> QED
    BY <2>1, <2>2, <2>3 DEF ListKept
<1>15. ASSUME NEW n \in Minors, Open(p, n) PROVE ListKept(p)
  BY <1>a, <1>15 DEF Open, ListKept, Goto, At, moduleVars, devVars
<1>16. ASSUME OpenGet(p) PROVE ListKept(p)
  BY <1>a, <1>16 DEF OpenGet, ListKept, Goto, Return, At, moduleVars, devVars
<1>17. ASSUME Release(p) PROVE ListKept(p)
  BY <1>a, <1>17 DEF Release, ListKept, At, moduleVars, devVars
<1> QED
  BY ListedKept, <1>1, <1>2, <1>3, <1>4, <1>5, <1>6, <1>7, <1>8, <1>9, <1>10, <1>11,
     <1>12, <1>13, <1>14, <1>15, <1>16, <1>17 DEF AdapterCalls, DriverCalls, DevCalls

-----------------------------------------------------------------------------
\* Whom a change of i2c_dev_list is about.
LEMMA AttachServes ==
    ASSUME TypeOK, Stages, Numbered, NEW p \in Procs, Attach(p)
    PROVE  /\ Served(call[p].adap)' \/ call[p].adap \in unserved'
           /\ \A b \in Adapters \ {call[p].adap} : Served(b)' <=> Served(b)
<1>1. call[p].adap \in Adapters /\ call' = call
  BY HandNumber DEF Attach, At
<1>2. CASE devList' = Append(devList, call[p].adap)
  <2>1. /\ DOMAIN devList = 1 .. Len(devList) /\ DOMAIN devList' = 1 .. Len(devList) + 1
        /\ Len(devList) \in Nat /\ devList'[Len(devList) + 1] = call[p].adap
        /\ \A i \in 1 .. Len(devList) : devList'[i] = devList[i]
    BY <1>1, <1>2, AppendProperties DEF TypeOK
  <2> QED
    BY <1>1, <2>1 DEF Served
<1>3. CASE UNCHANGED devList /\ unserved' = unserved \cup {call[p].adap}
  BY <1>1, <1>3 DEF Served
<1> QED
  BY <1>2, <1>3 DEF Attach

\* An adapter refused a second node is served by the first one.
LEMMA CreateServes ==
    ASSUME TypeOK, Stages, Numbered, Listed, NEW p \in Procs, Create(p)
    PROVE  /\ Served(call[p].adap)' \/ call[p].adap \in unserved'
           /\ \A b \in Adapters \ {call[p].adap} : Served(b)' <=> Served(b)
           /\ Served(call[p].adap)
<1> DEFINE a == call[p].adap
           L == Len(devList)
<1>1. pc[p] = "create" /\ a \in class /\ a \in Adapters /\ call' = call
  BY HandNumber DEF Create, At
<1>2. /\ devList # <<>> /\ devList[L] = a /\ L \in 1 .. L /\ DOMAIN devList = 1 .. L
  BY <1>1 DEF Listed, InHand, At, TypeOK
<1>3. CASE UNCHANGED devList
  BY <1>1, <1>2, <1>3 DEF Served
<1>4. CASE ReturnDev(a) /\ (nr[a] \in nodes \/ a \in unserved')
  <2>0. /\ devList' \in Seq(Adapters) /\ Len(devList') = L - 1
        /\ \A j \in 1 .. L - 1 : devList'[j] = devList[j]
    BY <1>2, <1>4, ReturnsLast DEF TypeOK
  <2>1. /\ DOMAIN devList' = 1 .. L - 1 /\ L \in Nat
        /\ \A j \in 1 .. L - 1 : devList'[j] = devList[j]
    BY <2>0
  <2>2. \A b \in Adapters \ {a} : Served(b)' <=> Served(b)
    BY <1>2, <2>1 DEF Served
  <2>3. ASSUME nr[a] \in nodes PROVE Served(a)'
    <3>1. PICK i \in 1 .. L : nr[devList[i]] = nr[a] /\ i # L
      <4>1. At(p, "create") /\ \A q \in Procs : ~ At(q, "destroy")
        BY <1>1, Alone DEF At, Holding
      <4>2. Backed(nr[a])
        BY <2>3 DEF Listed
      <4> QED
        BY <1>2, <4>1, <4>2 DEF Backed
    <3>2. i \in 1 .. L - 1 /\ devList'[i] = a
      <4>1. devList[i] \in class /\ devList[i] = a
        BY <1>1, <1>2, <3>1 DEF Listed, Live, Numbered, Registered
      <4>2. i \in 1 .. L - 1
        BY <2>1, <3>1
      <4> QED
        BY <2>1, <4>1, <4>2
    <3> QED
      BY <1>1, <2>1, <3>2 DEF Served
  <2> QED
    BY <1>1, <1>2, <1>4, <2>2, <2>3 DEF Served
<1> QED
  BY <1>3, <1>4 DEF Create

\* i2c_dev_get_by_minor finds the adapter's own i2c_dev, and there was no other.
LEMMA DetachServes ==
    ASSUME TypeOK, Stages, Numbered, Listed, NEW p \in Procs, Detach(p)
    PROVE  /\ ~ Served(call[p].adap)'
           /\ \A b \in Adapters \ {call[p].adap} : Served(b)' <=> Served(b)
<1> DEFINE a == call[p].adap
           L == Len(devList)
           k == ByMinor(nr[a])
<1>1. pc[p] = "detach" /\ a \in class /\ a \in Adapters /\ call' = call
  BY HandNumber DEF Detach, At
<1>2. DOMAIN devList = 1 .. L /\ L \in Nat
  BY DEF TypeOK
<1>3. CASE k = 0
  <2>1. ~ Served(a)
    BY <1>3, FoundByMinor DEF Served, TypeOK
  <2> QED
    BY <1>1, <1>3, <2>1 DEF Detach, Served
<1>4. CASE k # 0
  <2>1. k \in 1 .. L /\ nr[devList[k]] = nr[a] /\ devList \in Seq(Adapters)
    BY <1>2, <1>4, FoundByMinor DEF TypeOK
  <2>2. devList' = RemoveAt(devList, k) /\ Goto(p, "destroy")
    BY <1>4 DEF Detach
  <2> HIDE DEF k
  <2>3. devList[k] = a
    BY <1>1, <1>2, <2>1 DEF Numbered, Registered, Listed, Live
  <2>4. /\ RemoveAt(devList, k) \in Seq(Adapters)
        /\ Len(RemoveAt(devList, k)) = Len(devList) - 1
        /\ \A j \in 1 .. Len(devList) - 1 :
              RemoveAt(devList, k)[j] = IF j < k THEN devList[j] ELSE devList[j + 1]
    BY <2>1, Removal
  <2>5. /\ DOMAIN devList' = 1 .. L - 1
        /\ \A j \in 1 .. L - 1 : devList'[j] = IF j < k THEN devList[j] ELSE devList[j + 1]
    BY <2>2, <2>4
  <2>6. ~ Served(a)'
    <3>1. At(p, "destroy")'
      BY <2>2 DEF Goto, At, TypeOK
    <3> QED
      BY <1>1, <3>1, DetachListed DEF Listed, InHand, Served
  <2>7. ASSUME NEW b \in Adapters \ {a}, Served(b) PROVE Served(b)'
    <3>1. PICK i \in 1 .. L : devList[i] = b /\ i # k
      BY <1>2, <2>3, <2>7 DEF Served
    <3> DEFINE j == IF i < k THEN i ELSE i - 1
    <3>2. j \in 1 .. L - 1 /\ devList'[j] = b
      BY <1>2, <2>1, <2>5, <3>1
    <3> QED
      BY <2>5, <3>2 DEF Served
  <2>8. ASSUME NEW b \in Adapters \ {a}, Served(b)' PROVE Served(b)
    <3>1. PICK j \in 1 .. L - 1 : devList'[j] = b
      BY <2>5, <2>8 DEF Served
    <3> DEFINE i == IF j < k THEN j ELSE j + 1
    <3>2. i \in 1 .. L /\ devList[i] = b
      BY <1>2, <2>1, <2>5, <3>1
    <3> QED
      BY <1>2, <3>2 DEF Served
  <2> QED
    BY <1>1, <2>6, <2>7, <2>8 DEF Served
<1> QED
  BY <1>3, <1>4

\* Nobody is overlooked if whoever p excused is served, or excused by p again.
LEMMA NobodyOverlooked ==
    ASSUME AllServed, NEW p \in Procs,
           \A q \in Procs \ {p} : pc'[q] = pc[q] /\ call'[q] = call[q],
           \A a \in class' : onBus' =>
              \/ Served(a)' \/ a \in unserved' \/ Excuses(p, a)'
              \/ /\ onBus /\ a \in class
                 /\ ~ Served(a) /\ a \notin unserved /\ ~ Excuses(p, a)
    PROVE  AllServed'
<1>1. SUFFICES ASSUME NEW a \in class', onBus',
                      ~ Served(a)', a \notin unserved', ~ Excuses(p, a)'
               PROVE  \E q \in Procs : Excuses(q, a)'
  BY DEF AllServed
<1>2. PICK q \in Procs \ {p} : Excuses(q, a)
  BY <1>1 DEF AllServed
<1>3. Excuses(q, a)'
  BY <1>2 DEF Excuses, At
<1> QED
  BY <1>3

\* No registered adapter is overlooked, whichever of i2c_add_adapter and
\* i2c_register_driver comes first.
LEMMA AllServedStep ==
    ASSUME TypeOK, TypeOK', Stages, Numbered, Listed, Serving, [Next]_vars
    PROVE  AllServed'
<1>0. CASE UNCHANGED vars
  BY <1>0 DEF vars, moduleVars, devVars, Serving, AllServed, Served, Excuses, At
<1> SUFFICES ASSUME NEW p \in Procs, AdapterCalls(p) \/ DriverCalls(p) \/ DevCalls(p)
             PROVE  AllServed'
  BY <1>0 DEF Next
<1> DEFINE Kept == \A a \in class' : onBus' =>
              \/ Served(a)' \/ a \in unserved' \/ Excuses(p, a)'
              \/ /\ onBus /\ a \in class
                 /\ ~ Served(a) /\ a \notin unserved /\ ~ Excuses(p, a)
<1>a. Stage(p) /\ AllServed /\ (~ onBus => devList = <<>>) /\ class \subseteq Adapters
  BY DEF Stages, Serving, TypeOK
<1>1. ASSUME Attach(p) PROVE Kept
  <2>1. /\ UNCHANGED <<class, onBus, call>> /\ unserved \subseteq unserved'
        /\ pc[p] = "attach" /\ pc'[p] \in {"create", "next"}
    BY <1>1 DEF Attach, Goto, At, moduleVars, TypeOK
  <2>2. \A a \in class : a # call[p].adap /\ Excuses(p, a) => Excuses(p, a)'
    BY <1>a, <2>1 DEF Excuses, At
  <2> QED
    BY <1>a, <1>1, <2>1, <2>2, AttachServes
<1>2. ASSUME Create(p) PROVE Kept
  <2>1. /\ UNCHANGED <<class, onBus, call>> /\ unserved \subseteq unserved'
        /\ pc[p] = "create" /\ pc'[p] = "next"
    BY <1>2 DEF Create, Goto, At, moduleVars, TypeOK
  <2>2. \A a \in class : a # call[p].adap /\ Excuses(p, a) => Excuses(p, a)'
    BY <1>a, <2>1 DEF Excuses, At
  <2> QED
    BY <1>a, <1>2, <2>1, <2>2, CreateServes
<1>3. ASSUME Detach(p) PROVE Kept
  <2>1. /\ UNCHANGED <<class, onBus, call>> /\ unserved \subseteq unserved'
        /\ pc[p] = "detach" /\ pc'[p] \in {"destroy", "next"}
    BY <1>3 DEF Detach, Goto, At, moduleVars, TypeOK
  <2>2. /\ \A a \in class : Excuses(p, a) => Excuses(p, a)'
        /\ Excuses(p, call[p].adap)'
    BY <1>a, <2>1 DEF Stage, Excuses, At
  <2> QED
    BY <1>a, <1>3, <2>1, <2>2, DetachServes
<1>4. ASSUME Destroy(p) PROVE Kept
  BY <1>4 DEF Destroy, Excuses, Served, Stage, TypeOK, NoCall, Calls, Goto, At, moduleVars
<1>5. ASSUME NEW a \in Adapters, NEW n \in Minors, AddAdapter(p, a, n) PROVE Kept
  BY <1>a, <1>5 DEF AddAdapter, Excuses, Served, Stage, TypeOK, NoCall, Calls, Goto,
     Lock, At, devVars
<1>6. ASSUME Added(p) PROVE Kept
  BY <1>a, <1>6 DEF Added, Excuses, Served, Stage, TypeOK, NoCall, Calls, Goto, Unlock,
     Return, At, devVars
<1>7. ASSUME Notify(p) PROVE Kept
  BY <1>7 DEF Notify, Excuses, Served, Stage, TypeOK, NoCall, Calls, Goto, At,
     moduleVars, devVars
<1>8. ASSUME NEW a \in Adapters, Unload(p, a) PROVE Kept
  BY <1>a, <1>8 DEF Unload, Excuses, Served, Stage, TypeOK, NoCall, Calls, Goto, At,
     devVars
<1>9. ASSUME DelAdapter(p) PROVE Kept
  BY <1>9 DEF DelAdapter, Excuses, Served, Stage, TypeOK, NoCall, Calls, Goto, Lock, At,
     moduleVars, devVars
<1>10. ASSUME RegisterDriver(p) PROVE Kept
  BY <1>10 DEF RegisterDriver, Excuses, Served, Stage, TypeOK, NoCall, Calls, Goto, At,
     devVars
<1>11. ASSUME Walk(p) PROVE Kept
  BY <1>11 DEF Walk, Excuses, Served, Stage, TypeOK, NoCall, Calls, RegisterWalk, Goto,
     Lock, At, moduleVars, devVars
<1>12. ASSUME DelDriver(p) PROVE Kept
  BY <1>12 DEF DelDriver, Excuses, Served, Stage, TypeOK, NoCall, Calls, Goto, Lock, At,
     devVars
<1>13. ASSUME VisitNext(p) PROVE Kept
  BY <1>13 DEF VisitNext, Excuses, Served, Stage, TypeOK, NoCall, Calls, Goto, At,
     moduleVars, devVars
<1>14. ASSUME Finish(p) PROVE Kept
  <2>1. /\ pc[p] = "next" /\ call[p].todo = {} /\ devList' = devList
        /\ \A a \in class : Served(a)' <=> Served(a)
    BY <1>14 DEF Finish, At, Served
  <2>2. CASE call[p].op = "del"
    <3>1. /\ class' = class \ {call[p].adap} /\ unserved' = unserved \ {call[p].adap}
          /\ onBus' = onBus
      BY <1>14, <2>2 DEF Finish
    <3>2. \A a \in class' : ~ Excuses(p, a)
      BY <2>1, <2>2, <3>1 DEF Excuses, At
    <3> QED
      BY <2>1, <3>1, <3>2
  <2>3. CASE call[p].op = "unregister"
    BY <1>14, <2>3 DEF Finish
  <2>4. CASE call[p].op \notin {"del", "unregister"}
    <3>1. UNCHANGED <<class, unserved, onBus>>
      BY <1>14, <2>4 DEF Finish, moduleVars
    <3>2. \A a \in class : ~ Excuses(p, a)
      BY <2>1, <2>4 DEF Excuses, At
    <3> QED
      BY <2>1, <3>1, <3>2
  <2> QED
    BY <2>2, <2>3, <2>4
<1>15. ASSUME NEW n \in Minors, Open(p, n) PROVE Kept
  BY <1>a, <1>15 DEF Open, Excuses, Served, Stage, TypeOK, NoCall, Calls, Goto, At,
     moduleVars, devVars
<1>16. ASSUME OpenGet(p) PROVE Kept
  BY <1>a, <1>16 DEF OpenGet, Excuses, Served, Stage, TypeOK, NoCall, Calls, Goto,
     Return, At, moduleVars, devVars
<1>17. ASSUME Release(p) PROVE Kept
  BY <1>17 DEF Release, Excuses, Served, Stage, TypeOK, NoCall, Calls, At, moduleVars,
     devVars
<1> HIDE DEF Kept
<1>b. Kept /\ Apart(p)
  BY StepApart, <1>1, <1>2, <1>3, <1>4, <1>5, <1>6, <1>7, <1>8, <1>9, <1>10, <1>11,
     <1>12, <1>13, <1>14, <1>15, <1>16, <1>17 DEF AdapterCalls, DriverCalls, DevCalls
<1> QED
  BY <1>a, <1>b, NobodyOverlooked DEF Kept, Apart

\* Only Attach, Create and Detach change i2c_dev_list.
LEMMA ListChanges ==
    ASSUME NEW p \in Procs, AdapterCalls(p) \/ DriverCalls(p) \/ DevCalls(p),
           pc[p] \notin {"attach", "create", "detach"}
    PROVE  devList' = devList
<1>1. ASSUME Attach(p) PROVE devList' = devList
  BY <1>1 DEF Attach, At, moduleVars
<1>2. ASSUME Create(p) PROVE devList' = devList
  BY <1>2 DEF Create, At, moduleVars
<1>3. ASSUME Detach(p) PROVE devList' = devList
  BY <1>3 DEF Detach, At, moduleVars
<1>4. ASSUME Destroy(p) PROVE devList' = devList
  BY <1>4 DEF Destroy, At, moduleVars
<1>5. ASSUME NEW a \in Adapters, NEW n \in Minors, AddAdapter(p, a, n)
   PROVE devList' = devList
  BY <1>5 DEF AddAdapter, At, devVars
<1>6. ASSUME Added(p) PROVE devList' = devList
  BY <1>6 DEF Added, At, devVars
<1>7. ASSUME Notify(p) PROVE devList' = devList
  BY <1>7 DEF Notify, At, moduleVars, devVars
<1>8. ASSUME NEW a \in Adapters, Unload(p, a) PROVE devList' = devList
  BY <1>8 DEF Unload, At, devVars
<1>9. ASSUME DelAdapter(p) PROVE devList' = devList
  BY <1>9 DEF DelAdapter, At, moduleVars, devVars
<1>10. ASSUME RegisterDriver(p) PROVE devList' = devList
  BY <1>10 DEF RegisterDriver, At, devVars
<1>11. ASSUME Walk(p) PROVE devList' = devList
  BY <1>11 DEF Walk, At, moduleVars, devVars
<1>12. ASSUME DelDriver(p) PROVE devList' = devList
  BY <1>12 DEF DelDriver, At, devVars
<1>13. ASSUME VisitNext(p) PROVE devList' = devList
  BY <1>13 DEF VisitNext, At, moduleVars, devVars
<1>14. ASSUME Finish(p) PROVE devList' = devList
  BY <1>14 DEF Finish, At, moduleVars
<1>15. ASSUME NEW n \in Minors, Open(p, n) PROVE devList' = devList
  BY <1>15 DEF Open, At, moduleVars, devVars
<1>16. ASSUME OpenGet(p) PROVE devList' = devList
  BY <1>16 DEF OpenGet, At, moduleVars, devVars
<1>17. ASSUME Release(p) PROVE devList' = devList
  BY <1>17 DEF Release, At, moduleVars, devVars
<1> QED
  BY <1>1, <1>2, <1>3, <1>4, <1>5, <1>6, <1>7, <1>8, <1>9, <1>10, <1>11, <1>12, <1>13,
     <1>14, <1>15, <1>16, <1>17 DEF AdapterCalls, DriverCalls, DevCalls

\* An adapter detached is served no more; unregistering goes on to the others.
LEMMA LetGoStep ==
    ASSUME TypeOK, TypeOK', Stages, Numbered, Listed, Listed', Serving, [Next]_vars
    PROVE  Unregistering' /\ LettingGo'
<1>0. CASE UNCHANGED vars
  BY <1>0 DEF vars, moduleVars, devVars, Serving, Unregistering, LettingGo, Served, At
<1> SUFFICES ASSUME NEW p \in Procs, AdapterCalls(p) \/ DriverCalls(p) \/ DevCalls(p)
             PROVE  Unregistering' /\ LettingGo'
  BY <1>0 DEF Next
<1> DEFINE Walked(q) == \A a \in Adapters :
              call[q].op = "unregister" /\ Served(a) =>
                  a \in call[q].todo \/ (At(q, "detach") /\ a = call[q].adap)
           Let(q) == call[q].op = "del" /\ pc[q] \in {"destroy", "next"} =>
                  ~ Served(call[q].adap)
<1>a. Stage(p) /\ Walked(p) /\ Let(p) /\ Apart(p) /\ (~ onBus => devList = <<>>)
  BY StepApart DEF Stages, Serving, Unregistering, LettingGo
<1>b. ASSUME NEW q \in Procs \ {p} PROVE Walked(q)' /\ Let(q)'
  <2>1. Walked(q) /\ Let(q) /\ pc'[q] = pc[q] /\ call'[q] = call[q] /\ Stage(q)
    BY <1>a DEF Apart, Stages, Serving, Unregistering, LettingGo
  <2>2. CASE pc[p] \in {"attach", "create", "detach"}
    <3>1. pc[q] \notin Holding
      BY <2>2, Alone DEF Holding
    <3>2. call[q].op # "unregister" /\ pc[q] \notin {"destroy", "next"}
      BY <2>1, <3>1 DEF Stage, Holding, TypeOK, NoCall, Calls
    <3> QED
      BY <2>1, <3>2
  <2>3. CASE pc[p] \notin {"attach", "create", "detach"}
    <3>1. devList' = devList
      BY <2>3, ListChanges
    <3> QED
      BY <2>1, <3>1 DEF Served, At
  <2> QED
    BY <2>2, <2>3
<1>1. ASSUME Attach(p) PROVE Walked(p)' /\ Let(p)'
  BY <1>a, <1>1 DEF Attach, Served, Listed, Live, Stage, TypeOK, NoCall, Calls, Goto, At,
     moduleVars
<1>2. ASSUME Create(p) PROVE Walked(p)' /\ Let(p)'
  BY <1>a, <1>2 DEF Create, Served, Listed, Live, Stage, TypeOK, NoCall, Calls, Goto, At,
     moduleVars
<1>3. ASSUME Detach(p) PROVE Walked(p)' /\ Let(p)'
  BY <1>a, DetachServes, <1>3 DEF Detach, Listed, Stage, TypeOK, NoCall, Calls, Goto, At,
     moduleVars
<1>4. ASSUME Destroy(p) PROVE Walked(p)' /\ Let(p)'
  BY <1>a, <1>4 DEF Destroy, Served, Goto, At, moduleVars
<1>5. ASSUME NEW a \in Adapters, NEW n \in Minors, AddAdapter(p, a, n)
   PROVE Walked(p)' /\ Let(p)'
  BY <1>5 DEF AddAdapter, Served, TypeOK, NoCall, Calls, Goto, Lock, At, devVars
<1>6. ASSUME Added(p) PROVE Walked(p)' /\ Let(p)'
  BY <1>a, <1>6 DEF Added, Served, Listed, Live, Stage, TypeOK, NoCall, Calls, Goto,
     Unlock, Return, At, devVars
<1>7. ASSUME Notify(p) PROVE Walked(p)' /\ Let(p)'
  BY <1>a, <1>7 DEF Notify, Served, Goto, At, moduleVars, devVars
<1>8. ASSUME NEW a \in Adapters, Unload(p, a) PROVE Walked(p)' /\ Let(p)'
  BY <1>8 DEF Unload, Served, TypeOK, NoCall, Calls, Goto, At, devVars
<1>9. ASSUME DelAdapter(p) PROVE Walked(p)' /\ Let(p)'
  BY <1>a, <1>9 DEF DelAdapter, Served, Goto, Lock, At, moduleVars, devVars
<1>10. ASSUME RegisterDriver(p) PROVE Walked(p)' /\ Let(p)'
  BY <1>a, <1>10 DEF RegisterDriver, Served, Goto, At, devVars
<1>11. ASSUME Walk(p) PROVE Walked(p)' /\ Let(p)'
  BY <1>11 DEF Walk, Served, TypeOK, NoCall, Calls, RegisterWalk, Goto, Lock, At,
     moduleVars, devVars
<1>12. ASSUME DelDriver(p) PROVE Walked(p)' /\ Let(p)'
  BY <1>12 DEF DelDriver, Served, Listed, Live, Stage, TypeOK, NoCall, Calls, Goto, Lock,
     At, devVars
<1>13. ASSUME VisitNext(p) PROVE Walked(p)' /\ Let(p)'
  BY <1>13 DEF VisitNext, Served, TypeOK, NoCall, Calls, Goto, At, moduleVars, devVars
<1>14. ASSUME Finish(p) PROVE Walked(p)' /\ Let(p)'
  BY <1>14 DEF Finish, Served, TypeOK, NoCall, Calls, Goto, Unlock, Return, At, moduleVars
<1>15. ASSUME NEW n \in Minors, Open(p, n) PROVE Walked(p)' /\ Let(p)'
  BY <1>15 DEF Open, Served, TypeOK, NoCall, Calls, Goto, At, moduleVars, devVars
<1>16. ASSUME OpenGet(p) PROVE Walked(p)' /\ Let(p)'
  BY <1>16 DEF OpenGet, Served, TypeOK, NoCall, Calls, Goto, Return, At, moduleVars,
     devVars
<1>17. ASSUME Release(p) PROVE Walked(p)' /\ Let(p)'
  BY <1>a, <1>17 DEF Release, Served, At, moduleVars, devVars
<1> HIDE DEF Walked, Let
<1>c. Walked(p)' /\ Let(p)'
  BY <1>1, <1>2, <1>3, <1>4, <1>5, <1>6, <1>7, <1>8, <1>9, <1>10, <1>11, <1>12, <1>13,
     <1>14, <1>15, <1>16, <1>17 DEF AdapterCalls, DriverCalls, DevCalls
<1> QED
  BY <1>b, <1>c DEF Unregistering, LettingGo, Walked, Let

\* Off the bus, i2c-dev has nothing listed.
LEMMA OffStep ==
    ASSUME TypeOK, TypeOK', Stages, Numbered, Listed, Serving, [Next]_vars
    PROVE  ~ onBus' => devList' = <<>>
<1>0. CASE UNCHANGED vars
  BY <1>0 DEF vars, moduleVars, devVars, Serving
<1> SUFFICES ASSUME NEW p \in Procs, AdapterCalls(p) \/ DriverCalls(p) \/ DevCalls(p),
   ~ onBus'
             PROVE  devList' = <<>>
  BY <1>0 DEF Next
<1>1. CASE onBus
  <2>1. Finish(p) /\ call[p].op = "unregister"
    BY <1>1 DEF AdapterCalls, DriverCalls, DevCalls, moduleVars, Attach, Create, Detach,
       Destroy, AddAdapter, Added, Notify, Unload, DelAdapter, RegisterDriver, Walk,
       DelDriver, VisitNext, Finish, Open, OpenGet, Release
  <2>2. call[p].todo = {} /\ pc[p] = "next" /\ devList' = devList
    BY <2>1 DEF Finish, At
  <2>3. \A a \in Adapters : ~ Served(a)
    BY <2>1, <2>2 DEF Serving, Unregistering, At
  <2>4. \A i \in DOMAIN devList : devList[i] \in Adapters
    BY DEF TypeOK
  <2> QED
    BY <2>2, <2>3, <2>4 DEF Served, TypeOK
<1>2. CASE ~ onBus
  <2>1. devList = <<>>
    BY <1>2 DEF Serving
  <2>2. pc[p] # "attach"
    BY <1>2 DEF Stages, Stage
  <2>3. pc[p] # "create"
    BY <2>1 DEF Listed, InHand, At
  <2>4. CASE pc[p] = "detach"
    <3>1. ByMinor(nr[call[p].adap]) = 0
      BY <2>1, FoundByMinor
    <3>2. Detach(p)
      BY <2>4 DEF AdapterCalls, DriverCalls, DevCalls, At, Attach, Create, Destroy,
         AddAdapter, Added, Notify, Unload, DelAdapter, RegisterDriver, Walk, DelDriver,
         VisitNext, Finish, Open, OpenGet, Release
    <3> QED
      BY <2>1, <3>1, <3>2 DEF Detach
  <2>5. CASE pc[p] # "detach"
    BY <2>1, <2>2, <2>3, <2>5, ListChanges
  <2> QED
    BY <2>4, <2>5
<1> QED
  BY <1>1, <1>2

\* The invariant is preserved by every step.
LEMMA Inductive == IInv /\ [Next]_vars => IInv'
<1> SUFFICES ASSUME IInv, [Next]_vars PROVE IInv'
  OBVIOUS
<1>1. TypeOK /\ Stages /\ Numbered /\ OpenFilesReachAdapter /\ Listed /\ Serving
  BY DEF IInv
<1>2. TypeOK'
  BY <1>1, TypeStep
<1>3. Stages' /\ Numbered' /\ OpenFilesReachAdapter' /\ Listed'
  BY <1>1, <1>2, StagesStep, NumberedStep, FilesStep, ListedStep
<1>4. Serving'
  BY <1>1, <1>2, <1>3, AllServedStep, LetGoStep, OffStep DEF Serving
<1> QED
  BY <1>2, <1>3, <1>4 DEF IInv

\* The invariant holds at first.
LEMMA Initially == Init => IInv
<1> SUFFICES ASSUME Init PROVE IInv
  OBVIOUS
<1> USE DEF Init
<1>1. TypeOK
  <2>1. call \in [Procs -> CallType]
    BY NoCallTyped
  <2>2. devList \in Seq(Adapters)
    OBVIOUS
  <2> QED
    BY <2>1, <2>2 DEF TypeOK, CallType
<1>2. Stages
  BY OthersAssumption DEF Stages, Stage, NoCall, Calls, Holding
<1>3. Numbered
  BY DEF Numbered, Registered, Assigned, Going, Adding, Deleting, NoCall, Calls
<1>4. OpenFilesReachAdapter
  BY DEF OpenFilesReachAdapter
<1>5. Listed
  BY DEF Listed, Live, Once, InHand, WithNode, At
<1>6. Serving
  BY DEF Serving, AllServed, Unregistering, LettingGo, NoCall, Calls
<1> QED
  BY <1>1, <1>2, <1>3, <1>4, <1>5, <1>6 DEF IInv

\* The inductive invariant always holds.
THEOREM Invariance == Spec => []IInv
<1> QED
  BY Initially, Inductive, PTL DEF Spec

-----------------------------------------------------------------------------
\* Every variable keeps its type.
THEOREM TypeCorrect == Spec => []TypeOK
<1>1. IInv => TypeOK
  BY DEF IInv
<1> QED
  BY <1>1, Invariance, PTL

\* i2cdev_open takes its module reference in time: whatever adapter an open file
\* stands for is registered, and its module is not on its way out.
THEOREM FilesReachAdapters == Spec => []OpenFilesReachAdapter
<1>1. IInv => OpenFilesReachAdapter
  BY DEF IInv
<1> QED
  BY <1>1, Invariance, PTL

\* With core_lock free and nobody registering, everything unfinished is finished.
LEMMA ParallelFollows == IInv => DevsParallel
<1> SUFFICES ASSUME IInv PROVE DevsParallel
  OBVIOUS
<1> DEFINE owned(a) == {i \in DOMAIN devList : devList[i] = a}
           served == {a \in Adapters : owned(a) # {}}
<1>1. TypeOK /\ Stages /\ Numbered /\ Listed /\ Serving
  BY DEF IInv
<1>2. \A a \in Adapters : a \in served <=> Served(a)
  BY DEF Served
<1>3. \A a \in served : a \in class /\ life[a] # "out"
  BY <1>1 DEF Listed, Live, Numbered, Registered
<1>4. ASSUME coreLock = NoProc, \A p \in Procs : ~ At(p, "register")
      PROVE  /\ served \subseteq class /\ \A a \in served : \A i, j \in owned(a) : i = j
             /\ nodes = {nr[a] : a \in served}
             /\ IF onBus THEN class \ served \subseteq unserved ELSE served = {}
  <2>1. \A p \in Procs : pc[p] \in {"idle", "del", "open"}
    BY <1>1, <1>4, OthersAssumption DEF TypeOK, Stages, Stage, Holding, At
  <2>2. \A p \in Procs : ~ At(p, "create") /\ ~ At(p, "destroy")
    BY <2>1 DEF At
  <2>3. \A a \in served : \A i, j \in owned(a) : i = j
    <3> SUFFICES ASSUME NEW i \in DOMAIN devList, NEW j \in DOMAIN devList,
                        devList[i] = devList[j]
                 PROVE  i = j
      OBVIOUS
    <3>1. i \in Nat /\ j \in Nat
      BY <1>1 DEF TypeOK
    <3> QED
      BY <1>1, <2>2, <3>1 DEF Listed, Once
  <2>4. nodes = {nr[a] : a \in served}
    <3>1. ASSUME NEW n \in nodes PROVE n \in {nr[a] : a \in served}
      BY <1>1, <2>2 DEF Listed, Backed, TypeOK
    <3>2. ASSUME NEW a \in served PROVE nr[a] \in nodes
      BY <1>1, <2>2 DEF Listed, WithNode
    <3> QED
      BY <3>1, <3>2
  <2>5. ASSUME onBus PROVE class \ served \subseteq unserved
    <3>1. \A p \in Procs, a \in class : ~ Excuses(p, a)
      BY <1>1, <2>1 DEF Excuses, At, Stages, Stage, NoCall, Calls
    <3> QED
      BY <1>1, <1>2, <2>5, <3>1 DEF Serving, AllServed, TypeOK
  <2>6. ASSUME ~ onBus PROVE served = {}
    BY <1>1, <2>6 DEF Serving
  <2> QED
    BY <1>3, <2>3, <2>4, <2>5, <2>6
<1> QED
  BY <1>3, <1>4 DEF DevsParallel

\* "The list of i2c_dev structures is parallel to the i2c_adapter lists", also when
\* an adapter was attached twice, or attaching it failed half-way.
THEOREM StaysParallel == Spec => []DevsParallel
<1> QED
  BY Invariance, ParallelFollows, PTL

=============================================================================
