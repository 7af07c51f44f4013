----------------------------- MODULE LoopProofs -----------------------------
(***************************************************************************)
(* Proofs about Loop, for any number of devices, files, processes, bios    *)
(* and xfers.                                                              *)
(*                                                                         *)
(* Every step is about one device at most (Elsewhere): its node, the       *)
(* holder of its lo_ctl_mutex or its thread acts, and all the others       *)
(* remain as they are.  The inductive invariant IInv therefore says for    *)
(* each device by itself what its state, its thread, its queue and the     *)
(* call that holds its mutex have to do with one another, and what links   *)
(* the devices are counts: a file, an xfer and the module have as many     *)
(* references as there are devices, calls and descriptors that hold one.   *)
(*                                                                         *)
(* Freedom from recursion is proved beside it.  The check walks from the   *)
(* new file downwards until it leaves the nodes; what it has passed is a   *)
(* set of devices closed downwards that lacks the new device.              *)
(***************************************************************************)
EXTENDS Loop, TLAPS, SequenceTheorems, FiniteSetTheorems, WellFoundedInduction

-----------------------------------------------------------------------------
Holding == {"oops", "set_thread", "clr_stop", "clr_end", "module_put", "switch",
            "switched", "unlock", "st_init"}

\* The holder of lo_ctl_mutex is in one of these steps, with the device in hand;
\* a node is idle while anybody has it.
Held(d) == mutex[d] # NoActor
InStep(d, steps) == Held(d) /\ pc[mutex[d]] \in steps
Hold(d) == call[mutex[d]]
InCalls ==
    \A a \in Actors :
        pc[a] \in Holding => call[a].dev \in Devices /\ mutex[call[a].dev] = a
Holders == \A d \in Devices :
    Held(d) => pc[mutex[d]] \in Holding /\ call[mutex[d]].dev = d
Referenced == \A n \in Nodes : refs[n] # 0 => pc[n] = "idle"
Mutexes == InCalls /\ Holders /\ Referenced

\* What a device is between the calls, and in each step of one.
Binding(d) ==
    /\ state[d] = "unbound" => thread[d] = "none"
    /\ state[d] = "unbound" /\ backing[d] # NoFile => InStep(d, {"set_thread"})
    /\ state[d] = "bound" => thread[d] \in {"woken", "running"} /\ backing[d] \in Files
    /\ state[d] = "rundown" => InStep(d, {"clr_stop", "clr_end"})
    /\ thread[d] \in {"none", "woken", "exited"} => inHand[d] = NoBio
    /\ backing[d] \notin Writable => backing[d] = NoFile \/ "READ_ONLY" \in flags[d]
Calling(d) ==
    /\ InStep(d, {"oops", "module_put"}) => state[d] = "unbound"
    /\ InStep(d, {"set_thread"}) => state[d] = "unbound"
    /\ InStep(d, {"set_thread", "clr_stop"}) => Hold(d).file = backing[d]
    /\ InStep(d, {"clr_stop"}) =>
           state[d] = "rundown" /\ thread[d] \in {"stopping", "exited"}
    /\ InStep(d, {"clr_end"}) =>
           state[d] = "rundown" /\ thread[d] = "none" /\ backing[d] = NoFile
    /\ InStep(d, {"oops", "set_thread", "clr_stop", "clr_end", "switched"}) =>
           Hold(d).file \in Files
    /\ InStep(d, {"switch"}) => "READ_ONLY" \in flags[d] /\ Hold(d).file \in Regular
    /\ InStep(d, {"switch", "switched", "unlock", "st_init"}) => state[d] = "bound"
    /\ InStep(d, {"st_init"}) => Hold(d).xfer \in Xfers /\ encryption[d] = NoXfer
Bound == \A d \in Devices : Binding(d) /\ Calling(d)

\* The bios on their way.
Queued(d, b) == \E i \in DOMAIN queue[d] : queue[d][i] = b
SwitchOnce(d) ==
    \A i, j \in DOMAIN queue[d] : queue[d][i] = Switch /\ queue[d][j] = Switch => i = j
Asked(d) ==
    /\ Queued(d, Switch) => InStep(d, {"switch"})
    /\ SwitchOnce(d)
    /\ \A b \in Writes : Queued(d, b) \/ inHand[d] = b => "READ_ONLY" \notin flags[d]
Requests == \A d \in Devices : Asked(d)
Accepted ==
    \A b \in accepted \ dropped : \E d \in Devices : inHand[d] = b \/ Queued(d, b)
\* What is still queued when there is no thread was dropped.
Left(d) == thread[d] \in {"none", "exited"} => \A c : Queued(d, c) => c \in dropped
Leftovers == \A d \in Devices : Left(d)

\* References.
Backed(f) == {d \in Devices : backing[d] = f}
InCall(f) == {d \in Devices : InStep(d, {"oops", "switch", "switched", "clr_end"})
                              /\ Hold(d).file = f}
Counted ==
    \A f \in Files :
        refs[f] = Cardinality(Backed(f)) + Cardinality(InCall(f))
            + IF f \in opened THEN 1 ELSE 0
InUse == {d \in Devices : state[d] # "unbound"}
Binds == {d \in Devices : InStep(d, {"oops", "set_thread", "module_put"})}
ModuleCounted == moduleRefs = Cardinality(InUse) + Cardinality(Binds)
Encrypted(x) == {d \in Devices : encryption[d] = x}
Trying(x) == {d \in Devices : InStep(d, {"st_init"}) /\ Hold(d).xfer = x}
XfersCounted ==
    \A x \in Xfers : xferRefs[x] = Cardinality(Encrypted(x)) + Cardinality(Trying(x))

\* Unregistering.
UsesXfer(d, x) == encryption[d] = x \/ (InStep(d, {"st_init"}) /\ Hold(d).xfer = x)
Transferred(d) == \A x \in Xfers : transfer[d] = x => encryption[d] = x
Leaves(p, d, x) == At(p, "unregister") /\ call[p].xfer = x /\ d \in call[p].todo
Leaving(d) ==
    \A x \in Xfers \ known : UsesXfer(d, x) => \E p \in Procs : Leaves(p, d, x)
Unregistering == \A d \in Devices : Transferred(d) /\ Leaving(d)

\* The inductive invariant all the theorems below start from.
IInv ==
    /\ TypeOK /\ Mutexes /\ Bound /\ Requests /\ Accepted /\ Leftovers
    /\ Counted /\ ModuleCounted /\ XfersCounted /\ Unregistering

\* TypeOK once more, one named set for each variable: the provers need to see
\* only the sets of the variables a step changes.
CallType == [dev : Devices \cup {NoDevice}, node : Nodes \cup {NoFile},
             file : Files \cup {NoFile}, xfer : Xfers \cup {NoXfer},
            todo : SUBSET Devices]
States == [Devices -> {"unbound", "bound", "rundown"}]
Backings == [Devices -> Files \cup {NoFile}]
FlagSets == [Devices -> SUBSET {"READ_ONLY", "AUTOCLEAR"}]
Encryptions == [Devices -> Xfers \cup {NoXfer}]
Transfers == [Devices -> Xfers \cup {"none", "NULL"}]
DeviceCounts == [Devices -> Int]
MutexStates == [Devices -> Actors \cup {NoActor}]
Threads == [Devices -> {"none", "woken", "running", "stopping", "exited"}]
Queues == [Devices -> Seq(Bios \cup {Switch})]
Hands == [Devices -> Bios \cup {NoBio}]
FileCounts == [Files -> Int]
XferCounts == [Xfers -> Int]
Steps == [Actors -> {"idle", "release", "oops", "set_thread", "clr_stop", "clr_end",
                    "module_put", "switch", "switched", "unlock", "st_init", "unregister"}]
CallSet == [Actors -> CallType]
Typed ==
    /\ state \in States
    /\ backing \in Backings
    /\ flags \in FlagSets
    /\ encryption \in Encryptions
    /\ transfer \in Transfers
    /\ refcnt \in DeviceCounts
    /\ mutex \in MutexStates
    /\ thread \in Threads
    /\ queue \in Queues
    /\ inHand \in Hands
    /\ accepted \in SUBSET Bios
    /\ dropped \in SUBSET Bios
    /\ opened \in SUBSET Files
    /\ refs \in FileCounts
    /\ moduleRefs \in Int
    /\ known \in SUBSET Xfers
    /\ xferRefs \in XferCounts
    /\ pc \in Steps
    /\ call \in CallSet

\* It is the same statement.
LEMMA TypedIs == TypeOK <=> Typed
BY
   DEF TypeOK, Typed, CallType, States, Backings, FlagSets, Encryptions, Transfers,
       DeviceCounts, MutexStates, Threads, Queues, Hands, FileCounts, XferCounts, Steps,
       CallSet

\* The record of an idle actor is a call's record.
LEMMA NoCallTyped == NoCall \in CallType
BY DEF NoCall, CallType

\* A call in a step that holds lo_ctl_mutex holds its own device's.
LEMMA StepHolder ==
    ASSUME TypeOK, Mutexes, Bound, NEW a \in Actors, pc[a] \in Holding
    PROVE  /\ call[a].dev \in Devices /\ mutex[call[a].dev] = a /\ Held(call[a].dev)
           /\ Hold(call[a].dev) = call[a]
           /\ \A s : InStep(call[a].dev, s) <=> pc[a] \in s
           /\ Binding(call[a].dev) /\ Calling(call[a].dev)
BY ActorsAssumption DEF Mutexes, InCalls, Bound, Held, Hold, InStep

\* The files and xfers that a call has in hand where the steps use them.
LEMMA InHand ==
    ASSUME TypeOK, Mutexes, Bound, Requests
    PROVE  /\ \A a \in Actors : pc[a] \in {"set_thread", "clr_end", "switched"} =>
                 call[a].dev \in Devices /\ call[a].file \in Files
           /\ \A a \in Actors : pc[a] = "clr_stop" => call[a].dev \in Devices
           /\ \A a \in Actors : pc[a] = "st_init" =>
                 call[a].dev \in Devices /\ call[a].xfer \in Xfers
           /\ \A d \in Devices : queue[d] # <<>> /\ Head(queue[d]) = Switch =>
                 mutex[d] \in Actors /\ pc[mutex[d]] = "switch"
                     /\ call[mutex[d]].dev = d
                 /\ call[mutex[d]].file \in Regular /\ call[mutex[d]].file \in Files
<1>1. ASSUME NEW a \in Actors, pc[a] \in {"set_thread", "clr_end", "switched"}
      PROVE  call[a].dev \in Devices /\ call[a].file \in Files
  BY <1>1, StepHolder DEF Holding, Calling
<1>2. ASSUME NEW a \in Actors, pc[a] = "clr_stop"
      PROVE  call[a].dev \in Devices
  BY <1>2, StepHolder DEF Holding
<1>3. ASSUME NEW a \in Actors, pc[a] = "st_init"
      PROVE  call[a].dev \in Devices /\ call[a].xfer \in Xfers
  BY <1>3, StepHolder DEF Holding, Calling
<1>4. ASSUME NEW d \in Devices, queue[d] # <<>>, Head(queue[d]) = Switch
      PROVE  /\ mutex[d] \in Actors /\ pc[mutex[d]] = "switch" /\ call[mutex[d]].dev = d
             /\ call[mutex[d]].file \in Regular /\ call[mutex[d]].file \in Files
  <2>1. 1 \in DOMAIN queue[d] /\ queue[d][1] = Switch
    BY <1>4 DEF TypeOK
  <2>2. InStep(d, {"switch"})
    BY <2>1 DEF Requests, Asked, Queued
  <2>3. mutex[d] \in Actors
    BY <2>2 DEF InStep, Held, TypeOK
  <2>4. call[mutex[d]].dev = d
    BY <2>2 DEF InStep, Mutexes, Holders
  <2> QED
    BY <2>2, <2>3, <2>4 DEF InStep, Bound, Calling, Hold, Files
<1> QED
  BY <1>1, <1>2, <1>3, <1>4

\* While nobody holds lo_ctl_mutex there are only bios on the queue.
LEMMA StoppedBios ==
    ASSUME TypeOK, Requests, NEW d \in Devices, ~ Held(d)
    PROVE  {queue[d][i] : i \in DOMAIN queue[d]} \subseteq Bios
<1>1. \A i \in DOMAIN queue[d] : queue[d][i] \in Bios \cup {Switch}
  BY DEF TypeOK
<1>2. ~ Queued(d, Switch)
  BY DEF Requests, Asked, InStep
<1> QED
  BY <1>1, <1>2 DEF Queued

\* Types: action by action, the variables it changes.
LEMMA TypeStep ==
    ASSUME TypeOK, Mutexes, Bound, Requests, [Next]_vars
    PROVE  Typed'
<1> USE DEF vars, bindVars, xferVars, ioVars, fileVars, callVars, bindFrame, xferFrame,
            ioFrame, threadVars, At, Goto
<1>t. Typed
  BY TypedIs
<1>c. /\ NoCall \in CallType /\ \A n \in Nodes :
             DevOf[n] \in Devices /\ n \in Files /\ n \in Actors
      /\ \A p \in Procs : p \in Actors
  BY NoCallTyped, DevicesAssumption DEF Files, Actors
<1>0. CASE UNCHANGED vars
  BY <1>0, <1>t DEF Typed
<1>1. ASSUME NEW n \in Nodes, Open(n)
       PROVE  Typed'
  <2>1. refcnt' \in DeviceCounts
    BY <1>1, <1>t, <1>c DEF Open, Typed, DeviceCounts
  <2>2. opened' \in SUBSET Files
    BY <1>1, <1>t, <1>c DEF Open, Typed
  <2>3. refs' \in FileCounts
    BY <1>1, <1>t, <1>c DEF Open, Typed, FileCounts
  <2> QED
    BY <1>1, <1>t, <2>1, <2>2, <2>3 DEF Open, Typed
<1>2. ASSUME NEW n \in Nodes, Release(n)
       PROVE  Typed'
  <2>1. refcnt' \in DeviceCounts
    BY <1>2, <1>t, <1>c DEF Release, RunDown, Locks, Calls, Typed, DeviceCounts
  <2>2. state' \in States
    BY <1>2, <1>t, <1>c DEF Release, RunDown, Locks, Calls, Typed, States
  <2>3. thread' \in Threads
    BY <1>2, <1>t, <1>c DEF Release, RunDown, Locks, Calls, Typed, Threads
  <2>7. dropped' \in SUBSET Bios
    BY <1>2, <1>t, <1>c, StoppedBios DEF Release, RunDown, Locks, Typed, Held
  <2>4. mutex' \in MutexStates
    BY <1>2, <1>t, <1>c DEF Release, RunDown, Locks, Calls, Typed, MutexStates
  <2>5. pc' \in Steps
    BY <1>2, <1>t, <1>c DEF Release, RunDown, Locks, Calls, Typed, Steps
  <2>6. call' \in CallSet
    BY <1>2, <1>t, <1>c
       DEF Release, RunDown, Locks, Calls, Typed, CallSet, CallType, Backings
  <2> QED
    BY <1>2, <1>t, <2>1, <2>2, <2>3, <2>4, <2>5, <2>6, <2>7
       DEF Release, RunDown, Locks, Calls, Typed
<1>3. ASSUME NEW f \in Files, Close(f)
       PROVE  Typed'
  <2>1. opened' \in SUBSET Files
    BY <1>3, <1>t, <1>c DEF Close, FputGoto, Typed
  <2>2. refs' \in FileCounts
    BY <1>3, <1>t, <1>c DEF Close, FputGoto, Typed, FileCounts
  <2>3. pc' \in Steps
    BY <1>3, <1>t, <1>c DEF Close, FputGoto, Typed, Steps
  <2> QED
    BY <1>3, <1>t, <2>1, <2>2, <2>3 DEF Close, FputGoto, Typed
<1>4. ASSUME NEW p \in Procs, NEW n \in Nodes, ClrFd(p, n), UNCHANGED bindFrame
       PROVE  Typed'
  <2>1. state' \in States
    BY <1>4, <1>t, <1>c DEF ClrFd, RunDown, Locks, Calls, Entry, Typed, States
  <2>2. thread' \in Threads
    BY <1>4, <1>t, <1>c DEF ClrFd, RunDown, Locks, Calls, Entry, Typed, Threads
  <2>6. dropped' \in SUBSET Bios
    BY <1>4, <1>t, <1>c, StoppedBios DEF ClrFd, RunDown, Locks, Typed, Held
  <2>3. mutex' \in MutexStates
    BY <1>4, <1>t, <1>c DEF ClrFd, RunDown, Locks, Calls, Entry, Typed, MutexStates
  <2>4. pc' \in Steps
    BY <1>4, <1>t, <1>c DEF ClrFd, RunDown, Locks, Calls, Entry, Typed, Steps
  <2>5. call' \in CallSet
    BY <1>4, <1>t, <1>c
       DEF ClrFd, RunDown, Locks, Calls, Entry, Typed, CallSet, CallType, Backings
  <2> QED
    BY <1>4, <1>t, <2>1, <2>2, <2>3, <2>4, <2>5, <2>6
       DEF ClrFd, RunDown, Locks, Calls, Entry, Typed
<1>5. ASSUME NEW p \in Procs, NEW n \in Nodes, NEW f \in Files, SetFd(p, n, f),
             UNCHANGED bindFrame
       PROVE  Typed'
  <2>1. backing' \in Backings
    BY <1>5, <1>t, <1>c
       DEF SetFd, BeginSetFd, Entry, Locks, Calls, TakeFile, Typed, Backings
  <2>2. flags' \in FlagSets
    BY <1>5, <1>t, <1>c
       DEF SetFd, BeginSetFd, Entry, Locks, Calls, TakeFile, Typed, FlagSets
  <2>3. transfer' \in Transfers
    BY <1>5, <1>t, <1>c
       DEF SetFd, BeginSetFd, Entry, Locks, Calls, TakeFile, Typed, Transfers
  <2>4. queue' \in Queues
    BY <1>5, <1>t, <1>c
       DEF SetFd, BeginSetFd, Entry, Locks, Calls, TakeFile, Typed, Queues
  <2>5. mutex' \in MutexStates
    BY <1>5, <1>t, <1>c
       DEF SetFd, BeginSetFd, Entry, Locks, Calls, TakeFile, Typed, MutexStates
  <2>6. pc' \in Steps
    BY <1>5, <1>t, <1>c
       DEF SetFd, BeginSetFd, Entry, Locks, Calls, TakeFile, Typed, Steps
  <2>7. call' \in CallSet
    BY <1>5, <1>t, <1>c
       DEF SetFd, BeginSetFd, Entry, Locks, Calls, TakeFile, Typed, CallSet, CallType
  <2>8. refs' \in FileCounts
    BY <1>5, <1>t, <1>c
       DEF SetFd, BeginSetFd, Entry, Locks, Calls, TakeFile, Typed, FileCounts
  <2>9. moduleRefs' \in Int
    BY <1>5, <1>t, <1>c DEF SetFd, BeginSetFd, Entry, Locks, Calls, TakeFile, Typed
  <2> QED
    BY <1>5, <1>t, <2>1, <2>2, <2>3, <2>4, <2>5, <2>6, <2>7, <2>8, <2>9
       DEF SetFd, BeginSetFd, Typed
<1>6. ASSUME NEW p \in Procs, NEW n \in Nodes, NEW f \in Files, SetFdOops(p, n, f),
             UNCHANGED bindFrame
       PROVE  Typed'
  <2>1. mutex' \in MutexStates
    BY <1>6, <1>t, <1>c
       DEF SetFdOops, BeginSetFd, Entry, Locks, Calls, TakeFile, Typed, MutexStates
  <2>2. pc' \in Steps
    BY <1>6, <1>t, <1>c
       DEF SetFdOops, BeginSetFd, Entry, Locks, Calls, TakeFile, Typed, Steps
  <2>3. call' \in CallSet
    BY <1>6, <1>t, <1>c
       DEF SetFdOops, BeginSetFd, Entry, Locks, Calls, TakeFile, Typed, CallSet,
           CallType
  <2>4. refs' \in FileCounts
    BY <1>6, <1>t, <1>c
       DEF SetFdOops, BeginSetFd, Entry, Locks, Calls, TakeFile, Typed, FileCounts
  <2>5. moduleRefs' \in Int
    BY <1>6, <1>t, <1>c DEF SetFdOops, BeginSetFd, Entry, Locks, Calls, TakeFile, Typed
  <2> QED
    BY <1>6, <1>t, <2>1, <2>2, <2>3, <2>4, <2>5
       DEF SetFdOops, BeginSetFd, Entry, Locks, Calls, TakeFile, Typed
<1>7. ASSUME NEW p \in Procs, NEW n \in Nodes, NEW f \in Files, ChangeFd(p, n, f),
             UNCHANGED bindFrame
       PROVE  Typed'
  <2>1. mutex' \in MutexStates
    BY <1>7, <1>t, <1>c
       DEF ChangeFd, MayChange, Entry, Locks, Calls, TakeFile, Typed, MutexStates
  <2>2. pc' \in Steps
    BY <1>7, <1>t, <1>c
       DEF ChangeFd, MayChange, Entry, Locks, Calls, TakeFile, Typed, Steps
  <2>3. call' \in CallSet
    BY <1>7, <1>t, <1>c
       DEF ChangeFd, MayChange, Entry, Locks, Calls, TakeFile, Typed, CallSet, CallType
  <2>4. refs' \in FileCounts
    BY <1>7, <1>t, <1>c
       DEF ChangeFd, MayChange, Entry, Locks, Calls, TakeFile, Typed, FileCounts
  <2>5. queue' \in Queues
    BY <1>7, <1>t, <1>c
       DEF ChangeFd, MayChange, Entry, Locks, Calls, TakeFile, Typed, Queues
  <2> QED
    BY <1>7, <1>t, <2>1, <2>2, <2>3, <2>4, <2>5
       DEF ChangeFd, MayChange, Entry, Locks, Calls, TakeFile, Typed
<1>8. ASSUME NEW p \in Procs, NEW n \in Nodes, SetStatusPlain(p, n), UNCHANGED xferFrame
       PROVE  Typed'
  <2>1. transfer' \in Transfers
    BY <1>8, <1>t, <1>c
       DEF SetStatusPlain, Entry, ReleaseXfer, Released, SetAutoclear, Typed, Transfers
  <2>2. encryption' \in Encryptions
    BY <1>8, <1>t, <1>c
       DEF SetStatusPlain, Entry, ReleaseXfer, Released, SetAutoclear, Typed,
           Encryptions
  <2>3. xferRefs' \in XferCounts
    BY <1>8, <1>t, <1>c
       DEF SetStatusPlain, Entry, ReleaseXfer, Released, SetAutoclear, Typed, XferCounts
  <2>4. flags' \in FlagSets
    BY <1>8, <1>t, <1>c
       DEF SetStatusPlain, Entry, ReleaseXfer, Released, SetAutoclear, Typed, FlagSets
  <2> QED
    BY <1>8, <1>t, <2>1, <2>2, <2>3, <2>4
       DEF SetStatusPlain, Entry, ReleaseXfer, Released, SetAutoclear, Typed
<1>9. ASSUME NEW p \in Procs, NEW n \in Nodes, NEW x \in Xfers, SetStatus(p, n, x),
             UNCHANGED xferFrame
       PROVE  Typed'
  <2>1. mutex' \in MutexStates
    BY <1>9, <1>t, <1>c DEF SetStatus, Entry, Locks, Calls, Released, Typed, MutexStates
  <2>2. pc' \in Steps
    BY <1>9, <1>t, <1>c DEF SetStatus, Entry, Locks, Calls, Released, Typed, Steps
  <2>3. call' \in CallSet
    BY <1>9, <1>t, <1>c
       DEF SetStatus, Entry, Locks, Calls, Released, Typed, CallSet, CallType
  <2>4. transfer' \in Transfers
    BY <1>9, <1>t, <1>c DEF SetStatus, Entry, Locks, Calls, Released, Typed, Transfers
  <2>5. encryption' \in Encryptions
    BY <1>9, <1>t, <1>c DEF SetStatus, Entry, Locks, Calls, Released, Typed, Encryptions
  <2>6. xferRefs' \in XferCounts
    BY <1>9, <1>t, <1>c DEF SetStatus, Entry, Locks, Calls, Released, Typed, XferCounts
  <2> QED
    BY <1>9, <1>t, <2>1, <2>2, <2>3, <2>4, <2>5, <2>6
       DEF SetStatus, Entry, Locks, Calls, Released, Typed
<1>10. ASSUME NEW p \in Procs, NEW x \in Xfers, RegisterTransfer(p, x),
              UNCHANGED xferFrame
       PROVE  Typed'
  <2>1. known' \in SUBSET Xfers
    BY <1>10, <1>t, <1>c DEF RegisterTransfer, Typed
  <2> QED
    BY <1>10, <1>t, <2>1 DEF RegisterTransfer, Typed
<1>11. ASSUME NEW p \in Procs, NEW x \in Xfers, UnregisterTransfer(p, x),
              UNCHANGED xferFrame
       PROVE  Typed'
  <2>1. known' \in SUBSET Xfers
    BY <1>11, <1>t, <1>c DEF UnregisterTransfer, Typed
  <2>2. pc' \in Steps
    BY <1>11, <1>t, <1>c DEF UnregisterTransfer, Typed, Steps
  <2>3. call' \in CallSet
    BY <1>11, <1>t, <1>c DEF UnregisterTransfer, Typed, CallSet, CallType
  <2> QED
    BY <1>11, <1>t, <2>1, <2>2, <2>3 DEF UnregisterTransfer, Typed
<1>12. ASSUME NEW a \in Actors, SetThread(a), UNCHANGED bindFrame
       PROVE  Typed'
  <2>1. state' \in States
    BY <1>12, <1>t, <1>c, InHand
       DEF SetThread, Unlocks, Returns, FputGoto, Typed, States
  <2>2. thread' \in Threads
    BY <1>12, <1>t, <1>c, InHand
       DEF SetThread, Unlocks, Returns, FputGoto, Typed, Threads
  <2>3. mutex' \in MutexStates
    BY <1>12, <1>t, <1>c, InHand
       DEF SetThread, Unlocks, Returns, FputGoto, Typed, MutexStates
  <2>4. pc' \in Steps
    BY <1>12, <1>t, <1>c, InHand DEF SetThread, Unlocks, Returns, FputGoto, Typed, Steps
  <2>5. call' \in CallSet
    BY <1>12, <1>t, <1>c, InHand
       DEF SetThread, Unlocks, Returns, FputGoto, Typed, CallSet
  <2>6. backing' \in Backings
    BY <1>12, <1>t, <1>c, InHand
       DEF SetThread, Unlocks, Returns, FputGoto, Typed, Backings
  <2>7. flags' \in FlagSets
    BY <1>12, <1>t, <1>c, InHand
       DEF SetThread, Unlocks, Returns, FputGoto, Typed, FlagSets
  <2>8. refs' \in FileCounts
    BY <1>12, <1>t, <1>c, InHand
       DEF SetThread, Unlocks, Returns, FputGoto, Typed, FileCounts
  <2> QED
    BY <1>12, <1>t, <2>1, <2>2, <2>3, <2>4, <2>5, <2>6, <2>7, <2>8
       DEF SetThread, Unlocks, Returns, FputGoto, Typed
<1>13. ASSUME NEW a \in Actors, ClrStop(a), UNCHANGED bindFrame
       PROVE  Typed'
  <2>1. pc' \in Steps
    BY <1>13, <1>t, <1>c, InHand DEF ClrStop, ReleaseXfer, Typed, Steps
  <2>2. backing' \in Backings
    BY <1>13, <1>t, <1>c, InHand DEF ClrStop, ReleaseXfer, Typed, Backings
  <2>3. flags' \in FlagSets
    BY <1>13, <1>t, <1>c, InHand DEF ClrStop, ReleaseXfer, Typed, FlagSets
  <2>4. thread' \in Threads
    BY <1>13, <1>t, <1>c, InHand DEF ClrStop, ReleaseXfer, Typed, Threads
  <2>5. transfer' \in Transfers
    BY <1>13, <1>t, <1>c, InHand DEF ClrStop, ReleaseXfer, Typed, Transfers
  <2>6. encryption' \in Encryptions
    BY <1>13, <1>t, <1>c, InHand DEF ClrStop, ReleaseXfer, Typed, Encryptions
  <2>7. xferRefs' \in XferCounts
    BY <1>13, <1>t, <1>c, InHand DEF ClrStop, ReleaseXfer, Typed, XferCounts
  <2> QED
    BY <1>13, <1>t, <2>1, <2>2, <2>3, <2>4, <2>5, <2>6, <2>7
       DEF ClrStop, ReleaseXfer, Typed
<1>14. ASSUME NEW a \in Actors, ClrEnd(a), UNCHANGED bindFrame
       PROVE  Typed'
  <2>1. pc' \in Steps
    BY <1>14, <1>t, <1>c, InHand DEF ClrEnd, FputGoto, Typed, Steps
  <2>2. refs' \in FileCounts
    BY <1>14, <1>t, <1>c, InHand DEF ClrEnd, FputGoto, Typed, FileCounts
  <2>3. state' \in States
    BY <1>14, <1>t, <1>c, InHand DEF ClrEnd, FputGoto, Typed, States
  <2> QED
    BY <1>14, <1>t, <2>1, <2>2, <2>3 DEF ClrEnd, FputGoto, Typed
<1>15. ASSUME NEW a \in Actors, ChangeEnd(a), UNCHANGED bindFrame
       PROVE  Typed'
  <2>1. pc' \in Steps
    BY <1>15, <1>t, <1>c, InHand DEF ChangeEnd, FputGoto, Typed, Steps
  <2>2. refs' \in FileCounts
    BY <1>15, <1>t, <1>c, InHand DEF ChangeEnd, FputGoto, Typed, FileCounts
  <2> QED
    BY <1>15, <1>t, <2>1, <2>2 DEF ChangeEnd, FputGoto, Typed
<1>16. ASSUME NEW a \in Actors, Return(a), UNCHANGED bindFrame
       PROVE  Typed'
  <2>1. moduleRefs' \in Int
    BY <1>16, <1>t, <1>c DEF Return, Unlocks, Returns, PutsModule, Typed
  <2>2. mutex' \in MutexStates
    BY <1>16, <1>t, <1>c DEF Return, Unlocks, Returns, PutsModule, Typed, MutexStates
  <2>3. pc' \in Steps
    BY <1>16, <1>t, <1>c DEF Return, Unlocks, Returns, PutsModule, Typed, Steps
  <2>4. call' \in CallSet
    BY <1>16, <1>t, <1>c DEF Return, Unlocks, Returns, PutsModule, Typed, CallSet
  <2> QED
    BY <1>16, <1>t, <2>1, <2>2, <2>3, <2>4
       DEF Return, Unlocks, Returns, PutsModule, Typed
<1>17. ASSUME NEW a \in Actors, SetStatusInit(a), UNCHANGED xferFrame
       PROVE  Typed'
  <2>1. mutex' \in MutexStates
    BY <1>17, <1>t, <1>c, InHand
       DEF SetStatusInit, Unlocks, Returns, SetAutoclear, Typed, MutexStates
  <2>2. pc' \in Steps
    BY <1>17, <1>t, <1>c, InHand
       DEF SetStatusInit, Unlocks, Returns, SetAutoclear, Typed, Steps
  <2>3. call' \in CallSet
    BY <1>17, <1>t, <1>c, InHand
       DEF SetStatusInit, Unlocks, Returns, SetAutoclear, Typed, CallSet
  <2>4. xferRefs' \in XferCounts
    BY <1>17, <1>t, <1>c, InHand
       DEF SetStatusInit, Unlocks, Returns, SetAutoclear, Typed, XferCounts
  <2>5. encryption' \in Encryptions
    BY <1>17, <1>t, <1>c, InHand
       DEF SetStatusInit, Unlocks, Returns, SetAutoclear, Typed, Encryptions
  <2>6. transfer' \in Transfers
    BY <1>17, <1>t, <1>c, InHand
       DEF SetStatusInit, Unlocks, Returns, SetAutoclear, Typed, Transfers
  <2>7. flags' \in FlagSets
    BY <1>17, <1>t, <1>c, InHand
       DEF SetStatusInit, Unlocks, Returns, SetAutoclear, Typed, FlagSets
  <2> QED
    BY <1>17, <1>t, <2>1, <2>2, <2>3, <2>4, <2>5, <2>6, <2>7
       DEF SetStatusInit, Unlocks, Returns, SetAutoclear, Typed
<1>18. ASSUME NEW a \in Actors, NEW d \in Devices, Visit(a, d), UNCHANGED xferFrame
       PROVE  Typed'
  <2>1. encryption' \in Encryptions
    BY <1>18, <1>t, <1>c DEF Visit, MayVisit, ReleaseXfer, Returns, Typed, Encryptions
  <2>2. transfer' \in Transfers
    BY <1>18, <1>t, <1>c DEF Visit, MayVisit, ReleaseXfer, Returns, Typed, Transfers
  <2>3. xferRefs' \in XferCounts
    BY <1>18, <1>t, <1>c DEF Visit, MayVisit, ReleaseXfer, Returns, Typed, XferCounts
  <2>4. pc' \in Steps
    BY <1>18, <1>t, <1>c DEF Visit, MayVisit, ReleaseXfer, Returns, Typed, Steps
  <2>5. call' \in CallSet
    BY <1>18, <1>t, <1>c
       DEF Visit, MayVisit, ReleaseXfer, Returns, Typed, CallSet, CallType
  <2> QED
    BY <1>18, <1>t, <2>1, <2>2, <2>3, <2>4, <2>5
       DEF Visit, MayVisit, ReleaseXfer, Returns, Typed
<1>19. ASSUME NEW d \in Devices, ThreadTake(d), UNCHANGED ioFrame
       PROVE  Typed'
  <2>1. inHand' \in Hands
    BY <1>19, <1>t, <1>c DEF ThreadTake, HasBdev, Typed, Hands
  <2>2. queue' \in Queues
    BY <1>19, <1>t, <1>c DEF ThreadTake, HasBdev, Typed, Queues
  <2> QED
    BY <1>19, <1>t, <2>1, <2>2 DEF ThreadTake, HasBdev, Typed
<1>20. ASSUME NEW d \in Devices, ThreadEnd(d), UNCHANGED ioFrame
       PROVE  Typed'
  <2>1. inHand' \in Hands
    BY <1>20, <1>t, <1>c DEF ThreadEnd, Typed, Hands
  <2>2. accepted' \in SUBSET Bios
    BY <1>20, <1>t, <1>c DEF ThreadEnd, Typed
  <2> QED
    BY <1>20, <1>t, <2>1, <2>2 DEF ThreadEnd, Typed
<1>21. ASSUME NEW d \in Devices, ThreadStart(d) \/ ThreadExit(d), UNCHANGED ioFrame
       PROVE  Typed'
  <2>1. thread' \in Threads
    BY <1>21, <1>t, <1>c DEF ThreadStart, ThreadExit, Typed, Threads
  <2> QED
    BY <1>21, <1>t, <2>1 DEF ThreadStart, ThreadExit, Typed
<1>22. ASSUME NEW d \in Devices, ThreadSwitch(d), UNCHANGED bindFrame
       PROVE  Typed'
  <2>1. queue' \in Queues
    BY <1>22, <1>t, <1>c, InHand DEF ThreadSwitch, Typed, Queues
  <2>2. backing' \in Backings
    BY <1>22, <1>t, <1>c, InHand DEF ThreadSwitch, Typed, Backings
  <2>3. call' \in CallSet
    BY <1>22, <1>t, <1>c, InHand DEF ThreadSwitch, Typed, CallSet, CallType, Backings
  <2>4. pc' \in Steps
    BY <1>22, <1>t, <1>c, InHand DEF ThreadSwitch, Typed, Steps
  <2> QED
    BY <1>22, <1>t, <2>1, <2>2, <2>3, <2>4 DEF ThreadSwitch, Typed
<1>23. ASSUME NEW d \in Devices, NEW b \in Bios, MakeRequest(d, b), UNCHANGED ioFrame
       PROVE  Typed'
  <2>1. queue' \in Queues
    BY <1>23, <1>t, <1>c DEF MakeRequest, Takes, Typed, Queues
  <2>2. accepted' \in SUBSET Bios
    BY <1>23, <1>t, <1>c DEF MakeRequest, Takes, Typed
  <2> QED
    BY <1>23, <1>t, <2>1, <2>2 DEF MakeRequest, Takes, Typed
<1> QED
  BY <1>0, <1>1, <1>2, <1>3, <1>4, <1>5, <1>6, <1>7, <1>8, <1>9, <1>10, <1>11, <1>12,
     <1>13, <1>14, <1>15, <1>16, <1>17, <1>18, <1>19, <1>20, <1>21, <1>22, <1>23
     DEF Next, BindRequests, XferRequests, Continue, BindContinue, XferContinue, Thread,
         ThreadIo

\* Every use of a file is a reference to it.
LEMMA RefsPositive ==
    ASSUME TypeOK, Counted, NEW f \in Files
    PROVE  /\ refs[f] \in Int /\ refs[f] >= 0
           /\ f \in opened => refs[f] >= 1
           /\ \A d \in Devices : backing[d] = f => refs[f] >= 1
           /\ \A d \in Devices : d \in InCall(f) => refs[f] >= 1
           /\ \A d \in Devices : backing[d] = f /\ f \in opened => refs[f] >= 2
           /\ \A d \in Devices : d \in InCall(f) /\ f \in opened => refs[f] >= 2
<1>1. IsFiniteSet(Backed(f)) /\ IsFiniteSet(InCall(f))
  BY DevicesAssumption, FS_Subset DEF Backed, InCall
<1>2. Cardinality(Backed(f)) \in Nat /\ Cardinality(InCall(f)) \in Nat
  BY <1>1, FS_CardinalityType
<1>3. ASSUME NEW d \in Backed(f) PROVE Cardinality(Backed(f)) >= 1
  BY <1>1, <1>2, FS_EmptySet
<1>4. ASSUME NEW d \in InCall(f) PROVE Cardinality(InCall(f)) >= 1
  BY <1>1, <1>2, FS_EmptySet
<1>5. refs[f] = Cardinality(Backed(f)) + Cardinality(InCall(f))
          + IF f \in opened THEN 1 ELSE 0
  BY DEF Counted
<1>6. \A d \in Devices : backing[d] = f => d \in Backed(f)
  BY DEF Backed
<1> QED
  BY <1>2, <1>3, <1>4, <1>5, <1>6

\* Whoever lets go of a file, user space or a call, has a reference of it to let go of.
LEMMA LetsGo ==
    ASSUME TypeOK, Mutexes, Bound, Requests, Counted
    PROVE  /\ \A f \in opened : refs[f] >= 1
           /\ \A a \in Actors : pc[a] \in {"set_thread", "clr_end", "switched"} =>
                 call[a].file \in Files /\ refs[call[a].file] >= 1 /\ a # call[a].file
<1>1. \A f \in opened : f \in Files
  BY DEF TypeOK
<1>2. ASSUME NEW a \in Actors, pc[a] \in {"set_thread", "clr_end", "switched"}
      PROVE  call[a].file \in Files /\ refs[call[a].file] >= 1 /\ a # call[a].file
  <2> DEFINE d == call[a].dev
             f == call[a].file
  <2>1. d \in Devices /\ f \in Files
    BY <1>2, InHand
  <2>2. pc[a] \in Holding /\ Hold(d) = call[a] /\ Calling(d) /\ \A s :
            InStep(d, s) <=> pc[a] \in s
    BY <1>2, StepHolder DEF Holding
  <2>3. CASE pc[a] = "set_thread"
    <3>1. backing[d] = f
      BY <2>2, <2>3 DEF Calling
    <3> QED
      BY <2>1, <3>1, RefsPositive, <2>3, ActorsAssumption
         DEF Mutexes, Referenced, Actors
  <2>4. CASE pc[a] \in {"clr_end", "switched"}
    <3>1. d \in InCall(f)
      BY <2>1, <2>2, <2>4 DEF InCall
    <3>2. refs[f] >= 1
      BY <2>1, <3>1, RefsPositive
    <3> QED
      BY <2>1, <3>2, <2>4, ActorsAssumption DEF Mutexes, Referenced, Actors
  <2> QED
    BY <1>2, <2>3, <2>4
<1> QED
  BY <1>1, <1>2, RefsPositive

\* fput wakes an idle node at most: whoever is inside a call stays where it is.
LEMMA FputKeeps ==
    ASSUME TypeOK, Mutexes, NEW f \in Files, refs[f] >= 1, NEW a, NEW s,
           FputGoto(a, f, s)
    PROVE  /\ \A x \in Actors : x # a /\ pc[x] # "idle" => pc'[x] = pc[x]
           /\ \A x \in Actors : x # a /\ pc'[x] # pc[x] => pc'[x] = "release"
           /\ a \in Actors => pc'[a] = s
BY ActorsAssumption DEF FputGoto, TypeOK, Mutexes, Referenced, Actors, Files

\* So it takes nobody's mutex away.
LEMMA FputHolders ==
    ASSUME TypeOK, Mutexes, NEW f \in Files, refs[f] >= 1, NEW a, NEW s,
           FputGoto(a, f, s),
           s \in Holding \/ a \notin Actors, UNCHANGED <<mutex, call>>
    PROVE  Holders'
<1> SUFFICES ASSUME NEW d \in Devices, Held(d)'
             PROVE  (pc[mutex[d]] \in Holding /\ call[mutex[d]].dev = d)'
  BY DEF Holders
<1>1. mutex'[d] = mutex[d] /\ mutex[d] \in Actors
  BY DEF Held, TypeOK
<1>2. pc[mutex[d]] \in Holding /\ call[mutex[d]].dev = d
  BY <1>1 DEF Held, Mutexes, Holders
<1>3. pc'[mutex[d]] \in Holding
  <2>1. CASE mutex[d] = a
    BY <1>1, <2>1, FputKeeps
  <2>2. CASE mutex[d] # a
    <3>1. pc[mutex[d]] # "idle"
      BY <1>2 DEF Holding
    <3> QED
      BY <1>1, <1>2, <2>2, <3>1, FputKeeps
  <2> QED
    BY <2>1, <2>2
<1> QED
  BY <1>1, <1>2, <1>3

\* Files, devices and actors.
LEMMA Sorts ==
    /\ NoActor \notin Actors /\ Procs \cap Files = {} /\ \A p \in Procs : p \in Actors
    /\ \A n \in Nodes : DevOf[n] \in Devices /\ n \in Files /\ n \in Actors
    /\ \A a \in Actors : a \in Files => a \in Nodes
BY DevicesAssumption, ActorsAssumption, FilesAssumption DEF Files, Actors

\* lo_ctl_mutex: it is taken by an idle actor that enters a call on the device
\* and given back when the call leaves, and no fput pulls a node out of one.
LEMMA MutexesStep ==
    ASSUME TypeOK, Mutexes, Bound, Requests, Counted, [Next]_vars
    PROVE  Mutexes'
<1> USE DEF vars, bindVars, xferVars, ioVars, fileVars, callVars, bindFrame, xferFrame,
            ioFrame, threadVars, At, Goto
<1>t. Typed
  BY TypedIs
<1>0. CASE UNCHANGED <<mutex, pc, call, refs>>
  BY <1>0 DEF Mutexes, InCalls, Holders, Referenced, Held
<1>1. ASSUME NEW n \in Nodes, Open(n)
       PROVE  Mutexes'
  <2>1. InCalls'
    BY <1>1, <1>t, Sorts, LetsGo
       DEF Open, InCalls, Mutexes, Holders, Held, Holding, Typed, MutexStates, Steps,
           CallSet, CallType
  <2>2. Holders'
    BY <1>1, <1>t, Sorts, LetsGo
       DEF Open, Holders, Mutexes, InCalls, Held, Holding, Typed, MutexStates, Steps,
           CallSet, CallType
  <2>3. Referenced'
    BY <1>1, <1>t, Sorts, LetsGo, RefsPositive
       DEF Open, Referenced, Mutexes, Holding, Typed, Steps, FileCounts
  <2> QED
    BY <2>1, <2>2, <2>3 DEF Mutexes
<1>2. ASSUME NEW n \in Nodes, Release(n)
       PROVE  Mutexes'
  <2>1. InCalls'
    BY <1>2, <1>t, Sorts, LetsGo
       DEF Release, RunDown, Locks, Calls, InCalls, Mutexes, Holding, Typed,
           MutexStates, Steps, CallSet
  <2>2. Holders'
    BY <1>2, <1>t, Sorts, LetsGo
       DEF Release, RunDown, Locks, Calls, Holders, Mutexes, Held, Holding, Typed,
           MutexStates, Steps, CallSet
  <2>3. Referenced'
    BY <1>2, <1>t, Sorts, LetsGo, RefsPositive
       DEF Release, RunDown, Locks, Calls, Referenced, Mutexes, Holding, Typed, Steps,
           FileCounts
  <2> QED
    BY <2>1, <2>2, <2>3 DEF Mutexes
<1>3. ASSUME NEW f \in Files, Close(f)
       PROVE  Mutexes'
  <2>1. InCalls'
    BY <1>3, <1>t, Sorts, LetsGo, FputKeeps DEF Close, InCalls, Mutexes, Holding
  <2>2. Holders'
    BY <1>3, Sorts, LetsGo, FputHolders DEF Close
  <2>3. Referenced'
    BY <1>3, <1>t, Sorts, LetsGo, RefsPositive
       DEF Close, Referenced, Mutexes, Holding, Typed, Steps, FileCounts, FputGoto
  <2> QED
    BY <2>1, <2>2, <2>3 DEF Mutexes
<1>4. ASSUME NEW p \in Procs, NEW n \in Nodes, ClrFd(p, n), UNCHANGED bindFrame
       PROVE  Mutexes'
  <2>1. InCalls'
    BY <1>4, <1>t, Sorts, LetsGo
       DEF ClrFd, RunDown, Locks, Calls, InCalls, Mutexes, Typed, MutexStates, CallSet
  <2>2. Holders'
    BY <1>4, <1>t, Sorts, LetsGo
       DEF ClrFd, RunDown, Locks, Calls, Entry, Holders, Mutexes, Held, Holding, Typed,
           MutexStates, Steps, CallSet
  <2>3. Referenced'
    BY <1>4, <1>t, Sorts, LetsGo, RefsPositive
       DEF ClrFd, RunDown, Locks, Entry, Referenced, Mutexes, Typed, Steps
  <2> QED
    BY <2>1, <2>2, <2>3 DEF Mutexes
<1>5. ASSUME NEW p \in Procs, NEW n \in Nodes, NEW f \in Files, SetFd(p, n, f),
             UNCHANGED bindFrame
       PROVE  Mutexes'
  <2>1. InCalls'
    BY <1>5, <1>t, Sorts, LetsGo
       DEF SetFd, BeginSetFd, Locks, Calls, InCalls, Mutexes, Typed, MutexStates,
           CallSet
  <2>2. Holders'
    BY <1>5, <1>t, Sorts, LetsGo
       DEF SetFd, BeginSetFd, Entry, Locks, Calls, Holders, Mutexes, Held, Holding,
           Typed, MutexStates, Steps, CallSet
  <2>3. Referenced'
    BY <1>5, <1>t, Sorts, LetsGo, RefsPositive
       DEF SetFd, BeginSetFd, Entry, Locks, TakeFile, Referenced, Mutexes, Typed, Steps
  <2> QED
    BY <2>1, <2>2, <2>3 DEF Mutexes
<1>6. ASSUME NEW p \in Procs, NEW n \in Nodes, NEW f \in Files, SetFdOops(p, n, f),
             UNCHANGED bindFrame
       PROVE  Mutexes'
  <2>1. InCalls'
    BY <1>6, <1>t, Sorts, LetsGo
       DEF SetFdOops, BeginSetFd, Locks, Calls, InCalls, Mutexes, Typed, MutexStates,
           CallSet
  <2>2. Holders'
    BY <1>6, <1>t, Sorts, LetsGo
       DEF SetFdOops, BeginSetFd, Entry, Locks, Calls, Holders, Mutexes, Held, Holding,
           Typed, MutexStates, Steps, CallSet
  <2>3. Referenced'
    BY <1>6, <1>t, Sorts, LetsGo, RefsPositive
       DEF SetFdOops, BeginSetFd, Entry, Locks, TakeFile, Referenced, Mutexes, Typed,
           Steps
  <2> QED
    BY <2>1, <2>2, <2>3 DEF Mutexes
<1>7. ASSUME NEW p \in Procs, NEW n \in Nodes, NEW f \in Files, ChangeFd(p, n, f),
             UNCHANGED bindFrame
       PROVE  Mutexes'
  <2>1. InCalls'
    BY <1>7, <1>t, Sorts, LetsGo
       DEF ChangeFd, Locks, Calls, InCalls, Mutexes, Typed, MutexStates, CallSet
  <2>2. Holders'
    BY <1>7, <1>t, Sorts, LetsGo
       DEF ChangeFd, Entry, Locks, Calls, Holders, Mutexes, Held, Holding, Typed,
           MutexStates, Steps, CallSet
  <2>3. Referenced'
    BY <1>7, <1>t, Sorts, LetsGo, RefsPositive
       DEF ChangeFd, MayChange, Entry, Locks, TakeFile, Referenced, Mutexes, Typed,
           Steps
  <2> QED
    BY <2>1, <2>2, <2>3 DEF Mutexes
<1>8. ASSUME NEW p \in Procs, NEW n \in Nodes, NEW x \in Xfers, SetStatus(p, n, x),
             UNCHANGED xferFrame
       PROVE  Mutexes'
  <2>1. InCalls'
    BY <1>8, <1>t, Sorts, LetsGo
       DEF SetStatus, Locks, Calls, InCalls, Mutexes, Typed, MutexStates, CallSet
  <2>2. Holders'
    BY <1>8, <1>t, Sorts, LetsGo
       DEF SetStatus, Entry, Locks, Calls, Holders, Mutexes, Held, Holding, Typed,
           MutexStates, Steps, CallSet
  <2>3. Referenced'
    BY <1>8, <1>t, Sorts, LetsGo, RefsPositive
       DEF SetStatus, Entry, Locks, Released, Referenced, Mutexes, Typed, Steps
  <2> QED
    BY <2>1, <2>2, <2>3 DEF Mutexes
<1>9. ASSUME NEW p \in Procs, NEW x \in Xfers, UnregisterTransfer(p, x),
             UNCHANGED xferFrame
       PROVE  Mutexes'
  <2>1. InCalls'
    BY <1>9, <1>t, Sorts, LetsGo
       DEF UnregisterTransfer, InCalls, Mutexes, Holders, Held, Holding, Typed,
           MutexStates, Steps, CallSet, CallType
  <2>2. Holders'
    BY <1>9, <1>t, Sorts, LetsGo
       DEF UnregisterTransfer, Holders, Mutexes, InCalls, Held, Holding, Typed,
           MutexStates, Steps, CallSet, CallType
  <2>3. Referenced'
    BY <1>9, <1>t, Sorts, LetsGo, RefsPositive
       DEF UnregisterTransfer, Referenced, Mutexes, Holding, Typed, Steps, FileCounts
  <2> QED
    BY <2>1, <2>2, <2>3 DEF Mutexes
<1>10. ASSUME NEW a \in Actors, SetThread(a), UNCHANGED bindFrame
       PROVE  Mutexes'
  <2>1. InCalls'
    BY <1>10, <1>t, Sorts, LetsGo, FputKeeps
       DEF SetThread, Unlocks, Returns, InCalls, Mutexes, Holding, Typed, MutexStates,
           Steps, CallSet
  <2>2. Holders'
    <3>1. CASE Unlocks(a) /\ Returns(a)
      BY <3>1, <1>10, <1>t, Sorts
         DEF SetThread, Unlocks, Returns, Holders, Mutexes, Held, Typed, MutexStates
    <3>2. CASE FputGoto(a, call[a].file, "module_put") /\ UNCHANGED <<mutex, call>>
      <4>1. "module_put" \in Holding
        BY DEF Holding
      <4> QED
        BY <3>2, <4>1, <1>10, LetsGo, FputHolders DEF SetThread
    <3> QED
      BY <3>1, <3>2, <1>10 DEF SetThread
  <2>3. Referenced'
    BY <1>10, <1>t, Sorts, LetsGo, RefsPositive
       DEF SetThread, Unlocks, Returns, Referenced, Mutexes, Holding, Typed, Steps,
           FileCounts, FputGoto
  <2> QED
    BY <2>1, <2>2, <2>3 DEF Mutexes
<1>11. ASSUME NEW a \in Actors, ClrStop(a), UNCHANGED bindFrame
       PROVE  Mutexes'
  <2>1. InCalls'
    BY <1>11, <1>t, Sorts, LetsGo DEF ClrStop, InCalls, Mutexes, Holding
  <2>2. Holders'
    BY <1>11, <1>t, Sorts, LetsGo DEF ClrStop, Holders, Mutexes, Held, Holding
  <2>3. Referenced'
    BY <1>11, <1>t, Sorts, LetsGo, RefsPositive
       DEF ClrStop, ReleaseXfer, Referenced, Mutexes, Holding, Typed, Steps, FileCounts
  <2> QED
    BY <2>1, <2>2, <2>3 DEF Mutexes
<1>12. ASSUME NEW a \in Actors, ClrEnd(a), UNCHANGED bindFrame
       PROVE  Mutexes'
  <2>1. InCalls'
    BY <1>12, <1>t, Sorts, LetsGo, FputKeeps DEF ClrEnd, InCalls, Mutexes, Holding
  <2>2. Holders'
    <3>1. "module_put" \in Holding
      BY DEF Holding
    <3> QED
      BY <3>1, <1>12, LetsGo, FputHolders DEF ClrEnd
  <2>3. Referenced'
    BY <1>12, <1>t, Sorts, LetsGo, RefsPositive
       DEF ClrEnd, Referenced, Mutexes, Holding, Typed, Steps, FileCounts, FputGoto
  <2> QED
    BY <2>1, <2>2, <2>3 DEF Mutexes
<1>13. ASSUME NEW a \in Actors, ChangeEnd(a), UNCHANGED bindFrame
       PROVE  Mutexes'
  <2>1. InCalls'
    BY <1>13, <1>t, Sorts, LetsGo, FputKeeps DEF ChangeEnd, InCalls, Mutexes, Holding
  <2>2. Holders'
    <3>1. "unlock" \in Holding
      BY DEF Holding
    <3> QED
      BY <3>1, <1>13, LetsGo, FputHolders DEF ChangeEnd
  <2>3. Referenced'
    BY <1>13, <1>t, Sorts, LetsGo, RefsPositive
       DEF ChangeEnd, Referenced, Mutexes, Holding, Typed, Steps, FileCounts, FputGoto
  <2> QED
    BY <2>1, <2>2, <2>3 DEF Mutexes
<1>14. ASSUME NEW a \in Actors, Return(a), UNCHANGED bindFrame
       PROVE  Mutexes'
  <2>1. InCalls'
    BY <1>14, <1>t, Sorts, LetsGo
       DEF Return, Unlocks, Returns, InCalls, Mutexes, Holding, Typed, Steps
  <2>2. Holders'
    BY <1>14, <1>t, Sorts, LetsGo
       DEF Return, Unlocks, Returns, Holders, Mutexes, Held, Holding, Typed,
           MutexStates, Steps
  <2>3. Referenced'
    BY <1>14, <1>t, Sorts, LetsGo, RefsPositive
       DEF Return, Unlocks, Returns, PutsModule, Referenced, Mutexes, Holding, Typed,
           Steps, FileCounts
  <2> QED
    BY <2>1, <2>2, <2>3 DEF Mutexes
<1>15. ASSUME NEW a \in Actors, SetStatusInit(a), UNCHANGED xferFrame
       PROVE  Mutexes'
  <2>1. InCalls'
    BY <1>15, <1>t, Sorts, LetsGo
       DEF SetStatusInit, Unlocks, Returns, InCalls, Mutexes, Holding, Typed, Steps
  <2>2. Holders'
    BY <1>15, <1>t, Sorts, LetsGo
       DEF SetStatusInit, Unlocks, Returns, Holders, Mutexes, Held, Holding, Typed,
           MutexStates, Steps
  <2>3. Referenced'
    BY <1>15, <1>t, Sorts, LetsGo, RefsPositive
       DEF SetStatusInit, Unlocks, Returns, SetAutoclear, Referenced, Mutexes, Holding,
           Typed, Steps, FileCounts
  <2> QED
    BY <2>1, <2>2, <2>3 DEF Mutexes
<1>16. ASSUME NEW a \in Actors, NEW d \in Devices, Visit(a, d), UNCHANGED xferFrame
       PROVE  Mutexes'
  <2>1. InCalls'
    BY <1>16, <1>t, Sorts, LetsGo
       DEF Visit, Returns, InCalls, Mutexes, Holding, Typed, Steps, CallSet
  <2>2. Holders'
    BY <1>16, <1>t, Sorts, LetsGo
       DEF Visit, Returns, Holders, Mutexes, Held, Holding, Typed, MutexStates, Steps,
           CallSet
  <2>3. Referenced'
    BY <1>16, <1>t, Sorts, LetsGo, RefsPositive
       DEF Visit, MayVisit, ReleaseXfer, Returns, Referenced, Mutexes, Holding, Typed,
           Steps, FileCounts
  <2> QED
    BY <2>1, <2>2, <2>3 DEF Mutexes
<1>17. ASSUME NEW d \in Devices, ThreadSwitch(d), UNCHANGED bindFrame
       PROVE  Mutexes'
  <2>1. InCalls'
    BY <1>17, <1>t, Sorts, LetsGo, InHand DEF ThreadSwitch, InCalls, Mutexes
  <2>2. Holders'
    BY <1>17, <1>t, Sorts, LetsGo, InHand
       DEF ThreadSwitch, Holders, Mutexes, Held, Holding, Typed, MutexStates
  <2>3. Referenced'
    BY <1>17, <1>t, Sorts, LetsGo, RefsPositive, InHand
       DEF ThreadSwitch, Referenced, Mutexes, Holding, Typed, Steps, FileCounts
  <2> QED
    BY <2>1, <2>2, <2>3 DEF Mutexes
<1> QED
  BY <1>0, <1>1, <1>2, <1>3, <1>4, <1>5, <1>6, <1>7, <1>8, <1>9, <1>10, <1>11, <1>12,
     <1>13, <1>14, <1>15, <1>16, <1>17
     DEF Next, BindRequests, XferRequests, Continue, BindContinue, XferContinue, Thread,
         SetStatusPlain, RegisterTransfer

\* A device nobody touches, whose holder goes on with its call.
SameData(d) ==
    /\ state'[d] = state[d] /\ thread'[d] = thread[d] /\ backing'[d] = backing[d]
    /\ flags'[d] = flags[d] /\ queue'[d] = queue[d] /\ inHand'[d] = inHand[d]
    /\ encryption'[d] = encryption[d] /\ transfer'[d] = transfer[d]
           /\ mutex'[d] = mutex[d]
Same(d) ==
    /\ SameData(d)
    /\ Held(d) => pc'[mutex[d]] = pc[mutex[d]] /\ call'[mutex[d]] = call[mutex[d]]

\* On such a device the call under way is in the same step, ...
LEMMA SameInStep ==
    ASSUME NEW d, Same(d)
    PROVE  /\ \A s : InStep(d, s)' <=> InStep(d, s)
           /\ \A s : InStep(d, s) => Hold(d)' = Hold(d)
BY DEF Same, SameData, InStep, Hold, Held

\* ... and what a device is in that step remains true.
LEMMA SameBound ==
    ASSUME NEW d, Same(d), Binding(d), Calling(d)
    PROVE  Binding(d)' /\ Calling(d)'
<1>1. Binding(d)'
  BY SameInStep DEF Same, SameData, Binding
<1>2. Calling(d)'
  BY SameInStep DEF Same, SameData, Calling
<1> QED
  BY <1>1, <1>2

\* Who holds a device's mutex is inside a call, and of no other device.
LEMMA HolderIsBusy ==
    ASSUME TypeOK, Mutexes, NEW g \in Devices, Held(g)
    PROVE  /\ mutex[g] \in Actors /\ pc[mutex[g]] \in Holding /\ call[mutex[g]].dev = g
           /\ pc[mutex[g]] \notin {"idle", "release", "unregister"}
BY DEF Mutexes, Holders, Held, Holding, TypeOK

\* A step, and the one device it is about.
Moves(e) ==
    \/ e = NoDevice /\ UNCHANGED vars
    \/ e = NoDevice /\ \E f \in Files : Close(f)
    \/ e = NoDevice /\ \E p \in Procs, x \in Xfers :
          (RegisterTransfer(p, x) \/ UnregisterTransfer(p, x)) /\ UNCHANGED xferFrame
    \/ /\ e \in Devices
       /\ \/ \E n \in Nodes :
             /\ e = DevOf[n]
             /\ \/ Open(n) \/ Release(n)
                \/ \E p \in Procs :
                   \/ ClrFd(p, n) /\ UNCHANGED bindFrame
                   \/ \E f \in Files :
                          /\ SetFd(p, n, f) \/ SetFdOops(p, n, f) \/ ChangeFd(p, n, f)
                          /\ UNCHANGED bindFrame
                   \/ SetStatusPlain(p, n) /\ UNCHANGED xferFrame
                   \/ \E x \in Xfers : SetStatus(p, n, x) /\ UNCHANGED xferFrame
          \/ \E a \in Actors :
             /\ e = call[a].dev /\ mutex[e] = a
             /\ \/ BindContinue(a) /\ UNCHANGED bindFrame
                \/ SetStatusInit(a) /\ UNCHANGED xferFrame
          \/ \E a \in Actors : Visit(a, e) /\ UNCHANGED xferFrame
          \/ Thread(e)
          \/ \E b \in Bios : MakeRequest(e, b) /\ UNCHANGED ioFrame

\* Every step is about one device at most and leaves all the others alone.
LEMMA Elsewhere ==
    ASSUME TypeOK, Mutexes, Bound, Requests, Counted, [Next]_vars
    PROVE  \E e \in Devices \cup {NoDevice} : Moves(e) /\ \A g \in Devices \ {e} :
               Same(g)
<1> USE DEF vars, bindVars, xferVars, ioVars, fileVars, callVars, bindFrame, xferFrame,
            ioFrame, threadVars, At, Goto
<1> DEFINE Local == \E e \in Devices \cup {NoDevice} :
        Moves(e) /\ \A g \in Devices \ {e} : Same(g)
<1>t. Typed
  BY TypedIs
<1>0. CASE UNCHANGED vars
  BY <1>0 DEF Moves, Same, SameData
<1>1. ASSUME NEW n \in Nodes, Open(n)
       PROVE  Local
  <2>1. ASSUME NEW g \in Devices, g # DevOf[n] PROVE Same(g)
    <3>1. Held(g) => mutex[g] \in Actors
      BY <1>1, <2>1, Sorts, HolderIsBusy DEF Holding
    <3>2. ASSUME Held(g)
          PROVE  pc'[mutex[g]] = pc[mutex[g]] /\ call'[mutex[g]] = call[mutex[g]]
      BY <1>1, <3>1, <3>2, <1>t, Sorts DEF Open, Typed, Steps, CallSet
    <3>3. SameData(g)
      BY <1>1, <2>1, <1>t, Sorts
         DEF SameData, Open, Typed, States, Backings, FlagSets, Encryptions, Transfers,
             MutexStates, Threads, Queues, Hands
    <3> QED
      BY <3>2, <3>3 DEF Same, SameData
  <2>2. Moves(DevOf[n])
    BY <1>1, Sorts DEF Moves, BindContinue, Thread, ThreadIo
  <2> QED
    BY <2>1, <2>2, Sorts
<1>2. ASSUME NEW n \in Nodes, Release(n)
       PROVE  Local
  <2>1. ASSUME NEW g \in Devices, g # DevOf[n] PROVE Same(g)
    <3>1. Held(g) => mutex[g] \in Actors /\ mutex[g] # n
      BY <1>2, <2>1, Sorts, HolderIsBusy DEF Release, RunDown, Locks, Calls, Holding
    <3>2. ASSUME Held(g)
          PROVE  pc'[mutex[g]] = pc[mutex[g]] /\ call'[mutex[g]] = call[mutex[g]]
      BY <1>2, <3>1, <3>2, <1>t, Sorts
         DEF Release, RunDown, Locks, Calls, Typed, Steps, CallSet
    <3>3. SameData(g)
      BY <1>2, <2>1, <1>t, Sorts
         DEF SameData, Release, RunDown, Locks, Typed, States, MutexStates, Threads
    <3> QED
      BY <3>2, <3>3 DEF Same, SameData
  <2>2. Moves(DevOf[n])
    BY <1>2, Sorts DEF Moves, BindContinue, Thread, ThreadIo
  <2> QED
    BY <2>1, <2>2, Sorts
<1>3. ASSUME NEW f \in Files, Close(f)
       PROVE  Local
  <2>1. ASSUME NEW g \in Devices PROVE Same(g)
    <3>1. Held(g) => mutex[g] \in Actors
      BY <1>3, <2>1, Sorts, HolderIsBusy DEF Holding
    <3>2. ASSUME Held(g)
          PROVE  pc'[mutex[g]] = pc[mutex[g]] /\ call'[mutex[g]] = call[mutex[g]]
      BY <1>3, <3>1, <3>2, <1>t, Sorts, HolderIsBusy, LetsGo, FputKeeps
         DEF Close, Typed, Steps, CallSet
    <3>3. SameData(g)
      BY <1>3, <2>1, <1>t, Sorts
         DEF SameData, Close, Typed, States, Backings, FlagSets, Encryptions, Transfers,
             MutexStates, Threads, Queues, Hands
    <3> QED
      BY <3>2, <3>3 DEF Same, SameData
  <2>2. Moves(NoDevice)
    BY <1>3, Sorts DEF Moves, BindContinue, Thread, ThreadIo
  <2> QED
    BY <2>1, <2>2, Sorts
<1>4. ASSUME NEW p \in Procs, NEW n \in Nodes, ClrFd(p, n), UNCHANGED bindFrame
       PROVE  Local
  <2>1. ASSUME NEW g \in Devices, g # DevOf[n] PROVE Same(g)
    <3>1. Held(g) => mutex[g] \in Actors /\ mutex[g] # p
      BY <1>4, <2>1, Sorts, HolderIsBusy
         DEF ClrFd, RunDown, Locks, Calls, Entry, Holding
    <3>2. ASSUME Held(g)
          PROVE  pc'[mutex[g]] = pc[mutex[g]] /\ call'[mutex[g]] = call[mutex[g]]
      BY <1>4, <3>1, <3>2, <1>t, Sorts
         DEF ClrFd, RunDown, Locks, Calls, Entry, Typed, Steps, CallSet
    <3>3. SameData(g)
      BY <1>4, <2>1, <1>t, Sorts
         DEF SameData, ClrFd, RunDown, Locks, Typed, States, Threads, MutexStates
    <3> QED
      BY <3>2, <3>3 DEF Same, SameData
  <2>2. Moves(DevOf[n])
    BY <1>4, Sorts DEF Moves, BindContinue, Thread, ThreadIo
  <2> QED
    BY <2>1, <2>2, Sorts
<1>5. ASSUME NEW p \in Procs, NEW n \in Nodes, NEW f \in Files, SetFd(p, n, f),
             UNCHANGED bindFrame
       PROVE  Local
  <2>1. ASSUME NEW g \in Devices, g # DevOf[n] PROVE Same(g)
    <3>1. Held(g) => mutex[g] \in Actors /\ mutex[g] # p
      BY <1>5, <2>1, Sorts, HolderIsBusy
         DEF SetFd, BeginSetFd, Entry, Locks, Calls, TakeFile, Holding
    <3>2. ASSUME Held(g)
          PROVE  pc'[mutex[g]] = pc[mutex[g]] /\ call'[mutex[g]] = call[mutex[g]]
      BY <1>5, <3>1, <3>2, <1>t, Sorts
         DEF SetFd, BeginSetFd, Entry, Locks, Calls, TakeFile, Typed, Steps, CallSet
    <3>3. SameData(g)
      BY <1>5, <2>1, <1>t, Sorts DEF SameData, SetFd, BeginSetFd, Locks
    <3> QED
      BY <3>2, <3>3 DEF Same, SameData
  <2>2. Moves(DevOf[n])
    BY <1>5, Sorts DEF Moves, BindContinue, Thread, ThreadIo
  <2> QED
    BY <2>1, <2>2, Sorts
<1>6. ASSUME NEW p \in Procs, NEW n \in Nodes, NEW f \in Files, SetFdOops(p, n, f),
             UNCHANGED bindFrame
       PROVE  Local
  <2>1. ASSUME NEW g \in Devices, g # DevOf[n] PROVE Same(g)
    <3>1. Held(g) => mutex[g] \in Actors /\ mutex[g] # p
      BY <1>6, <2>1, Sorts, HolderIsBusy
         DEF SetFdOops, BeginSetFd, Entry, Locks, Calls, TakeFile, Holding
    <3>2. ASSUME Held(g)
          PROVE  pc'[mutex[g]] = pc[mutex[g]] /\ call'[mutex[g]] = call[mutex[g]]
      BY <1>6, <3>1, <3>2, <1>t, Sorts
         DEF SetFdOops, BeginSetFd, Entry, Locks, Calls, TakeFile, Typed, Steps, CallSet
    <3>3. SameData(g)
      BY <1>6, <2>1, <1>t, Sorts DEF SameData, SetFdOops, BeginSetFd, Locks
    <3> QED
      BY <3>2, <3>3 DEF Same, SameData
  <2>2. Moves(DevOf[n])
    BY <1>6, Sorts DEF Moves, BindContinue, Thread, ThreadIo
  <2> QED
    BY <2>1, <2>2, Sorts
<1>7. ASSUME NEW p \in Procs, NEW n \in Nodes, NEW f \in Files, ChangeFd(p, n, f),
             UNCHANGED bindFrame
       PROVE  Local
  <2>1. ASSUME NEW g \in Devices, g # DevOf[n] PROVE Same(g)
    <3>1. Held(g) => mutex[g] \in Actors /\ mutex[g] # p
      BY <1>7, <2>1, Sorts, HolderIsBusy
         DEF ChangeFd, MayChange, Entry, Locks, Calls, TakeFile, Holding
    <3>2. ASSUME Held(g)
          PROVE  pc'[mutex[g]] = pc[mutex[g]] /\ call'[mutex[g]] = call[mutex[g]]
      BY <1>7, <3>1, <3>2, <1>t, Sorts
         DEF ChangeFd, MayChange, Entry, Locks, Calls, TakeFile, Typed, Steps, CallSet
    <3>3. SameData(g)
      BY <1>7, <2>1, <1>t, Sorts DEF SameData, ChangeFd, Locks
    <3> QED
      BY <3>2, <3>3 DEF Same, SameData
  <2>2. Moves(DevOf[n])
    BY <1>7, Sorts DEF Moves, BindContinue, Thread, ThreadIo
  <2> QED
    BY <2>1, <2>2, Sorts
<1>8. ASSUME NEW p \in Procs, NEW n \in Nodes, SetStatusPlain(p, n), UNCHANGED xferFrame
       PROVE  Local
  <2>1. ASSUME NEW g \in Devices, g # DevOf[n] PROVE Same(g)
    <3>1. Held(g) => mutex[g] \in Actors
      BY <1>8, <2>1, Sorts, HolderIsBusy
         DEF ReleaseXfer, Released, SetAutoclear, Holding
    <3>2. ASSUME Held(g)
          PROVE  pc'[mutex[g]] = pc[mutex[g]] /\ call'[mutex[g]] = call[mutex[g]]
      BY <1>8, <3>1, <3>2, <1>t, Sorts
         DEF SetStatusPlain, Entry, ReleaseXfer, Released, SetAutoclear, Typed, Steps,
             CallSet
    <3>3. SameData(g)
      BY <1>8, <2>1, <1>t, Sorts
         DEF SameData, SetStatusPlain, ReleaseXfer, SetAutoclear, Typed, FlagSets,
             Encryptions, Transfers
    <3> QED
      BY <3>2, <3>3 DEF Same, SameData
  <2>2. Moves(DevOf[n])
    BY <1>8, Sorts DEF Moves, BindContinue, Thread, ThreadIo
  <2> QED
    BY <2>1, <2>2, Sorts
<1>9. ASSUME NEW p \in Procs, NEW n \in Nodes, NEW x \in Xfers, SetStatus(p, n, x),
             UNCHANGED xferFrame
       PROVE  Local
  <2>1. ASSUME NEW g \in Devices, g # DevOf[n] PROVE Same(g)
    <3>1. Held(g) => mutex[g] \in Actors /\ mutex[g] # p
      BY <1>9, <2>1, Sorts, HolderIsBusy
         DEF SetStatus, Entry, Locks, Calls, Released, Holding
    <3>2. ASSUME Held(g)
          PROVE  pc'[mutex[g]] = pc[mutex[g]] /\ call'[mutex[g]] = call[mutex[g]]
      BY <1>9, <3>1, <3>2, <1>t, Sorts
         DEF SetStatus, Entry, Locks, Calls, Released, Typed, Steps, CallSet
    <3>3. SameData(g)
      BY <1>9, <2>1, <1>t, Sorts DEF SameData, SetStatus, Locks
    <3> QED
      BY <3>2, <3>3 DEF Same, SameData
  <2>2. Moves(DevOf[n])
    BY <1>9, Sorts DEF Moves, BindContinue, Thread, ThreadIo
  <2> QED
    BY <2>1, <2>2, Sorts
<1>10. ASSUME NEW p \in Procs, NEW x \in Xfers, RegisterTransfer(p, x),
              UNCHANGED xferFrame
       PROVE  Local
  <2>1. ASSUME NEW g \in Devices PROVE Same(g)
    <3>1. Held(g) => mutex[g] \in Actors
      BY <1>10, <2>1, Sorts, HolderIsBusy DEF Holding
    <3>2. ASSUME Held(g)
          PROVE  pc'[mutex[g]] = pc[mutex[g]] /\ call'[mutex[g]] = call[mutex[g]]
      BY <1>10, <3>1, <3>2, <1>t, Sorts DEF RegisterTransfer, Typed, Steps, CallSet
    <3>3. SameData(g)
      BY <1>10, <2>1, <1>t, Sorts
         DEF SameData, RegisterTransfer, Typed, States, Backings, FlagSets, Encryptions,
             Transfers, MutexStates, Threads, Queues, Hands
    <3> QED
      BY <3>2, <3>3 DEF Same, SameData
  <2>2. Moves(NoDevice)
    BY <1>10, Sorts DEF Moves, BindContinue, Thread, ThreadIo
  <2> QED
    BY <2>1, <2>2, Sorts
<1>11. ASSUME NEW p \in Procs, NEW x \in Xfers, UnregisterTransfer(p, x),
              UNCHANGED xferFrame
       PROVE  Local
  <2>1. ASSUME NEW g \in Devices PROVE Same(g)
    <3>1. Held(g) => mutex[g] \in Actors /\ mutex[g] # p
      BY <1>11, <2>1, Sorts, HolderIsBusy DEF UnregisterTransfer, Holding
    <3>2. ASSUME Held(g)
          PROVE  pc'[mutex[g]] = pc[mutex[g]] /\ call'[mutex[g]] = call[mutex[g]]
      BY <1>11, <3>1, <3>2, <1>t, Sorts DEF UnregisterTransfer, Typed, Steps, CallSet
    <3>3. SameData(g)
      BY <1>11, <2>1, <1>t, Sorts
         DEF SameData, UnregisterTransfer, Typed, States, Backings, FlagSets,
             Encryptions, Transfers, MutexStates, Threads, Queues, Hands
    <3> QED
      BY <3>2, <3>3 DEF Same, SameData
  <2>2. Moves(NoDevice)
    BY <1>11, Sorts DEF Moves, BindContinue, Thread, ThreadIo
  <2> QED
    BY <2>1, <2>2, Sorts
<1>12. ASSUME NEW a \in Actors, SetThread(a), UNCHANGED bindFrame
       PROVE  Local
  <2>0. PICK e \in Devices : call[a].dev = e /\ mutex[e] = a
    BY <1>12, StepHolder DEF SetThread, Holding
  <2>1. ASSUME NEW g \in Devices, g # e PROVE Same(g)
    <3>1. Held(g) => mutex[g] \in Actors /\ mutex[g] # a
      BY <1>12, <2>0, <2>1, Sorts, HolderIsBusy, StepHolder
         DEF Unlocks, Returns, Holding
    <3>2. ASSUME Held(g)
          PROVE  pc'[mutex[g]] = pc[mutex[g]] /\ call'[mutex[g]] = call[mutex[g]]
      BY <1>12, <2>0, <3>1, <3>2, <1>t, Sorts, HolderIsBusy, LetsGo, FputKeeps
         DEF SetThread, Unlocks, Returns, Typed, Steps, CallSet
    <3>3. SameData(g)
      BY <1>12, <2>0, <2>1, <1>t, Sorts
         DEF SameData, SetThread, Unlocks, Typed, States, Backings, FlagSets,
             MutexStates, Threads
    <3> QED
      BY <3>2, <3>3 DEF Same, SameData
  <2>2. Moves(e)
    BY <1>12, <2>0, Sorts DEF Moves, BindContinue, Thread, ThreadIo
  <2> QED
    BY <2>1, <2>2, Sorts, <2>0
<1>13. ASSUME NEW a \in Actors, ClrStop(a), UNCHANGED bindFrame
       PROVE  Local
  <2>0. PICK e \in Devices : call[a].dev = e /\ mutex[e] = a
    BY <1>13, StepHolder DEF ClrStop, Holding
  <2>1. ASSUME NEW g \in Devices, g # e PROVE Same(g)
    <3>1. Held(g) => mutex[g] \in Actors /\ mutex[g] # a
      BY <1>13, <2>0, <2>1, Sorts, HolderIsBusy, StepHolder DEF ReleaseXfer, Holding
    <3>2. ASSUME Held(g)
          PROVE  pc'[mutex[g]] = pc[mutex[g]] /\ call'[mutex[g]] = call[mutex[g]]
      BY <1>13, <2>0, <3>1, <3>2, <1>t, Sorts
         DEF ClrStop, ReleaseXfer, Typed, Steps, CallSet
    <3>3. SameData(g)
      BY <1>13, <2>0, <2>1, <1>t, Sorts DEF SameData, ClrStop, ReleaseXfer
    <3> QED
      BY <3>2, <3>3 DEF Same, SameData
  <2>2. Moves(e)
    BY <1>13, <2>0, Sorts DEF Moves, BindContinue, Thread, ThreadIo
  <2> QED
    BY <2>1, <2>2, Sorts, <2>0
<1>14. ASSUME NEW a \in Actors, ClrEnd(a), UNCHANGED bindFrame
       PROVE  Local
  <2>0. PICK e \in Devices : call[a].dev = e /\ mutex[e] = a
    BY <1>14, StepHolder DEF ClrEnd, Holding
  <2>1. ASSUME NEW g \in Devices, g # e PROVE Same(g)
    <3>1. Held(g) => mutex[g] \in Actors /\ mutex[g] # a
      BY <1>14, <2>0, <2>1, Sorts, HolderIsBusy, StepHolder DEF Holding
    <3>2. ASSUME Held(g)
          PROVE  pc'[mutex[g]] = pc[mutex[g]] /\ call'[mutex[g]] = call[mutex[g]]
      BY <1>14, <2>0, <3>1, <3>2, <1>t, Sorts, HolderIsBusy, LetsGo, FputKeeps
         DEF ClrEnd, Typed, Steps, CallSet
    <3>3. SameData(g)
      BY <1>14, <2>0, <2>1, <1>t, Sorts DEF SameData, ClrEnd
    <3> QED
      BY <3>2, <3>3 DEF Same, SameData
  <2>2. Moves(e)
    BY <1>14, <2>0, Sorts DEF Moves, BindContinue, Thread, ThreadIo
  <2> QED
    BY <2>1, <2>2, Sorts, <2>0
<1>15. ASSUME NEW a \in Actors, ChangeEnd(a), UNCHANGED bindFrame
       PROVE  Local
  <2>0. PICK e \in Devices : call[a].dev = e /\ mutex[e] = a
    BY <1>15, StepHolder DEF ChangeEnd, Holding
  <2>1. ASSUME NEW g \in Devices, g # e PROVE Same(g)
    <3>1. Held(g) => mutex[g] \in Actors /\ mutex[g] # a
      BY <1>15, <2>0, <2>1, Sorts, HolderIsBusy, StepHolder DEF Holding
    <3>2. ASSUME Held(g)
          PROVE  pc'[mutex[g]] = pc[mutex[g]] /\ call'[mutex[g]] = call[mutex[g]]
      BY <1>15, <2>0, <3>1, <3>2, <1>t, Sorts, HolderIsBusy, LetsGo, FputKeeps
         DEF ChangeEnd, Typed, Steps, CallSet
    <3>3. SameData(g)
      BY <1>15, <2>0, <2>1, <1>t, Sorts DEF SameData, ChangeEnd
    <3> QED
      BY <3>2, <3>3 DEF Same, SameData
  <2>2. Moves(e)
    BY <1>15, <2>0, Sorts DEF Moves, BindContinue, Thread, ThreadIo
  <2> QED
    BY <2>1, <2>2, Sorts, <2>0
<1>16. ASSUME NEW a \in Actors, Return(a), UNCHANGED bindFrame
       PROVE  Local
  <2>0. PICK e \in Devices : call[a].dev = e /\ mutex[e] = a
    BY <1>16, StepHolder DEF Return, Holding
  <2>1. ASSUME NEW g \in Devices, g # e PROVE Same(g)
    <3>1. Held(g) => mutex[g] \in Actors /\ mutex[g] # a
      BY <1>16, <2>0, <2>1, Sorts, HolderIsBusy, StepHolder
         DEF Unlocks, Returns, PutsModule, Holding
    <3>2. ASSUME Held(g)
          PROVE  pc'[mutex[g]] = pc[mutex[g]] /\ call'[mutex[g]] = call[mutex[g]]
      BY <1>16, <2>0, <3>1, <3>2, <1>t, Sorts
         DEF Return, Unlocks, Returns, PutsModule, Typed, Steps, CallSet
    <3>3. SameData(g)
      BY <1>16, <2>0, <2>1, <1>t, Sorts DEF SameData, Return, Unlocks
    <3> QED
      BY <3>2, <3>3 DEF Same, SameData
  <2>2. Moves(e)
    BY <1>16, <2>0, Sorts DEF Moves, BindContinue, Thread, ThreadIo
  <2> QED
    BY <2>1, <2>2, Sorts, <2>0
<1>17. ASSUME NEW a \in Actors, SetStatusInit(a), UNCHANGED xferFrame
       PROVE  Local
  <2>0. PICK e \in Devices : call[a].dev = e /\ mutex[e] = a
    BY <1>17, StepHolder DEF SetStatusInit, Holding
  <2>1. ASSUME NEW g \in Devices, g # e PROVE Same(g)
    <3>1. Held(g) => mutex[g] \in Actors /\ mutex[g] # a
      BY <1>17, <2>0, <2>1, Sorts, HolderIsBusy, StepHolder
         DEF Unlocks, Returns, SetAutoclear, Holding
    <3>2. ASSUME Held(g)
          PROVE  pc'[mutex[g]] = pc[mutex[g]] /\ call'[mutex[g]] = call[mutex[g]]
      BY <1>17, <2>0, <3>1, <3>2, <1>t, Sorts
         DEF SetStatusInit, Unlocks, Returns, SetAutoclear, Typed, Steps, CallSet
    <3>3. SameData(g)
      BY <1>17, <2>0, <2>1, <1>t, Sorts
         DEF SameData, SetStatusInit, Unlocks, SetAutoclear, Typed, FlagSets,
             Encryptions, Transfers
    <3> QED
      BY <3>2, <3>3 DEF Same, SameData
  <2>2. Moves(e)
    BY <1>17, <2>0, Sorts DEF Moves, BindContinue, Thread, ThreadIo
  <2> QED
    BY <2>1, <2>2, Sorts, <2>0
<1>18. ASSUME NEW a \in Actors, NEW d \in Devices, Visit(a, d), UNCHANGED xferFrame
       PROVE  Local
  <2>1. ASSUME NEW g \in Devices, g # d PROVE Same(g)
    <3>1. Held(g) => mutex[g] \in Actors /\ mutex[g] # a
      BY <1>18, <2>1, Sorts, HolderIsBusy, StepHolder
         DEF Visit, MayVisit, ReleaseXfer, Returns, Holding
    <3>2. ASSUME Held(g)
          PROVE  pc'[mutex[g]] = pc[mutex[g]] /\ call'[mutex[g]] = call[mutex[g]]
      BY <1>18, <3>1, <3>2, <1>t, Sorts
         DEF Visit, MayVisit, ReleaseXfer, Returns, Typed, Steps, CallSet
    <3>3. SameData(g)
      BY <1>18, <2>1, <1>t, Sorts
         DEF SameData, Visit, ReleaseXfer, Typed, Encryptions, Transfers
    <3> QED
      BY <3>2, <3>3 DEF Same, SameData
  <2>2. Moves(d)
    BY <1>18, Sorts DEF Moves, BindContinue, Thread, ThreadIo
  <2> QED
    BY <2>1, <2>2, Sorts
<1>19. ASSUME NEW d \in Devices, ThreadTake(d), UNCHANGED ioFrame
       PROVE  Local
  <2>1. ASSUME NEW g \in Devices, g # d PROVE Same(g)
    <3>1. Held(g) => mutex[g] \in Actors
      BY <1>19, <2>1, Sorts, HolderIsBusy DEF HasBdev, Holding
    <3>2. ASSUME Held(g)
          PROVE  pc'[mutex[g]] = pc[mutex[g]] /\ call'[mutex[g]] = call[mutex[g]]
      BY <1>19, <3>1, <3>2, <1>t, Sorts DEF HasBdev, Typed, Steps, CallSet
    <3>3. SameData(g)
      BY <1>19, <2>1, <1>t, Sorts DEF SameData, ThreadTake
    <3> QED
      BY <3>2, <3>3 DEF Same, SameData
  <2>2. Moves(d)
    BY <1>19, Sorts DEF Moves, BindContinue, Thread, ThreadIo
  <2> QED
    BY <2>1, <2>2, Sorts
<1>20. ASSUME NEW d \in Devices, ThreadEnd(d), UNCHANGED ioFrame
       PROVE  Local
  <2>1. ASSUME NEW g \in Devices, g # d PROVE Same(g)
    <3>1. Held(g) => mutex[g] \in Actors
      BY <1>20, <2>1, Sorts, HolderIsBusy DEF Holding
    <3>2. ASSUME Held(g)
          PROVE  pc'[mutex[g]] = pc[mutex[g]] /\ call'[mutex[g]] = call[mutex[g]]
      BY <1>20, <3>1, <3>2, <1>t, Sorts DEF Typed, Steps, CallSet
    <3>3. SameData(g)
      BY <1>20, <2>1, <1>t, Sorts
         DEF SameData, ThreadEnd, Typed, States, Backings, FlagSets, Encryptions,
             Transfers, MutexStates, Threads, Queues, Hands
    <3> QED
      BY <3>2, <3>3 DEF Same, SameData
  <2>2. Moves(d)
    BY <1>20, Sorts DEF Moves, BindContinue, Thread, ThreadIo
  <2> QED
    BY <2>1, <2>2, Sorts
<1>21. ASSUME NEW d \in Devices, ThreadStart(d) \/ ThreadExit(d), UNCHANGED ioFrame
       PROVE  Local
  <2>1. ASSUME NEW g \in Devices, g # d PROVE Same(g)
    <3>1. Held(g) => mutex[g] \in Actors
      BY <1>21, <2>1, Sorts, HolderIsBusy DEF Drained, Holding
    <3>2. ASSUME Held(g)
          PROVE  pc'[mutex[g]] = pc[mutex[g]] /\ call'[mutex[g]] = call[mutex[g]]
      BY <1>21, <3>1, <3>2, <1>t, Sorts DEF Drained, Typed, Steps, CallSet
    <3>3. SameData(g)
      BY <1>21, <2>1, <1>t, Sorts DEF SameData, ThreadStart, ThreadExit, Typed, Threads
    <3> QED
      BY <3>2, <3>3 DEF Same, SameData
  <2>2. Moves(d)
    BY <1>21, Sorts DEF Moves, BindContinue, Thread, ThreadIo
  <2> QED
    BY <2>1, <2>2, Sorts
<1>22. ASSUME NEW d \in Devices, ThreadSwitch(d), UNCHANGED bindFrame
       PROVE  Local
  <2>1. ASSUME NEW g \in Devices, g # d PROVE Same(g)
    <3>1. Held(g) => mutex[g] \in Actors /\ mutex[g] # mutex[d]
      BY <1>22, <2>1, Sorts, HolderIsBusy, InHand DEF ThreadSwitch, Holding
    <3>2. ASSUME Held(g)
          PROVE  pc'[mutex[g]] = pc[mutex[g]] /\ call'[mutex[g]] = call[mutex[g]]
      BY <1>22, <3>1, <3>2, <1>t, Sorts, InHand DEF ThreadSwitch, Typed, Steps, CallSet
    <3>3. SameData(g)
      BY <1>22, <2>1, <1>t, Sorts, InHand DEF SameData, ThreadSwitch
    <3> QED
      BY <3>2, <3>3 DEF Same, SameData
  <2>2. Moves(d)
    BY <1>22, Sorts DEF Moves, BindContinue, Thread, ThreadIo
  <2> QED
    BY <2>1, <2>2, Sorts
<1>23. ASSUME NEW d \in Devices, NEW b \in Bios, MakeRequest(d, b), UNCHANGED ioFrame
       PROVE  Local
  <2>1. ASSUME NEW g \in Devices, g # d PROVE Same(g)
    <3>1. Held(g) => mutex[g] \in Actors
      BY <1>23, <2>1, Sorts, HolderIsBusy DEF Takes, Holding
    <3>2. ASSUME Held(g)
          PROVE  pc'[mutex[g]] = pc[mutex[g]] /\ call'[mutex[g]] = call[mutex[g]]
      BY <1>23, <3>1, <3>2, <1>t, Sorts DEF Takes, Typed, Steps, CallSet
    <3>3. SameData(g)
      BY <1>23, <2>1, <1>t, Sorts DEF SameData, MakeRequest
    <3> QED
      BY <3>2, <3>3 DEF Same, SameData
  <2>2. Moves(d)
    BY <1>23, Sorts DEF Moves, BindContinue, Thread, ThreadIo
  <2> QED
    BY <2>1, <2>2, Sorts
<1> QED
  BY <1>0, <1>1, <1>2, <1>3, <1>4, <1>5, <1>6, <1>7, <1>8, <1>9, <1>10, <1>11, <1>12,
     <1>13, <1>14, <1>15, <1>16, <1>17, <1>18, <1>19, <1>20, <1>21, <1>22, <1>23
     DEF Next, BindRequests, XferRequests, Continue, BindContinue, XferContinue, Thread,
         ThreadIo

\* What Append and Tail do to a queue.
LEMMA QueueAppend ==
    ASSUME TypeOK, NEW d \in Devices, NEW b, queue'[d] = Append(queue[d], b)
    PROVE  /\ \A c : Queued(d, c)' <=> Queued(d, c) \/ c = b
           /\ SwitchOnce(d) /\ (b = Switch => ~ Queued(d, Switch)) => SwitchOnce(d)'
<1> DEFINE q == queue[d]
<1>1. q \in Seq(Bios \cup {Switch})
  BY DEF TypeOK
<1>2. Len(q) \in Nat /\ DOMAIN q = 1 .. Len(q)
  BY <1>1
<1>3. DOMAIN queue'[d] = 1 .. Len(q) + 1
  BY <1>1
<1>4. /\ \A i \in DOMAIN q : i \in DOMAIN queue'[d] /\ queue'[d][i] = q[i]
      /\ Len(q) + 1 \in DOMAIN queue'[d] /\ queue'[d][Len(q) + 1] = b
      /\ \A i \in DOMAIN queue'[d] : i \in DOMAIN q \/ i = Len(q) + 1
  BY <1>2, <1>3
<1> QED
  BY <1>4 DEF Queued, SwitchOnce

\* ... and Tail takes the first bio and no other.
LEMMA QueueTail ==
    ASSUME TypeOK, NEW d \in Devices, queue[d] # <<>>, queue'[d] = Tail(queue[d])
    PROVE  /\ \A c : Queued(d, c) <=> Queued(d, c)' \/ c = Head(queue[d])
           /\ SwitchOnce(d) =>
                  SwitchOnce(d)' /\ (Head(queue[d]) = Switch => ~ Queued(d, Switch)')
<1> DEFINE q == queue[d]
<1>1. q \in Seq(Bios \cup {Switch})
  BY DEF TypeOK
<1>2. Len(q) \in Nat \ {0} /\ DOMAIN q = 1 .. Len(q) /\ Head(q) = q[1] /\ 1 \in DOMAIN q
  BY <1>1
<1>3. DOMAIN queue'[d] = 1 .. Len(q) - 1
  BY <1>2
<1>4. /\ \A i \in DOMAIN queue'[d] :
             i \in Int /\ i + 1 # 1 /\ i + 1 \in DOMAIN q /\ queue'[d][i] = q[i + 1]
      /\ \A i \in DOMAIN q :
             i \in Int /\ (i = 1 \/ (i - 1 \in DOMAIN queue'[d] /\ (i - 1) + 1 = i))
  BY <1>2, <1>3
<1>5. \A c : Queued(d, c) <=> Queued(d, c)' \/ c = Head(queue[d])
  <2>1. ASSUME NEW c, Queued(d, c) PROVE Queued(d, c)' \/ c = Head(queue[d])
    <3>1. PICK i \in DOMAIN q : q[i] = c
      BY <2>1 DEF Queued
    <3>2. CASE i = 1
      BY <1>2, <3>1, <3>2
    <3>3. CASE i # 1
      <4>1. i - 1 \in DOMAIN queue'[d] /\ queue'[d][i - 1] = c
        BY <1>4, <3>1, <3>3
      <4> QED
        BY <4>1 DEF Queued
    <3> QED
      BY <3>2, <3>3
  <2>2. ASSUME NEW c, Queued(d, c)' PROVE Queued(d, c)
    BY <1>4, <2>2 DEF Queued
  <2>3. Queued(d, Head(queue[d]))
    BY <1>2 DEF Queued
  <2> QED
    BY <2>1, <2>2, <2>3
<1>6. SwitchOnce(d) => SwitchOnce(d)'
  <2>1. ASSUME SwitchOnce(d), NEW i \in DOMAIN queue'[d], NEW j \in DOMAIN queue'[d],
               queue'[d][i] = Switch, queue'[d][j] = Switch
        PROVE  i = j
    <3>1. i + 1 = j + 1
      BY <2>1, <1>4 DEF SwitchOnce
    <3> QED
      BY <3>1, <1>4
  <2> QED
    BY <2>1 DEF SwitchOnce
<1>7. SwitchOnce(d) /\ Head(queue[d]) = Switch => ~ Queued(d, Switch)'
  BY <1>2, <1>4 DEF Queued, SwitchOnce
<1> QED
  BY <1>5, <1>6, <1>7

\* A queue nobody touches holds the same bios, ...
LEMMA QueueSame ==
    ASSUME NEW d, queue'[d] = queue[d]
    PROVE  (\A c : Queued(d, c)' <=> Queued(d, c)) /\ (SwitchOnce(d) => SwitchOnce(d)')
BY DEF Queued, SwitchOnce

\* ... and so do those of the devices a step is not about.
LEMMA SameAsked ==
    ASSUME NEW d, Same(d), Asked(d)
    PROVE  Asked(d)'
BY QueueSame, SameInStep DEF Same, SameData, Asked

\* A device is bound, with its thread, file and flags, from loop_set_fd to
\* loop_clr_fd.
LEMMA BindingStep ==
    ASSUME TypeOK, Typed', Mutexes, Bound, Requests, Counted, [Next]_vars
    PROVE  \A d \in Devices : Binding(d)'
<1> USE DEF vars, bindVars, xferVars, ioVars, fileVars, callVars, bindFrame, xferFrame,
            ioFrame, threadVars, At, Goto
<1>t. Typed
  BY TypedIs
<1>e. PICK e \in Devices \cup {NoDevice} : Moves(e) /\ \A g \in Devices \ {e} : Same(g)
  BY Elsewhere
<1> SUFFICES ASSUME e \in Devices PROVE Binding(e)'
  BY <1>e, SameBound DEF Bound
<1>1. ASSUME NEW n \in Nodes, e = DevOf[n], Open(n)
      PROVE  Binding(e)'
  BY <1>1, <1>t, Sorts DEF Open, Bound, Binding, Held, InStep
<1>2. ASSUME NEW n \in Nodes, e = DevOf[n], Release(n)
      PROVE  Binding(e)'
  BY <1>2, <1>t, Sorts
     DEF Release, RunDown, Locks, Bound, Binding, Held, InStep, Typed, States,
         MutexStates, Threads, Steps
<1>3. ASSUME NEW p \in Procs, NEW n \in Nodes, e = DevOf[n], ClrFd(p, n),
             UNCHANGED bindFrame
      PROVE  Binding(e)'
  BY <1>3, <1>t, Sorts
     DEF ClrFd, RunDown, Locks, Bound, Binding, Held, InStep, Typed, States,
         MutexStates, Threads, Steps
<1>4. ASSUME NEW p \in Procs, NEW n \in Nodes, e = DevOf[n], NEW f \in Files,
             SetFd(p, n, f), UNCHANGED bindFrame
      PROVE  Binding(e)'
  BY <1>4, <1>t, Sorts
     DEF SetFd, BeginSetFd, Entry, Locks, Calls, TakeFile, Bound, Binding, Held, InStep,
         Typed, FlagSets, MutexStates, Steps
<1>5. ASSUME NEW p \in Procs, NEW n \in Nodes, e = DevOf[n], NEW f \in Files,
             SetFdOops(p, n, f), UNCHANGED bindFrame
      PROVE  Binding(e)'
  BY <1>5, <1>t, Sorts DEF SetFdOops, BeginSetFd, Locks, Bound, Binding, Held, InStep
<1>6. ASSUME NEW p \in Procs, NEW n \in Nodes, e = DevOf[n], NEW f \in Files,
             ChangeFd(p, n, f), UNCHANGED bindFrame
      PROVE  Binding(e)'
  BY <1>6, <1>t, Sorts DEF ChangeFd, MayChange, Bound, Binding
<1>7. ASSUME NEW p \in Procs, NEW n \in Nodes, e = DevOf[n], SetStatusPlain(p, n),
             UNCHANGED xferFrame
      PROVE  Binding(e)'
  BY <1>7, <1>t, Sorts DEF SetStatusPlain, SetAutoclear, Bound, Binding, Typed, FlagSets
<1>8. ASSUME NEW p \in Procs, NEW n \in Nodes, e = DevOf[n], NEW x \in Xfers,
             SetStatus(p, n, x), UNCHANGED xferFrame
      PROVE  Binding(e)'
  BY <1>8, <1>t, Sorts DEF SetStatus, Bound, Binding
<1>9. ASSUME NEW a \in Actors, e = call[a].dev, mutex[e] = a, SetThread(a),
             UNCHANGED bindFrame
      PROVE  Binding(e)'
  BY <1>9, LetsGo, FputKeeps, <1>t, Sorts
     DEF SetThread, Bound, Binding, Calling, Held, InStep, Typed, States, Backings,
         Encryptions, Threads
<1>10. ASSUME NEW a \in Actors, e = call[a].dev, mutex[e] = a, ClrStop(a),
              UNCHANGED bindFrame
      PROVE  Binding(e)'
  BY <1>10, <1>t, Sorts DEF ClrStop, Bound, Binding, Held, InStep, Typed, Backings
<1>11. ASSUME NEW a \in Actors, e = call[a].dev, mutex[e] = a, ClrEnd(a),
              UNCHANGED bindFrame
      PROVE  Binding(e)'
  BY <1>11, LetsGo, FputKeeps, <1>t, Sorts
     DEF ClrEnd, Bound, Binding, Calling, Held, InStep, Typed, States
<1>12. ASSUME NEW a \in Actors, e = call[a].dev, mutex[e] = a, ChangeEnd(a),
              UNCHANGED bindFrame
      PROVE  Binding(e)'
  BY <1>12, LetsGo, FputKeeps, <1>t, Sorts DEF ChangeEnd, Bound, Binding, InStep
<1>13. ASSUME NEW a \in Actors, e = call[a].dev, mutex[e] = a, Return(a),
              UNCHANGED bindFrame
      PROVE  Binding(e)'
  BY <1>13, <1>t, Sorts DEF Return, Bound, Binding, InStep
<1>14. ASSUME NEW a \in Actors, e = call[a].dev, mutex[e] = a, SetStatusInit(a),
              UNCHANGED xferFrame
      PROVE  Binding(e)'
  BY <1>14, <1>t, Sorts
     DEF SetStatusInit, SetAutoclear, Bound, Binding, InStep, Typed, FlagSets
<1>15. ASSUME NEW a \in Actors, Visit(a, e), UNCHANGED xferFrame
      PROVE  Binding(e)'
  BY <1>15, <1>t, Sorts DEF Visit, MayVisit, Bound, Binding, Held, InStep
<1>16. ASSUME ThreadTake(e), UNCHANGED ioFrame
      PROVE  Binding(e)'
  BY <1>16, <1>t, Sorts DEF ThreadTake, Bound, Binding, Held, InStep
<1>17. ASSUME ThreadEnd(e), UNCHANGED ioFrame
      PROVE  Binding(e)'
  BY <1>17, <1>t, Sorts DEF ThreadEnd, Bound, Binding, Held, InStep
<1>18. ASSUME ThreadStart(e) \/ ThreadExit(e), UNCHANGED ioFrame
      PROVE  Binding(e)'
  BY <1>18, <1>t, Sorts
     DEF ThreadStart, ThreadExit, Drained, Bound, Binding, Calling, Held, InStep, Typed,
         Threads
<1>19. ASSUME ThreadSwitch(e), UNCHANGED bindFrame
      PROVE  Binding(e)'
  BY <1>19, InHand, <1>t, Sorts DEF ThreadSwitch, Bound, Binding, Calling, Held, InStep
<1>20. ASSUME NEW b \in Bios, MakeRequest(e, b), UNCHANGED ioFrame
      PROVE  Binding(e)'
  BY <1>20, <1>t, Sorts DEF MakeRequest, Takes, Bound, Binding
<1> QED
  BY <1>e, <1>1, <1>2, <1>3, <1>4, <1>5, <1>6, <1>7, <1>8, <1>9, <1>10, <1>11, <1>12,
     <1>13, <1>14, <1>15, <1>16, <1>17, <1>18, <1>19, <1>20, DevicesAssumption
     DEF Moves, BindContinue, Thread, ThreadIo

\* What each step of a call relies on was arranged by the step before it, and
\* nobody else changes it while the mutex is held.
LEMMA CallingStep ==
    ASSUME TypeOK, Typed', Mutexes, Bound, Requests, Counted, [Next]_vars
    PROVE  \A d \in Devices : Calling(d)'
<1> USE DEF vars, bindVars, xferVars, ioVars, fileVars, callVars, bindFrame, xferFrame,
            ioFrame, threadVars, At, Goto
<1>t. Typed
  BY TypedIs
<1>e. PICK e \in Devices \cup {NoDevice} : Moves(e) /\ \A g \in Devices \ {e} : Same(g)
  BY Elsewhere
<1> SUFFICES ASSUME e \in Devices PROVE Calling(e)'
  BY <1>e, SameBound DEF Bound
<1>1. ASSUME NEW n \in Nodes, e = DevOf[n], Open(n)
      PROVE  Calling(e)'
  BY <1>1, <1>t, Sorts DEF Open, Calling, Held, InStep
<1>2. ASSUME NEW n \in Nodes, e = DevOf[n], Release(n)
      PROVE  Calling(e)'
  BY <1>2, <1>t, Sorts
     DEF Release, RunDown, Locks, Calls, Bound, Binding, Calling, Held, Hold, InStep,
         Typed, States, MutexStates, Threads, Steps, CallSet
<1>3. ASSUME NEW p \in Procs, NEW n \in Nodes, e = DevOf[n], ClrFd(p, n),
             UNCHANGED bindFrame
      PROVE  Calling(e)'
  BY <1>3, <1>t, Sorts
     DEF ClrFd, RunDown, Locks, Calls, Entry, Bound, Binding, Calling, Held, Hold,
         InStep, Typed, States, Threads, CallSet
<1>4. ASSUME NEW p \in Procs, NEW n \in Nodes, e = DevOf[n], NEW f \in Files,
             SetFd(p, n, f), UNCHANGED bindFrame
      PROVE  Calling(e)'
  BY <1>4, <1>t, Sorts
     DEF SetFd, BeginSetFd, Entry, Locks, Calls, Calling, Held, Hold, InStep, Typed,
         Backings, CallSet
<1>5. ASSUME NEW p \in Procs, NEW n \in Nodes, e = DevOf[n], NEW f \in Files,
             SetFdOops(p, n, f), UNCHANGED bindFrame
      PROVE  Calling(e)'
  BY <1>5, <1>t, Sorts
     DEF SetFdOops, BeginSetFd, Entry, Locks, Calls, Calling, Held, Hold, InStep, Typed,
         CallSet
<1>6. ASSUME NEW p \in Procs, NEW n \in Nodes, e = DevOf[n], NEW f \in Files,
             ChangeFd(p, n, f), UNCHANGED bindFrame
      PROVE  Calling(e)'
  BY <1>6, <1>t, Sorts
     DEF ChangeFd, MayChange, Entry, Locks, Calls, Calling, Held, Hold, InStep, Typed,
         CallSet
<1>7. ASSUME NEW p \in Procs, NEW n \in Nodes, e = DevOf[n], SetStatusPlain(p, n),
             UNCHANGED xferFrame
      PROVE  Calling(e)'
  BY <1>7, <1>t, Sorts DEF SetStatusPlain, Calling, Held, InStep
<1>8. ASSUME NEW p \in Procs, NEW n \in Nodes, e = DevOf[n], NEW x \in Xfers,
             SetStatus(p, n, x), UNCHANGED xferFrame
      PROVE  Calling(e)'
  BY <1>8, <1>t, Sorts
     DEF SetStatus, Entry, Locks, Calls, Calling, Held, Hold, InStep, Typed,
         Encryptions, CallSet
<1>9. ASSUME NEW a \in Actors, e = call[a].dev, mutex[e] = a, SetThread(a),
             UNCHANGED bindFrame
      PROVE  Calling(e)'
  <2>1. Unlocks(a) \/ (pc'[a] = "module_put" /\ mutex'[e] = a)
    BY <1>9, Sorts, LetsGo, FputKeeps DEF SetThread
  <2>2. ASSUME Unlocks(a) PROVE Calling(e)'
    <3>1. mutex'[e] = NoActor
      BY <1>9, <2>2, <1>t DEF Unlocks, Typed, MutexStates
    <3>2. ~ Held(e)'
      BY <3>1 DEF Held
    <3> QED
      BY <3>2 DEF Calling, InStep
  <2>3. ASSUME pc'[a] = "module_put", mutex'[e] = a PROVE Calling(e)'
    <3>1. pc'[mutex'[e]] = "module_put"
      BY <2>3
    <3>2. state'[e] = "unbound"
      BY <1>9, <2>3, <1>t, Sorts
         DEF SetThread, Unlocks, Returns, Bound, Calling, InStep, Held, Typed, States,
             MutexStates
    <3> QED
      BY <3>1, <3>2 DEF Calling, InStep
  <2> QED
    BY <2>1, <2>2, <2>3
<1>10. ASSUME NEW a \in Actors, e = call[a].dev, mutex[e] = a, ClrStop(a),
              UNCHANGED bindFrame
      PROVE  Calling(e)'
  BY <1>10, <1>t, Sorts
     DEF ClrStop, ReleaseXfer, Bound, Calling, Held, Holding, Hold, InStep, Typed,
         Backings, FlagSets, Threads, Steps, CallSet
<1>11. ASSUME NEW a \in Actors, e = call[a].dev, mutex[e] = a, ClrEnd(a),
              UNCHANGED bindFrame
      PROVE  Calling(e)'
  <2>1. pc'[mutex'[e]] = "module_put"
    BY <1>11, Sorts, LetsGo, FputKeeps DEF ClrEnd
  <2>2. state'[e] = "unbound"
    BY <1>11, <1>t, Sorts DEF ClrEnd, Bound, Calling, InStep, Held, Typed, States
  <2> QED
    BY <2>1, <2>2 DEF Calling, InStep
<1>12. ASSUME NEW a \in Actors, e = call[a].dev, mutex[e] = a, ChangeEnd(a),
              UNCHANGED bindFrame
      PROVE  Calling(e)'
  <2>1. pc'[mutex'[e]] = "unlock"
    BY <1>12, Sorts, LetsGo, FputKeeps DEF ChangeEnd
  <2>2. state'[e] = "bound"
    BY <1>12, <1>t, Sorts DEF ChangeEnd, Bound, Calling, InStep, Held, Typed, States
  <2> QED
    BY <2>1, <2>2 DEF Calling, InStep
<1>13. ASSUME NEW a \in Actors, e = call[a].dev, mutex[e] = a, Return(a),
              UNCHANGED bindFrame
      PROVE  Calling(e)'
  BY <1>13, <1>t, Sorts DEF Return, Unlocks, Returns, Bound, Calling, Held, InStep
<1>14. ASSUME NEW a \in Actors, e = call[a].dev, mutex[e] = a, SetStatusInit(a),
              UNCHANGED xferFrame
      PROVE  Calling(e)'
  BY <1>14, <1>t, Sorts
     DEF SetStatusInit, Unlocks, Calling, Held, InStep, Typed, MutexStates
<1>15. ASSUME NEW a \in Actors, Visit(a, e), UNCHANGED xferFrame
      PROVE  Calling(e)'
  BY <1>15, <1>t, Sorts DEF Visit, MayVisit, Calling, Held, InStep
<1>16. ASSUME ThreadTake(e), UNCHANGED ioFrame
      PROVE  Calling(e)'
  BY <1>16, <1>t, Sorts DEF ThreadTake, Bound, Calling, Held, Hold, InStep
<1>17. ASSUME ThreadEnd(e), UNCHANGED ioFrame
      PROVE  Calling(e)'
  BY <1>17, <1>t, Sorts DEF ThreadEnd, Bound, Calling, Held, Hold, InStep
<1>18. ASSUME ThreadStart(e) \/ ThreadExit(e), UNCHANGED ioFrame
      PROVE  Calling(e)'
  BY <1>18, <1>t, Sorts
     DEF ThreadStart, ThreadExit, Bound, Binding, Calling, Held, Hold, InStep, Typed,
         Threads
<1>19. ASSUME ThreadSwitch(e), UNCHANGED bindFrame
      PROVE  Calling(e)'
  BY <1>19, InHand, <1>t, Sorts
     DEF ThreadSwitch, Bound, Binding, Calling, Held, Hold, InStep, Typed, Steps
<1>20. ASSUME NEW b \in Bios, MakeRequest(e, b), UNCHANGED ioFrame
      PROVE  Calling(e)'
  BY <1>20, <1>t, Sorts DEF MakeRequest, Bound, Calling, Held, Hold, InStep
<1> QED
  BY <1>e, <1>1, <1>2, <1>3, <1>4, <1>5, <1>6, <1>7, <1>8, <1>9, <1>10, <1>11, <1>12,
     <1>13, <1>14, <1>15, <1>16, <1>17, <1>18, <1>19, <1>20, DevicesAssumption
     DEF Moves, BindContinue, Thread, ThreadIo

\* There is one switch request at a time on a queue, the one of the call that
\* waits for it, and no write on the queue of a read-only device.
LEMMA RequestsStep ==
    ASSUME TypeOK, Typed', Mutexes, Bound, Requests, Counted, [Next]_vars
    PROVE  Requests'
<1> USE DEF vars, bindVars, xferVars, ioVars, fileVars, callVars, bindFrame, xferFrame,
            ioFrame, threadVars, At, Goto
<1>t. Typed
  BY TypedIs
<1>e. PICK e \in Devices \cup {NoDevice} : Moves(e) /\ \A g \in Devices \ {e} : Same(g)
  BY Elsewhere
<1> SUFFICES ASSUME e \in Devices PROVE Asked(e)'
  BY <1>e, SameAsked DEF Requests
<1>1. ASSUME NEW n \in Nodes, e = DevOf[n], Open(n)
      PROVE  Asked(e)'
  <2>1. queue'[e] = queue[e]
    BY <1>1, <1>t, Sorts DEF Open, Typed, Queues
  <2> QED
    BY <1>1, <2>1, QueueSame, <1>t, Sorts, BiosAssumption
       DEF Open, Requests, Asked, Held, InStep
<1>2. ASSUME NEW n \in Nodes, e = DevOf[n], Release(n)
      PROVE  Asked(e)'
  <2>1. queue'[e] = queue[e]
    BY <1>2, <1>t, Sorts DEF Release, RunDown, Locks, Calls, Typed, Queues
  <2> QED
    BY <1>2, <2>1, QueueSame, <1>t, Sorts, BiosAssumption
       DEF Release, Requests, Asked, Held, InStep
<1>3. ASSUME NEW p \in Procs, NEW n \in Nodes, e = DevOf[n], ClrFd(p, n),
             UNCHANGED bindFrame
      PROVE  Asked(e)'
  <2>1. queue'[e] = queue[e]
    BY <1>3, <1>t, Sorts DEF ClrFd, RunDown, Locks, Calls, Entry, Typed, Queues
  <2> QED
    BY <1>3, <2>1, QueueSame, <1>t, Sorts, BiosAssumption
       DEF ClrFd, RunDown, Locks, Requests, Asked, Held, InStep
<1>4. ASSUME NEW p \in Procs, NEW n \in Nodes, e = DevOf[n], NEW f \in Files,
             SetFd(p, n, f), UNCHANGED bindFrame
      PROVE  Asked(e)'
  <2>1. queue'[e] = <<>>
    BY <1>4, <1>t, Sorts
       DEF SetFd, BeginSetFd, Entry, Locks, Calls, TakeFile, Typed, Queues
  <2>2. SwitchOnce(e)' /\ \A c : ~ Queued(e, c)'
    BY <2>1 DEF SwitchOnce, Queued
  <2> QED
    BY <1>4, <2>2, <1>t, Sorts, BiosAssumption
       DEF SetFd, BeginSetFd, Bound, Binding, Asked
<1>5. ASSUME NEW p \in Procs, NEW n \in Nodes, e = DevOf[n], NEW f \in Files,
             SetFdOops(p, n, f), UNCHANGED bindFrame
      PROVE  Asked(e)'
  <2>1. queue'[e] = queue[e]
    BY <1>5, <1>t, Sorts
       DEF SetFdOops, BeginSetFd, Entry, Locks, Calls, TakeFile, Typed, Queues
  <2> QED
    BY <1>5, <2>1, QueueSame, <1>t, Sorts, BiosAssumption
       DEF SetFdOops, BeginSetFd, Bound, Calling, Requests, Asked, InStep
<1>6. ASSUME NEW p \in Procs, NEW n \in Nodes, e = DevOf[n], NEW f \in Files,
             ChangeFd(p, n, f), UNCHANGED bindFrame
      PROVE  Asked(e)'
  <2>1. queue'[e] = Append(queue[e], Switch)
    BY <1>6, <1>t, Sorts
       DEF ChangeFd, MayChange, Entry, Locks, Calls, TakeFile, Typed, Queues
  <2>2. /\ \A c : Queued(e, c)' <=> Queued(e, c) \/ c = Switch
        /\ SwitchOnce(e) /\ (Switch = Switch => ~ Queued(e, Switch)) => SwitchOnce(e)'
    BY <2>1, QueueAppend
  <2> QED
    BY <1>6, <2>2, <1>t, Sorts, BiosAssumption
       DEF ChangeFd, MayChange, Entry, Locks, Requests, Asked, Held, InStep, Typed,
           MutexStates, Steps
<1>7. ASSUME NEW p \in Procs, NEW n \in Nodes, e = DevOf[n], SetStatusPlain(p, n),
             UNCHANGED xferFrame
      PROVE  Asked(e)'
  <2>1. queue'[e] = queue[e]
    BY <1>7, <1>t, Sorts DEF ReleaseXfer, Released, SetAutoclear, Typed, Queues
  <2> QED
    BY <1>7, <2>1, QueueSame, <1>t, Sorts, BiosAssumption
       DEF SetStatusPlain, SetAutoclear, Requests, Asked, Held, InStep, Typed, FlagSets
<1>8. ASSUME NEW p \in Procs, NEW n \in Nodes, e = DevOf[n], NEW x \in Xfers,
             SetStatus(p, n, x), UNCHANGED xferFrame
      PROVE  Asked(e)'
  <2>1. queue'[e] = queue[e]
    BY <1>8, <1>t, Sorts DEF Locks, Calls, Released, Typed, Queues
  <2> QED
    BY <1>8, <2>1, QueueSame, <1>t, Sorts, BiosAssumption
       DEF SetStatus, Locks, Requests, Asked, Held, InStep
<1>9. ASSUME NEW a \in Actors, e = call[a].dev, mutex[e] = a, SetThread(a),
             UNCHANGED bindFrame
      PROVE  Asked(e)'
  <2>1. queue'[e] = queue[e]
    BY <1>9, <1>t, Sorts, LetsGo, FputKeeps
       DEF SetThread, Unlocks, Returns, Typed, Queues
  <2> QED
    BY <1>9, <2>1, QueueSame, <1>t, Sorts, BiosAssumption, LetsGo, FputKeeps
       DEF SetThread, Requests, Asked, InStep, Typed, FlagSets
<1>10. ASSUME NEW a \in Actors, e = call[a].dev, mutex[e] = a, ClrStop(a),
              UNCHANGED bindFrame
      PROVE  Asked(e)'
  <2>1. queue'[e] = queue[e]
    BY <1>10, <1>t, Sorts DEF ClrStop, ReleaseXfer, Typed, Queues
  <2> QED
    BY <1>10, <2>1, QueueSame, <1>t, Sorts, BiosAssumption
       DEF ClrStop, Requests, Asked, InStep
<1>11. ASSUME NEW a \in Actors, e = call[a].dev, mutex[e] = a, ClrEnd(a),
              UNCHANGED bindFrame
      PROVE  Asked(e)'
  <2>1. queue'[e] = queue[e]
    BY <1>11, <1>t, Sorts, LetsGo, FputKeeps DEF ClrEnd, Typed, Queues
  <2> QED
    BY <1>11, <2>1, QueueSame, <1>t, Sorts, BiosAssumption, LetsGo, FputKeeps
       DEF ClrEnd, Requests, Asked, InStep
<1>12. ASSUME NEW a \in Actors, e = call[a].dev, mutex[e] = a, ChangeEnd(a),
              UNCHANGED bindFrame
      PROVE  Asked(e)'
  <2>1. queue'[e] = queue[e]
    BY <1>12, <1>t, Sorts, LetsGo, FputKeeps DEF ChangeEnd, Typed, Queues
  <2> QED
    BY <1>12, <2>1, QueueSame, <1>t, Sorts, BiosAssumption, LetsGo, FputKeeps
       DEF ChangeEnd, Requests, Asked, InStep
<1>13. ASSUME NEW a \in Actors, e = call[a].dev, mutex[e] = a, Return(a),
              UNCHANGED bindFrame
      PROVE  Asked(e)'
  <2>1. queue'[e] = queue[e]
    BY <1>13, <1>t, Sorts DEF Return, Unlocks, Returns, PutsModule, Typed, Queues
  <2> QED
    BY <1>13, <2>1, QueueSame, <1>t, Sorts, BiosAssumption
       DEF Return, Requests, Asked, InStep
<1>14. ASSUME NEW a \in Actors, e = call[a].dev, mutex[e] = a, SetStatusInit(a),
              UNCHANGED xferFrame
      PROVE  Asked(e)'
  <2>1. queue'[e] = queue[e]
    BY <1>14, <1>t, Sorts DEF Returns, SetAutoclear, Typed, Queues
  <2> QED
    BY <1>14, <2>1, QueueSame, <1>t, Sorts, BiosAssumption
       DEF SetStatusInit, SetAutoclear, Requests, Asked, InStep, Typed, FlagSets
<1>15. ASSUME NEW a \in Actors, Visit(a, e), UNCHANGED xferFrame
      PROVE  Asked(e)'
  <2>1. queue'[e] = queue[e]
    BY <1>15, <1>t, Sorts DEF ReleaseXfer, Returns, Typed, Queues
  <2> QED
    BY <1>15, <2>1, QueueSame, <1>t, Sorts, BiosAssumption
       DEF Visit, MayVisit, Requests, Asked, Held, InStep
<1>16. ASSUME ThreadTake(e), UNCHANGED ioFrame
      PROVE  Asked(e)'
  <2>1. queue'[e] = Tail(queue[e])
    BY <1>16, <1>t, Sorts DEF ThreadTake, HasBdev, Typed, Queues
  <2>2. /\ \A c : Queued(e, c) <=> Queued(e, c)' \/ c = Head(queue[e])
        /\ SwitchOnce(e) =>
               SwitchOnce(e)' /\ (Head(queue[e]) = Switch => ~ Queued(e, Switch)')
    BY <1>16, <2>1, QueueTail DEF ThreadTake
  <2> QED
    BY <1>16, <2>2, <1>t, Sorts, BiosAssumption
       DEF ThreadTake, Requests, Asked, Held, InStep
<1>17. ASSUME ThreadEnd(e), UNCHANGED ioFrame
      PROVE  Asked(e)'
  <2>1. queue'[e] = queue[e]
    BY <1>17, <1>t, Sorts DEF ThreadEnd, Typed, Queues
  <2> QED
    BY <1>17, <2>1, QueueSame, <1>t, Sorts, BiosAssumption
       DEF ThreadEnd, Requests, Asked, Held, InStep
<1>18. ASSUME ThreadStart(e) \/ ThreadExit(e), UNCHANGED ioFrame
      PROVE  Asked(e)'
  <2>1. queue'[e] = queue[e]
    BY <1>18, <1>t, Sorts DEF ThreadStart, ThreadExit, Typed, Queues
  <2> QED
    BY <1>18, <2>1, QueueSame, <1>t, Sorts, BiosAssumption
       DEF ThreadStart, ThreadExit, Requests, Asked, Held, InStep
<1>19. ASSUME ThreadSwitch(e), UNCHANGED bindFrame
      PROVE  Asked(e)'
  <2>1. queue'[e] = Tail(queue[e])
    BY <1>19, <1>t, Sorts, InHand DEF ThreadSwitch, Typed, Queues
  <2>2. /\ \A c : Queued(e, c) <=> Queued(e, c)' \/ c = Head(queue[e])
        /\ SwitchOnce(e) =>
               SwitchOnce(e)' /\ (Head(queue[e]) = Switch => ~ Queued(e, Switch)')
    BY <1>19, <2>1, QueueTail DEF ThreadSwitch
  <2> QED
    BY <1>19, <2>2, <1>t, Sorts, BiosAssumption, InHand
       DEF ThreadSwitch, Requests, Asked, Encryptions
<1>20. ASSUME NEW b \in Bios, MakeRequest(e, b), UNCHANGED ioFrame
      PROVE  Asked(e)'
  <2>1. queue'[e] = Append(queue[e], b)
    BY <1>20, <1>t, Sorts DEF MakeRequest, Takes, Typed, Queues
  <2>2. /\ \A c : Queued(e, c)' <=> Queued(e, c) \/ c = b
        /\ SwitchOnce(e) /\ (b = Switch => ~ Queued(e, Switch)) => SwitchOnce(e)'
    BY <2>1, QueueAppend
  <2> QED
    BY <1>20, <2>2, <1>t, Sorts, BiosAssumption
       DEF MakeRequest, Takes, Requests, Asked, Held, InStep
<1> QED
  BY <1>e, <1>1, <1>2, <1>3, <1>4, <1>5, <1>6, <1>7, <1>8, <1>9, <1>10, <1>11, <1>12,
     <1>13, <1>14, <1>15, <1>16, <1>17, <1>18, <1>19, <1>20, DevicesAssumption
     DEF Moves, BindContinue, Thread, ThreadIo

\* The transfer function of an xfer is used only by devices that have taken
\* the xfer.
LEMMA TransferredStep ==
    ASSUME TypeOK, Typed', Mutexes, Bound, Requests, Counted, Unregistering, [Next]_vars
    PROVE  \A d \in Devices : Transferred(d)'
<1> USE DEF vars, bindVars, xferVars, ioVars, fileVars, callVars, bindFrame, xferFrame,
            ioFrame, threadVars, At, Goto
<1>t. Typed
  BY TypedIs
<1>e. PICK e \in Devices \cup {NoDevice} : Moves(e) /\ \A g \in Devices \ {e} : Same(g)
  BY Elsewhere
<1> SUFFICES ASSUME e \in Devices PROVE Transferred(e)'
  BY <1>e DEF Same, SameData, Transferred, Unregistering
<1>0. CASE UNCHANGED <<encryption, transfer>>
  BY <1>0 DEF Transferred, Unregistering
<1>1. ASSUME NEW p \in Procs, NEW n \in Nodes, e = DevOf[n], NEW f \in Files,
             SetFd(p, n, f), UNCHANGED bindFrame
      PROVE  Transferred(e)'
  BY <1>1, XfersAssumption, <1>t, Sorts
     DEF SetFd, BeginSetFd, Entry, Locks, Calls, TakeFile, Transferred, Unregistering,
         Typed, Encryptions, Transfers
<1>2. ASSUME NEW p \in Procs, NEW n \in Nodes, e = DevOf[n], SetStatusPlain(p, n),
             UNCHANGED xferFrame
      PROVE  Transferred(e)'
  BY <1>2, XfersAssumption, <1>t, Sorts
     DEF SetStatusPlain, Entry, ReleaseXfer, Released, SetAutoclear, Transferred,
         Unregistering, Typed, Encryptions, Transfers
<1>3. ASSUME NEW p \in Procs, NEW n \in Nodes, e = DevOf[n], NEW x \in Xfers,
             SetStatus(p, n, x), UNCHANGED xferFrame
      PROVE  Transferred(e)'
  BY <1>3, XfersAssumption, <1>t, Sorts
     DEF SetStatus, Entry, Locks, Calls, Released, Transferred, Unregistering, Typed,
         Encryptions, Transfers
<1>4. ASSUME NEW a \in Actors, e = call[a].dev, mutex[e] = a, ClrStop(a),
             UNCHANGED bindFrame
      PROVE  Transferred(e)'
  BY <1>4, XfersAssumption, <1>t, Sorts
     DEF ClrStop, ReleaseXfer, Transferred, Unregistering, Typed, Encryptions, Transfers
<1>5. ASSUME NEW a \in Actors, e = call[a].dev, mutex[e] = a, SetStatusInit(a),
             UNCHANGED xferFrame
      PROVE  Transferred(e)'
  BY <1>5, XfersAssumption, <1>t, Sorts, InHand
     DEF SetStatusInit, Bound, Calling, InStep, Held, Transferred, Unregistering, Typed,
         Encryptions, Transfers
<1>6. ASSUME NEW a \in Actors, Visit(a, e), UNCHANGED xferFrame
      PROVE  Transferred(e)'
  BY <1>6, XfersAssumption, <1>t, Sorts
     DEF Visit, MayVisit, ReleaseXfer, Returns, Transferred, Unregistering, Typed,
         Encryptions, Transfers
<1> QED
  BY <1>e, <1>0, <1>1, <1>2, <1>3, <1>4, <1>5, <1>6, DevicesAssumption
     DEF Moves, BindContinue, Thread, ThreadIo, Open, Release, RunDown, Locks, Calls,
         ClrFd, Entry, SetFdOops, BeginSetFd, TakeFile, ChangeFd, MayChange, SetThread,
         Unlocks, Returns, ClrEnd, ChangeEnd, Return, PutsModule, ThreadTake, HasBdev,
         ThreadEnd, ThreadStart, ThreadExit, Drained, ThreadSwitch, MakeRequest, Takes

\* How a set changes when at most one device may enter or leave it: One counts
\* a device.
One(b) == IF b THEN 1 ELSE 0

\* It counts nothing or one.
LEMMA OneIs == \A b : One(b) \in {0, 1}
BY DEF One

\* The cardinalities before and after differ by what the one device does.
LEMMA CardMoves ==
    ASSUME NEW S \in SUBSET Devices, NEW T \in SUBSET Devices, NEW e,
           \A g \in Devices \ {e} : g \in S <=> g \in T
    PROVE  /\ Cardinality(S) \in Nat /\ Cardinality(T) \in Nat
           /\ Cardinality(T) + One(e \in S) = Cardinality(S) + One(e \in T)
<1> DEFINE U == S \ {e}
<1>1. IsFiniteSet(U) /\ IsFiniteSet(S) /\ IsFiniteSet(T)
  BY DevicesAssumption, FS_Subset
<1>2. Cardinality(U) \in Nat /\ Cardinality(S) \in Nat /\ Cardinality(T) \in Nat
  BY <1>1, FS_CardinalityType
<1>3. e \notin U /\ Cardinality(U \cup {e}) = Cardinality(U) + 1
  BY <1>1, FS_AddElement
<1>4. (e \in S => S = U \cup {e}) /\ (e \notin S => S = U)
  OBVIOUS
<1>5. (e \in T => T = U \cup {e}) /\ (e \notin T => T = U)
  OBVIOUS
<1> HIDE DEF U
<1>6. Cardinality(S) = Cardinality(U) + One(e \in S)
  BY <1>2, <1>3, <1>4 DEF One
<1>7. Cardinality(T) = Cardinality(U) + One(e \in T)
  <2>1. CASE e \in T
    <3>1. T = U \cup {e}
      BY <1>5, <2>1
    <3> QED
      BY <1>2, <1>3, <2>1, <3>1 DEF One
  <2>2. CASE e \notin T
    BY <1>2, <1>5, <2>2 DEF One
  <2> QED
    BY <2>1, <2>2
<1> QED
  BY <1>2, <1>6, <1>7 DEF One

\* A device that nobody touches is in the same sets.
LEMMA SameSets ==
    ASSUME NEW g, Same(g)
    PROVE  /\ \A f : (g \in Backed(f) <=> g \in Backed(f)')
                  /\ (g \in InCall(f) <=> g \in InCall(f)')
           /\ (g \in InUse <=> g \in InUse') /\ (g \in Binds <=> g \in Binds')
           /\ \A x : (g \in Encrypted(x) <=> g \in Encrypted(x)')
                  /\ (g \in Trying(x) <=> g \in Trying(x)')
BY SameInStep DEF Same, SameData, Backed, InCall, InUse, Binds, Encrypted, Trying

\* The references to a file change as its uses by one device and by user space do.
Balanced(e, f) ==
    refs'[f] + One(e \in Backed(f)) + One(e \in InCall(f)) + One(f \in opened)
        = refs[f] + One(e \in Backed(f)') + One(e \in InCall(f)') + One(f \in opened')

\* So the counts follow from what happens to the one device of a step.
LEMMA CountedMoves ==
    ASSUME TypeOK, Typed', Counted, NEW e, \A g \in Devices \ {e} : Same(g),
           \A f \in Files : Balanced(e, f)
    PROVE  Counted'
<1> SUFFICES ASSUME NEW f \in Files
             PROVE  refs'[f] = Cardinality(Backed(f)') + Cardinality(InCall(f)')
                        + One(f \in opened')
  BY DEF Counted, One
<1>1. /\ Cardinality(Backed(f)) \in Nat /\ Cardinality(Backed(f)') \in Nat
      /\ Cardinality(Backed(f)') + One(e \in Backed(f))
             = Cardinality(Backed(f)) + One(e \in Backed(f)')
  <2>1. Backed(f) \in SUBSET Devices /\ Backed(f)' \in SUBSET Devices
    BY DEF Backed
  <2> QED
    BY <2>1, CardMoves, SameSets
<1>2. /\ Cardinality(InCall(f)) \in Nat /\ Cardinality(InCall(f)') \in Nat
      /\ Cardinality(InCall(f)') + One(e \in InCall(f))
             = Cardinality(InCall(f)) + One(e \in InCall(f)')
  <2>1. InCall(f) \in SUBSET Devices /\ InCall(f)' \in SUBSET Devices
    BY DEF InCall
  <2> QED
    BY <2>1, CardMoves, SameSets
<1>3. refs[f] = Cardinality(Backed(f)) + Cardinality(InCall(f)) + One(f \in opened)
  BY DEF Counted, One
<1>4. refs[f] \in Int /\ refs'[f] \in Int
  BY DEF TypeOK, Typed, FileCounts
<1> QED
  BY <1>1, <1>2, <1>3, <1>4, OneIs DEF Balanced

\* f_count: fget and fput come in pairs, across the calls that pass a file
\* from a descriptor to a device or from one device's thread back to the
\* caller.
LEMMA CountedStep ==
    ASSUME TypeOK, Typed', Mutexes, Bound, Requests, Counted, [Next]_vars
    PROVE  Counted'
<1> USE DEF vars, bindVars, xferVars, ioVars, fileVars, callVars, bindFrame, xferFrame,
            ioFrame, At, Goto, Balanced
<1>t. Typed
  BY TypedIs
<1>e. PICK e \in Devices \cup {NoDevice} : Moves(e) /\ \A g \in Devices \ {e} : Same(g)
  BY Elsewhere
<1>r. \A f \in Files : refs[f] \in Int
  BY <1>t DEF Typed, FileCounts
<1>n. CASE e = NoDevice
  <2>1. \A f \in Files : refs'[f] + One(f \in opened) = refs[f] + One(f \in opened')
    <3>1. CASE UNCHANGED <<refs, opened>>
      BY <3>1, <1>r
    <3>2. ASSUME NEW f \in Files, Close(f)
          PROVE  \A y \in Files :
                     refs'[y] + One(y \in opened) = refs[y] + One(y \in opened')
      BY <3>2, <1>r, <1>t DEF Close, FputGoto, One, Typed, FileCounts
    <3> QED
      BY <1>n, <1>e, <3>1, <3>2, DevicesAssumption
         DEF Moves, RegisterTransfer, UnregisterTransfer
  <2>2. \A f : /\ e \notin Backed(f) /\ e \notin Backed(f)'
               /\ e \notin InCall(f) /\ e \notin InCall(f)'
    BY <1>n, DevicesAssumption DEF Backed, InCall
  <2>3. \A f \in Files : Balanced(e, f)
    <3>1. ASSUME NEW f \in Files
          PROVE  /\ One(e \in Backed(f)) = 0 /\ One(e \in Backed(f)') = 0
                 /\ One(e \in InCall(f)) = 0 /\ One(e \in InCall(f)') = 0
                 /\ refs[f] \in Int /\ refs'[f] \in Int
      BY <1>r, <2>2 DEF One, Typed, FileCounts
    <3> QED
      BY <2>1, <3>1, OneIs
  <2> QED
    BY <1>e, <2>3, CountedMoves
<1> SUFFICES ASSUME e \in Devices PROVE \A f \in Files : Balanced(e, f)
  BY <1>e, <1>n, CountedMoves
<1>0. CASE UNCHANGED <<backing, mutex, pc, call, refs, opened>>
  BY <1>0, <1>r DEF One, Backed, InCall, InStep, Held, Hold
<1>1. ASSUME NEW n \in Nodes, e = DevOf[n], Open(n)
      PROVE  \A f \in Files : Balanced(e, f)
  <2> SUFFICES ASSUME NEW y \in Files
               PROVE  Balanced(e, y)
    OBVIOUS
  <2> QED
    BY <1>1, <1>t, Sorts, <1>r, FilesAssumption, LetsGo, FputKeeps
       DEF Open, One, Backed, InCall, Typed, FileCounts, Held, InStep
<1>2. ASSUME NEW n \in Nodes, e = DevOf[n], Release(n)
      PROVE  \A f \in Files : Balanced(e, f)
  <2> SUFFICES ASSUME NEW y \in Files
               PROVE  Balanced(e, y)
    OBVIOUS
  <2> QED
    BY <1>2, <1>t, Sorts, <1>r, FilesAssumption
       DEF Release, RunDown, Locks, Calls, One, Backed, InCall, Typed, Held, InStep,
           MutexStates, Steps
<1>3. ASSUME NEW p \in Procs, NEW n \in Nodes, e = DevOf[n], ClrFd(p, n),
             UNCHANGED bindFrame
      PROVE  \A f \in Files : Balanced(e, f)
  <2> SUFFICES ASSUME NEW y \in Files
               PROVE  Balanced(e, y)
    OBVIOUS
  <2> QED
    BY <1>3, <1>t, Sorts, <1>r, FilesAssumption
       DEF ClrFd, RunDown, Locks, Entry, Backed, InCall, Held, InStep
<1>4. ASSUME NEW p \in Procs, NEW n \in Nodes, e = DevOf[n], NEW f \in Files,
             SetFd(p, n, f), UNCHANGED bindFrame
      PROVE  \A g \in Files : Balanced(e, g)
  <2> SUFFICES ASSUME NEW y \in Files
               PROVE  Balanced(e, y)
    OBVIOUS
  <2> QED
    BY <1>4, <1>t, Sorts, <1>r, FilesAssumption
       DEF SetFd, BeginSetFd, Entry, Locks, Calls, TakeFile, One, Backed, InCall, Bound,
           Binding, Typed, FileCounts, Held, InStep, Backings
<1>5. ASSUME NEW p \in Procs, NEW n \in Nodes, e = DevOf[n], NEW f \in Files,
             SetFdOops(p, n, f), UNCHANGED bindFrame
      PROVE  \A g \in Files : Balanced(e, g)
  <2> SUFFICES ASSUME NEW y \in Files
               PROVE  Balanced(e, y)
    OBVIOUS
  <2> QED
    BY <1>5, <1>t, Sorts, <1>r, FilesAssumption
       DEF SetFdOops, BeginSetFd, Entry, Locks, Calls, TakeFile, One, Backed, InCall,
           Typed, FileCounts, Held, Hold, InStep, MutexStates, Steps, CallSet
<1>6. ASSUME NEW p \in Procs, NEW n \in Nodes, e = DevOf[n], NEW f \in Files,
             ChangeFd(p, n, f), UNCHANGED bindFrame
      PROVE  \A g \in Files : Balanced(e, g)
  <2> SUFFICES ASSUME NEW y \in Files
               PROVE  Balanced(e, y)
    OBVIOUS
  <2> QED
    BY <1>6, <1>t, Sorts, <1>r, FilesAssumption
       DEF ChangeFd, MayChange, Entry, Locks, Calls, TakeFile, One, Backed, InCall,
           Typed, FileCounts, Held, Hold, InStep, MutexStates, Steps, CallSet
<1>7. ASSUME NEW p \in Procs, NEW n \in Nodes, e = DevOf[n], NEW x \in Xfers,
             SetStatus(p, n, x), UNCHANGED xferFrame
      PROVE  \A f \in Files : Balanced(e, f)
  <2> SUFFICES ASSUME NEW y \in Files
               PROVE  Balanced(e, y)
    OBVIOUS
  <2> QED
    BY <1>7, <1>t, Sorts, <1>r, FilesAssumption
       DEF SetStatus, Entry, Locks, Backed, InCall, Held, InStep
<1>8. ASSUME NEW a \in Actors, e = call[a].dev, mutex[e] = a, SetThread(a),
             UNCHANGED bindFrame
      PROVE  \A f \in Files : Balanced(e, f)
  <2> SUFFICES ASSUME NEW y \in Files
               PROVE  Balanced(e, y)
    OBVIOUS
  <2> QED
    BY <1>8, <1>t, Sorts, <1>r, FilesAssumption, LetsGo, FputKeeps
       DEF SetThread, Unlocks, Returns, FputGoto, One, Backed, InCall, Bound, Binding,
           Calling, Typed, FileCounts, Mutexes, Holders, Held, Holding, Hold, InStep,
           States, Backings, FlagSets, MutexStates, Threads, Queues, Hands, Steps
<1>9. ASSUME NEW a \in Actors, e = call[a].dev, mutex[e] = a, ClrStop(a),
             UNCHANGED bindFrame
      PROVE  \A f \in Files : Balanced(e, f)
  <2> SUFFICES ASSUME NEW y \in Files
               PROVE  Balanced(e, y)
    OBVIOUS
  <2> QED
    BY <1>9, <1>t, Sorts, <1>r, FilesAssumption
       DEF ClrStop, ReleaseXfer, One, Backed, InCall, Bound, Calling, Typed, Held, Hold,
           InStep, Backings, Steps, CallSet
<1>10. ASSUME NEW a \in Actors, e = call[a].dev, mutex[e] = a, ClrEnd(a),
              UNCHANGED bindFrame
      PROVE  \A f \in Files : Balanced(e, f)
  <2> SUFFICES ASSUME NEW y \in Files
               PROVE  Balanced(e, y)
    OBVIOUS
  <2> QED
    BY <1>10, <1>t, Sorts, <1>r, FilesAssumption, LetsGo, FputKeeps
       DEF ClrEnd, FputGoto, One, Backed, InCall, Calling, Typed, FileCounts, Held,
           Holding, Hold, InStep, MutexStates, Threads, Queues, Hands, Steps, CallSet
<1>11. ASSUME NEW a \in Actors, e = call[a].dev, mutex[e] = a, ChangeEnd(a),
              UNCHANGED bindFrame
      PROVE  \A f \in Files : Balanced(e, f)
  <2> SUFFICES ASSUME NEW y \in Files
               PROVE  Balanced(e, y)
    OBVIOUS
  <2> QED
    BY <1>11, <1>t, Sorts, <1>r, FilesAssumption, LetsGo, FputKeeps
       DEF ChangeEnd, FputGoto, One, Backed, InCall, Bound, Binding, Typed, FileCounts,
           Held, Hold, InStep, MutexStates, Hands, Steps, CallSet
<1>12. ASSUME NEW a \in Actors, e = call[a].dev, mutex[e] = a, Return(a),
              UNCHANGED bindFrame
      PROVE  \A f \in Files : Balanced(e, f)
  <2> SUFFICES ASSUME NEW y \in Files
               PROVE  Balanced(e, y)
    OBVIOUS
  <2> QED
    BY <1>12, <1>t, Sorts, <1>r, FilesAssumption
       DEF Return, Unlocks, Returns, Backed, InCall, Held, InStep
<1>13. ASSUME NEW a \in Actors, e = call[a].dev, mutex[e] = a, SetStatusInit(a),
              UNCHANGED xferFrame
      PROVE  \A f \in Files : Balanced(e, f)
  <2> SUFFICES ASSUME NEW y \in Files
               PROVE  Balanced(e, y)
    OBVIOUS
  <2> QED
    BY <1>13, <1>t, Sorts, <1>r, FilesAssumption
       DEF SetStatusInit, Unlocks, Returns, Backed, InCall, Held, InStep, States
<1>14. ASSUME NEW a \in Actors, Visit(a, e), UNCHANGED xferFrame
      PROVE  \A f \in Files : Balanced(e, f)
  <2> SUFFICES ASSUME NEW y \in Files
               PROVE  Balanced(e, y)
    OBVIOUS
  <2> QED
    BY <1>14, <1>t, Sorts, <1>r, FilesAssumption
       DEF Visit, MayVisit, Backed, InCall, Held, InStep
<1>15. ASSUME ThreadSwitch(e), UNCHANGED bindFrame
      PROVE  \A f \in Files : Balanced(e, f)
  <2> SUFFICES ASSUME NEW y \in Files
               PROVE  Balanced(e, y)
    OBVIOUS
  <2> QED
    BY <1>15, <1>t, Sorts, <1>r, FilesAssumption, InHand
       DEF ThreadSwitch, One, Backed, InCall, Typed, Held, Hold, InStep, Backings,
           CallSet
<1> QED
  BY <1>e, <1>0, <1>1, <1>2, <1>3, <1>4, <1>5, <1>6, <1>7, <1>8, <1>9, <1>10, <1>11,
     <1>12, <1>13, <1>14, <1>15, DevicesAssumption
     DEF Moves, BindContinue, Thread, ThreadIo, SetStatusPlain, Entry, ReleaseXfer,
         Released, SetAutoclear, ThreadTake, HasBdev, ThreadEnd, ThreadStart, ThreadExit, Drained,
         MakeRequest, Takes

\* The same for the module ...
LEMMA ModuleMoves ==
    ASSUME ModuleCounted, moduleRefs \in Int, moduleRefs' \in Int, NEW e,
           \A g \in Devices \ {e} : Same(g),
           moduleRefs' + One(e \in InUse) + One(e \in Binds)
                = moduleRefs + One(e \in InUse') + One(e \in Binds')
    PROVE  ModuleCounted'
<1>1. /\ Cardinality(InUse) \in Nat /\ Cardinality(InUse') \in Nat
      /\ Cardinality(InUse') + One(e \in InUse) = Cardinality(InUse) + One(e \in InUse')
  <2>1. InUse \in SUBSET Devices /\ InUse' \in SUBSET Devices
    BY DEF InUse
  <2> QED
    BY <2>1, CardMoves, SameSets
<1>2. /\ Cardinality(Binds) \in Nat /\ Cardinality(Binds') \in Nat
      /\ Cardinality(Binds') + One(e \in Binds) = Cardinality(Binds) + One(e \in Binds')
  <2>1. Binds \in SUBSET Devices /\ Binds' \in SUBSET Devices
    BY DEF Binds
  <2> QED
    BY <2>1, CardMoves, SameSets
<1>3. moduleRefs = Cardinality(InUse) + Cardinality(Binds)
  BY DEF ModuleCounted
<1>4. moduleRefs' = Cardinality(InUse') + Cardinality(Binds')
  BY <1>1, <1>2, <1>3, OneIs
<1> QED
  BY <1>4 DEF ModuleCounted

\* ... and for the xfers.
LEMMA XfersMoves ==
    ASSUME TypeOK, Typed', XfersCounted, NEW e, \A g \in Devices \ {e} : Same(g),
           \A x \in Xfers :
               xferRefs'[x] + One(e \in Encrypted(x)) + One(e \in Trying(x))
                = xferRefs[x] + One(e \in Encrypted(x)') + One(e \in Trying(x)')
    PROVE  XfersCounted'
<1> SUFFICES ASSUME NEW x \in Xfers
             PROVE  xferRefs'[x] = Cardinality(Encrypted(x)') + Cardinality(Trying(x)')
  BY DEF XfersCounted
<1>1. /\ Cardinality(Encrypted(x)) \in Nat /\ Cardinality(Encrypted(x)') \in Nat
      /\ Cardinality(Encrypted(x)') + One(e \in Encrypted(x))
             = Cardinality(Encrypted(x)) + One(e \in Encrypted(x)')
  <2>1. Encrypted(x) \in SUBSET Devices /\ Encrypted(x)' \in SUBSET Devices
    BY DEF Encrypted
  <2> QED
    BY <2>1, CardMoves, SameSets
<1>2. /\ Cardinality(Trying(x)) \in Nat /\ Cardinality(Trying(x)') \in Nat
      /\ Cardinality(Trying(x)') + One(e \in Trying(x))
             = Cardinality(Trying(x)) + One(e \in Trying(x)')
  <2>1. Trying(x) \in SUBSET Devices /\ Trying(x)' \in SUBSET Devices
    BY DEF Trying
  <2> QED
    BY <2>1, CardMoves, SameSets
<1>3. xferRefs[x] = Cardinality(Encrypted(x)) + Cardinality(Trying(x))
  BY DEF XfersCounted
<1>4. xferRefs[x] \in Int /\ xferRefs'[x] \in Int
  BY DEF TypeOK, Typed, XferCounts
<1> QED
  BY <1>1, <1>2, <1>3, <1>4, OneIs

\* __module_get in loop_set_fd is paired with module_put in loop_clr_fd, or in
\* the error path.
LEMMA ModuleStep ==
    ASSUME TypeOK, Typed', Mutexes, Bound, Requests, Counted, ModuleCounted, [Next]_vars
    PROVE  ModuleCounted'
<1> USE DEF vars, bindVars, xferVars, ioVars, fileVars, callVars, bindFrame, xferFrame,
            ioFrame, threadVars, At, Goto
<1>t. Typed
  BY TypedIs
<1>e. PICK e \in Devices \cup {NoDevice} : Moves(e) /\ \A g \in Devices \ {e} : Same(g)
  BY Elsewhere
<1>m. moduleRefs \in Int /\ moduleRefs' \in Int
  BY DEF TypeOK, Typed
<1>n. CASE e = NoDevice
  <2>1. moduleRefs' = moduleRefs
    BY <1>n, <1>e, DevicesAssumption
       DEF Moves, Close, RegisterTransfer, UnregisterTransfer
  <2>2. e \notin InUse /\ e \notin InUse' /\ e \notin Binds /\ e \notin Binds'
    BY <1>n, DevicesAssumption DEF InUse, Binds
  <2>3. moduleRefs' + One(e \in InUse) + One(e \in Binds)
            = moduleRefs + One(e \in InUse') + One(e \in Binds')
    BY <1>m, <2>1, <2>2
  <2> QED
    BY <1>e, <1>m, <2>3, ModuleMoves
<1> SUFFICES ASSUME e \in Devices
    PROVE  moduleRefs' + One(e \in InUse) + One(e \in Binds)
              = moduleRefs + One(e \in InUse') + One(e \in Binds')
  BY <1>e, <1>m, <1>n, ModuleMoves
<1>0. CASE UNCHANGED <<state, mutex, pc, call, moduleRefs>>
  BY <1>0, <1>m DEF One, InUse, Binds, InStep, Held
<1>1. ASSUME NEW n \in Nodes, e = DevOf[n], Release(n)
      PROVE  moduleRefs' + One(e \in InUse) + One(e \in Binds)
              = moduleRefs + One(e \in InUse') + One(e \in Binds')
  BY <1>1, <1>t, Sorts, <1>m
     DEF Release, RunDown, Locks, InUse, Binds, Held, InStep, Typed, States,
         MutexStates, Steps
<1>2. ASSUME NEW p \in Procs, NEW n \in Nodes, e = DevOf[n], ClrFd(p, n),
             UNCHANGED bindFrame
      PROVE  moduleRefs' + One(e \in InUse) + One(e \in Binds)
              = moduleRefs + One(e \in InUse') + One(e \in Binds')
  BY <1>2, <1>t, Sorts, <1>m
     DEF ClrFd, RunDown, Locks, Entry, InUse, Binds, Held, InStep
<1>3. ASSUME NEW p \in Procs, NEW n \in Nodes, e = DevOf[n], NEW f \in Files,
             SetFd(p, n, f), UNCHANGED bindFrame
      PROVE  moduleRefs' + One(e \in InUse) + One(e \in Binds)
              = moduleRefs + One(e \in InUse') + One(e \in Binds')
  BY <1>3, <1>t, Sorts, <1>m
     DEF SetFd, BeginSetFd, Entry, Locks, Calls, One, InUse, Binds, Held, InStep, Typed,
         MutexStates, Steps
<1>4. ASSUME NEW p \in Procs, NEW n \in Nodes, e = DevOf[n], NEW f \in Files,
             SetFdOops(p, n, f), UNCHANGED bindFrame
      PROVE  moduleRefs' + One(e \in InUse) + One(e \in Binds)
              = moduleRefs + One(e \in InUse') + One(e \in Binds')
  BY <1>4, <1>t, Sorts, <1>m
     DEF SetFdOops, BeginSetFd, Entry, Locks, Calls, One, InUse, Binds, Held, InStep,
         Typed, MutexStates, Steps
<1>5. ASSUME NEW p \in Procs, NEW n \in Nodes, e = DevOf[n], NEW f \in Files,
             ChangeFd(p, n, f), UNCHANGED bindFrame
      PROVE  moduleRefs' + One(e \in InUse) + One(e \in Binds)
              = moduleRefs + One(e \in InUse') + One(e \in Binds')
  BY <1>5, <1>t, Sorts, <1>m DEF ChangeFd, Entry, Locks, InUse, Binds, Held, InStep
<1>6. ASSUME NEW p \in Procs, NEW n \in Nodes, e = DevOf[n], NEW x \in Xfers,
             SetStatus(p, n, x), UNCHANGED xferFrame
      PROVE  moduleRefs' + One(e \in InUse) + One(e \in Binds)
              = moduleRefs + One(e \in InUse') + One(e \in Binds')
  BY <1>6, <1>t, Sorts, <1>m DEF SetStatus, Entry, Locks, InUse, Binds, Held, InStep
<1>7. ASSUME NEW a \in Actors, e = call[a].dev, mutex[e] = a, SetThread(a),
             UNCHANGED bindFrame
      PROVE  moduleRefs' + One(e \in InUse) + One(e \in Binds)
              = moduleRefs + One(e \in InUse') + One(e \in Binds')
  <2>1. e \notin InUse /\ e \in Binds
    BY <1>7, Sorts DEF SetThread, Bound, Calling, Binds, InUse, InStep, Held
  <2>2. CASE Unlocks(a) /\ state' = [state EXCEPT ![call[a].dev] = "bound"]
    <3>1. mutex'[e] = NoActor /\ state'[e] = "bound"
      BY <1>7, <2>2, <1>t DEF Unlocks, Typed, MutexStates, States
    <3>2. e \in InUse' /\ e \notin Binds'
      BY <3>1 DEF Binds, InUse, InStep, Held
    <3> QED
      BY <1>7, <1>m, <2>1, <3>2 DEF SetThread, One
  <2>3. CASE FputGoto(a, call[a].file, "module_put") /\ UNCHANGED <<state, mutex>>
    <3>1. pc'[a] = "module_put" /\ mutex'[e] = a /\ state'[e] = state[e]
      BY <1>7, <2>3, Sorts, LetsGo, FputKeeps DEF SetThread
    <3>2. e \notin InUse' /\ e \in Binds'
      BY <1>7, Sorts, <2>1, <3>1 DEF Binds, InUse, InStep, Held
    <3> QED
      BY <1>7, <1>m, <2>1, <3>2 DEF SetThread, One
  <2> QED
    BY <1>7, <2>2, <2>3 DEF SetThread
<1>8. ASSUME NEW a \in Actors, e = call[a].dev, mutex[e] = a, ClrStop(a),
             UNCHANGED bindFrame
      PROVE  moduleRefs' + One(e \in InUse) + One(e \in Binds)
              = moduleRefs + One(e \in InUse') + One(e \in Binds')
  BY <1>8, <1>t, Sorts, <1>m DEF ClrStop, InUse, Binds, InStep
<1>9. ASSUME NEW a \in Actors, e = call[a].dev, mutex[e] = a, ClrEnd(a),
             UNCHANGED bindFrame
      PROVE  moduleRefs' + One(e \in InUse) + One(e \in Binds)
              = moduleRefs + One(e \in InUse') + One(e \in Binds')
  <2>1. pc'[a] = "module_put" /\ mutex'[e] = a /\ state'[e] = "unbound"
    BY <1>9, <1>t, Sorts, LetsGo, FputKeeps DEF ClrEnd, Typed, States
  <2>2. e \in InUse /\ e \notin Binds
    BY <1>9, Sorts DEF ClrEnd, Bound, Calling, Binds, InUse, InStep, Held
  <2>3. e \notin InUse' /\ e \in Binds'
    BY <1>9, Sorts, <2>1 DEF Binds, InUse, InStep, Held
  <2> QED
    BY <1>9, <1>m, <2>2, <2>3 DEF ClrEnd, One
<1>10. ASSUME NEW a \in Actors, e = call[a].dev, mutex[e] = a, ChangeEnd(a),
              UNCHANGED bindFrame
      PROVE  moduleRefs' + One(e \in InUse) + One(e \in Binds)
              = moduleRefs + One(e \in InUse') + One(e \in Binds')
  <2>1. pc'[a] = "unlock" /\ mutex'[e] = a /\ state'[e] = state[e]
    BY <1>10, Sorts, LetsGo, FputKeeps DEF ChangeEnd
  <2>2. e \notin Binds /\ e \notin Binds' /\ (e \in InUse' <=> e \in InUse)
    BY <1>10, <2>1 DEF ChangeEnd, Binds, InUse, InStep
  <2> QED
    BY <1>10, <1>m, <2>2 DEF ChangeEnd, One
<1>11. ASSUME NEW a \in Actors, e = call[a].dev, mutex[e] = a, Return(a),
              UNCHANGED bindFrame
      PROVE  moduleRefs' + One(e \in InUse) + One(e \in Binds)
              = moduleRefs + One(e \in InUse') + One(e \in Binds')
  <2>1. mutex'[e] = NoActor /\ state'[e] = state[e]
    BY <1>11, <1>t DEF Return, Unlocks, Typed, MutexStates
  <2>2. e \notin Binds' /\ (e \in InUse' <=> e \in InUse)
    BY <2>1 DEF Binds, InUse, InStep, Held
  <2>3. e \in Binds <=> PutsModule(a)
    BY <1>11, Sorts DEF Return, PutsModule, Binds, InStep, Held
  <2> QED
    BY <1>11, <1>m, <2>2, <2>3 DEF Return, One
<1>12. ASSUME NEW a \in Actors, e = call[a].dev, mutex[e] = a, SetStatusInit(a),
              UNCHANGED xferFrame
      PROVE  moduleRefs' + One(e \in InUse) + One(e \in Binds)
              = moduleRefs + One(e \in InUse') + One(e \in Binds')
  BY <1>12, <1>t, Sorts, <1>m
     DEF SetStatusInit, Unlocks, Returns, InUse, Binds, Held, InStep
<1>13. ASSUME NEW a \in Actors, Visit(a, e), UNCHANGED xferFrame
      PROVE  moduleRefs' + One(e \in InUse) + One(e \in Binds)
              = moduleRefs + One(e \in InUse') + One(e \in Binds')
  BY <1>13, <1>t, Sorts, <1>m DEF Visit, MayVisit, InUse, Binds, Held, InStep
<1>14. ASSUME ThreadSwitch(e), UNCHANGED bindFrame
      PROVE  moduleRefs' + One(e \in InUse) + One(e \in Binds)
              = moduleRefs + One(e \in InUse') + One(e \in Binds')
  BY <1>14, InHand, <1>t, Sorts, <1>m DEF ThreadSwitch, InUse, Binds, InStep
<1> QED
  BY <1>e, <1>0, <1>1, <1>2, <1>3, <1>4, <1>5, <1>6, <1>7, <1>8, <1>9, <1>10, <1>11,
     <1>12, <1>13, <1>14, DevicesAssumption
     DEF Moves, BindContinue, Thread, ThreadIo, Open, SetStatusPlain, Entry,
         ReleaseXfer, Released, SetAutoclear, ThreadTake, HasBdev, ThreadEnd, ThreadStart, ThreadExit,
         Drained, MakeRequest, Takes

\* The reference to an xfer's module taken in loop_init_xfer is given back by
\* its release.
LEMMA XfersStep ==
    ASSUME TypeOK, Typed', Mutexes, Bound, Requests, Counted, XfersCounted, [Next]_vars
    PROVE  XfersCounted'
<1> USE DEF vars, bindVars, xferVars, ioVars, fileVars, callVars, bindFrame, xferFrame,
            ioFrame, threadVars, At, Goto
<1>t. Typed
  BY TypedIs
<1>e. PICK e \in Devices \cup {NoDevice} : Moves(e) /\ \A g \in Devices \ {e} : Same(g)
  BY Elsewhere
<1>x. \A x \in Xfers : xferRefs[x] \in Int /\ xferRefs'[x] \in Int
  BY DEF TypeOK, Typed, XferCounts
<1>n. CASE e = NoDevice
  <2>1. xferRefs' = xferRefs
    BY <1>n, <1>e, DevicesAssumption
       DEF Moves, Close, RegisterTransfer, UnregisterTransfer
  <2>2. \A x : e \notin Encrypted(x) /\ e \notin Encrypted(x)' /\ e \notin Trying(x)
            /\ e \notin Trying(x)'
    BY <1>n, DevicesAssumption DEF Encrypted, Trying
  <2>3. \A x \in Xfers : xferRefs'[x] + One(e \in Encrypted(x)) + One(e \in Trying(x))
            = xferRefs[x] + One(e \in Encrypted(x)') + One(e \in Trying(x)')
    BY <1>x, <2>1, <2>2
  <2> QED
    BY <1>e, <2>3, XfersMoves
<1> SUFFICES ASSUME e \in Devices
    PROVE  \A x \in Xfers :
               xferRefs'[x] + One(e \in Encrypted(x)) + One(e \in Trying(x))
              = xferRefs[x] + One(e \in Encrypted(x)') + One(e \in Trying(x)')
  BY <1>e, <1>n, XfersMoves
<1>0. CASE UNCHANGED <<encryption, mutex, pc, call, xferRefs>>
  BY <1>0, <1>x DEF One, Encrypted, Trying, InStep, Held, Hold
<1>1. ASSUME NEW n \in Nodes, e = DevOf[n], Release(n)
      PROVE  \A x \in Xfers :
                 xferRefs'[x] + One(e \in Encrypted(x)) + One(e \in Trying(x))
              = xferRefs[x] + One(e \in Encrypted(x)') + One(e \in Trying(x)')
  <2> SUFFICES ASSUME NEW y \in Xfers
               PROVE  xferRefs'[y] + One(e \in Encrypted(y)) + One(e \in Trying(y))
                      = xferRefs[y] + One(e \in Encrypted(y)') + One(e \in Trying(y)')
    OBVIOUS
  <2> QED
    BY <1>1, <1>t, Sorts, <1>x, XfersAssumption
       DEF Release, RunDown, Locks, Calls, Encrypted, Trying, Typed, Held, InStep,
           MutexStates, Steps
<1>2. ASSUME NEW p \in Procs, NEW n \in Nodes, e = DevOf[n], ClrFd(p, n),
             UNCHANGED bindFrame
      PROVE  \A x \in Xfers :
                 xferRefs'[x] + One(e \in Encrypted(x)) + One(e \in Trying(x))
              = xferRefs[x] + One(e \in Encrypted(x)') + One(e \in Trying(x)')
  <2> SUFFICES ASSUME NEW y \in Xfers
               PROVE  xferRefs'[y] + One(e \in Encrypted(y)) + One(e \in Trying(y))
                      = xferRefs[y] + One(e \in Encrypted(y)') + One(e \in Trying(y)')
    OBVIOUS
  <2> QED
    BY <1>2, <1>t, Sorts, <1>x, XfersAssumption
       DEF ClrFd, RunDown, Locks, Entry, Encrypted, Trying, Held, InStep
<1>3. ASSUME NEW p \in Procs, NEW n \in Nodes, e = DevOf[n], NEW f \in Files,
             SetFd(p, n, f), UNCHANGED bindFrame
      PROVE  \A x \in Xfers :
                 xferRefs'[x] + One(e \in Encrypted(x)) + One(e \in Trying(x))
              = xferRefs[x] + One(e \in Encrypted(x)') + One(e \in Trying(x)')
  <2> SUFFICES ASSUME NEW y \in Xfers
               PROVE  xferRefs'[y] + One(e \in Encrypted(y)) + One(e \in Trying(y))
                      = xferRefs[y] + One(e \in Encrypted(y)') + One(e \in Trying(y)')
    OBVIOUS
  <2> QED
    BY <1>3, <1>t, Sorts, <1>x, XfersAssumption
       DEF SetFd, BeginSetFd, Entry, Locks, Encrypted, Trying, Held, InStep
<1>4. ASSUME NEW p \in Procs, NEW n \in Nodes, e = DevOf[n], NEW f \in Files,
             SetFdOops(p, n, f), UNCHANGED bindFrame
      PROVE  \A x \in Xfers :
                 xferRefs'[x] + One(e \in Encrypted(x)) + One(e \in Trying(x))
              = xferRefs[x] + One(e \in Encrypted(x)') + One(e \in Trying(x)')
  <2> SUFFICES ASSUME NEW y \in Xfers
               PROVE  xferRefs'[y] + One(e \in Encrypted(y)) + One(e \in Trying(y))
                      = xferRefs[y] + One(e \in Encrypted(y)') + One(e \in Trying(y)')
    OBVIOUS
  <2> QED
    BY <1>4, <1>t, Sorts, <1>x, XfersAssumption
       DEF SetFdOops, BeginSetFd, Entry, Locks, Encrypted, Trying, Held, InStep
<1>5. ASSUME NEW p \in Procs, NEW n \in Nodes, e = DevOf[n], NEW f \in Files,
             ChangeFd(p, n, f), UNCHANGED bindFrame
      PROVE  \A x \in Xfers :
                 xferRefs'[x] + One(e \in Encrypted(x)) + One(e \in Trying(x))
              = xferRefs[x] + One(e \in Encrypted(x)') + One(e \in Trying(x)')
  <2> SUFFICES ASSUME NEW y \in Xfers
               PROVE  xferRefs'[y] + One(e \in Encrypted(y)) + One(e \in Trying(y))
                      = xferRefs[y] + One(e \in Encrypted(y)') + One(e \in Trying(y)')
    OBVIOUS
  <2> QED
    BY <1>5, <1>t, Sorts, <1>x, XfersAssumption
       DEF ChangeFd, Entry, Locks, Encrypted, Trying, Held, InStep
<1>6. ASSUME NEW p \in Procs, NEW n \in Nodes, e = DevOf[n], SetStatusPlain(p, n),
             UNCHANGED xferFrame
      PROVE  \A x \in Xfers :
                 xferRefs'[x] + One(e \in Encrypted(x)) + One(e \in Trying(x))
              = xferRefs[x] + One(e \in Encrypted(x)') + One(e \in Trying(x)')
  <2> SUFFICES ASSUME NEW y \in Xfers
               PROVE  xferRefs'[y] + One(e \in Encrypted(y)) + One(e \in Trying(y))
                      = xferRefs[y] + One(e \in Encrypted(y)') + One(e \in Trying(y)')
    OBVIOUS
  <2> QED
    BY <1>6, <1>t, Sorts, <1>x, XfersAssumption
       DEF SetStatusPlain, Entry, ReleaseXfer, One, Encrypted, Trying, Typed,
           Encryptions, Held, InStep
<1>7. ASSUME NEW p \in Procs, NEW n \in Nodes, e = DevOf[n], NEW x \in Xfers,
             SetStatus(p, n, x), UNCHANGED xferFrame
      PROVE  \A y \in Xfers :
                 xferRefs'[y] + One(e \in Encrypted(y)) + One(e \in Trying(y))
              = xferRefs[y] + One(e \in Encrypted(y)') + One(e \in Trying(y)')
  <2> SUFFICES ASSUME NEW y \in Xfers
               PROVE  xferRefs'[y] + One(e \in Encrypted(y)) + One(e \in Trying(y))
                      = xferRefs[y] + One(e \in Encrypted(y)') + One(e \in Trying(y)')
    OBVIOUS
  <2> QED
    BY <1>7, <1>t, Sorts, <1>x, XfersAssumption
       DEF SetStatus, Entry, Locks, Calls, Released, One, Encrypted, Trying, Bound,
           Binding, Calling, Typed, Encryptions, Mutexes, InCalls, Held, Holding, Hold,
           InStep, States, MutexStates, Hands, Steps, CallSet
<1>8. ASSUME NEW a \in Actors, e = call[a].dev, mutex[e] = a, SetThread(a),
             UNCHANGED bindFrame
      PROVE  \A x \in Xfers :
                 xferRefs'[x] + One(e \in Encrypted(x)) + One(e \in Trying(x))
              = xferRefs[x] + One(e \in Encrypted(x)') + One(e \in Trying(x)')
  <2>1. ~ Held(e)' \/ (pc'[a] = "module_put" /\ mutex'[e] = a)
    BY <1>8, <1>t, Sorts, LetsGo, FputKeeps
       DEF SetThread, Unlocks, Returns, Held, Typed, MutexStates
  <2>2. \A y : e \notin Trying(y) /\ e \notin Trying(y)'
    BY <1>8, <2>1 DEF SetThread, Trying, InStep
  <2>3. \A y : e \in Encrypted(y)' <=> e \in Encrypted(y)
    BY <1>8 DEF SetThread, Encrypted
  <2> QED
    BY <1>8, <1>x, <2>2, <2>3 DEF SetThread, One
<1>9. ASSUME NEW a \in Actors, e = call[a].dev, mutex[e] = a, ClrStop(a),
             UNCHANGED bindFrame
      PROVE  \A x \in Xfers :
                 xferRefs'[x] + One(e \in Encrypted(x)) + One(e \in Trying(x))
              = xferRefs[x] + One(e \in Encrypted(x)') + One(e \in Trying(x)')
  <2> SUFFICES ASSUME NEW y \in Xfers
               PROVE  xferRefs'[y] + One(e \in Encrypted(y)) + One(e \in Trying(y))
                      = xferRefs[y] + One(e \in Encrypted(y)') + One(e \in Trying(y)')
    OBVIOUS
  <2> QED
    BY <1>9, <1>t, Sorts, <1>x, XfersAssumption
       DEF ClrStop, ReleaseXfer, One, Encrypted, Trying, Typed, Encryptions, InStep
<1>10. ASSUME NEW a \in Actors, e = call[a].dev, mutex[e] = a, ClrEnd(a),
              UNCHANGED bindFrame
      PROVE  \A x \in Xfers :
                 xferRefs'[x] + One(e \in Encrypted(x)) + One(e \in Trying(x))
              = xferRefs[x] + One(e \in Encrypted(x)') + One(e \in Trying(x)')
  <2>1. (pc'[a] = "module_put" /\ mutex'[e] = a)
    BY <1>10, <1>t, Sorts, LetsGo, FputKeeps DEF ClrEnd, Held, Typed, MutexStates
  <2>2. \A y : e \notin Trying(y) /\ e \notin Trying(y)'
    BY <1>10, <2>1 DEF ClrEnd, Trying, InStep
  <2>3. \A y : e \in Encrypted(y)' <=> e \in Encrypted(y)
    BY <1>10 DEF ClrEnd, Encrypted
  <2> QED
    BY <1>10, <1>x, <2>2, <2>3 DEF ClrEnd, One
<1>11. ASSUME NEW a \in Actors, e = call[a].dev, mutex[e] = a, ChangeEnd(a),
              UNCHANGED bindFrame
      PROVE  \A x \in Xfers :
                 xferRefs'[x] + One(e \in Encrypted(x)) + One(e \in Trying(x))
              = xferRefs[x] + One(e \in Encrypted(x)') + One(e \in Trying(x)')
  <2>1. (pc'[a] = "unlock" /\ mutex'[e] = a)
    BY <1>11, <1>t, Sorts, LetsGo, FputKeeps DEF ChangeEnd, Held, Typed, MutexStates
  <2>2. \A y : e \notin Trying(y) /\ e \notin Trying(y)'
    BY <1>11, <2>1 DEF ChangeEnd, Trying, InStep
  <2>3. \A y : e \in Encrypted(y)' <=> e \in Encrypted(y)
    BY <1>11 DEF ChangeEnd, Encrypted
  <2> QED
    BY <1>11, <1>x, <2>2, <2>3 DEF ChangeEnd, One
<1>12. ASSUME NEW a \in Actors, e = call[a].dev, mutex[e] = a, Return(a),
              UNCHANGED bindFrame
      PROVE  \A x \in Xfers :
                 xferRefs'[x] + One(e \in Encrypted(x)) + One(e \in Trying(x))
              = xferRefs[x] + One(e \in Encrypted(x)') + One(e \in Trying(x)')
  <2> SUFFICES ASSUME NEW y \in Xfers
               PROVE  xferRefs'[y] + One(e \in Encrypted(y)) + One(e \in Trying(y))
                      = xferRefs[y] + One(e \in Encrypted(y)') + One(e \in Trying(y)')
    OBVIOUS
  <2> QED
    BY <1>12, <1>t, Sorts, <1>x, XfersAssumption
       DEF Return, Unlocks, Returns, Encrypted, Trying, Held, InStep
<1>13. ASSUME NEW a \in Actors, e = call[a].dev, mutex[e] = a, SetStatusInit(a),
              UNCHANGED xferFrame
      PROVE  \A x \in Xfers :
                 xferRefs'[x] + One(e \in Encrypted(x)) + One(e \in Trying(x))
              = xferRefs[x] + One(e \in Encrypted(x)') + One(e \in Trying(x)')
  <2> SUFFICES ASSUME NEW y \in Xfers
               PROVE  xferRefs'[y] + One(e \in Encrypted(y)) + One(e \in Trying(y))
                      = xferRefs[y] + One(e \in Encrypted(y)') + One(e \in Trying(y)')
    OBVIOUS
  <2> QED
    BY <1>13, <1>t, Sorts, <1>x, XfersAssumption, InHand
       DEF SetStatusInit, Unlocks, Returns, SetAutoclear, One, Encrypted, Trying, Bound,
           Binding, Calling, Typed, Encryptions, XferCounts, InCalls, Held, Hold,
           InStep, MutexStates, Threads
<1>14. ASSUME NEW a \in Actors, Visit(a, e), UNCHANGED xferFrame
      PROVE  \A x \in Xfers :
                 xferRefs'[x] + One(e \in Encrypted(x)) + One(e \in Trying(x))
              = xferRefs[x] + One(e \in Encrypted(x)') + One(e \in Trying(x)')
  <2> SUFFICES ASSUME NEW y \in Xfers
               PROVE  xferRefs'[y] + One(e \in Encrypted(y)) + One(e \in Trying(y))
                      = xferRefs[y] + One(e \in Encrypted(y)') + One(e \in Trying(y)')
    OBVIOUS
  <2> QED
    BY <1>14, <1>t, Sorts, <1>x, XfersAssumption
       DEF Visit, MayVisit, ReleaseXfer, One, Encrypted, Trying, Typed, Encryptions,
           Held, InStep
<1>15. ASSUME ThreadSwitch(e), UNCHANGED bindFrame
      PROVE  \A x \in Xfers :
                 xferRefs'[x] + One(e \in Encrypted(x)) + One(e \in Trying(x))
              = xferRefs[x] + One(e \in Encrypted(x)') + One(e \in Trying(x)')
  <2> SUFFICES ASSUME NEW y \in Xfers
               PROVE  xferRefs'[y] + One(e \in Encrypted(y)) + One(e \in Trying(y))
                      = xferRefs[y] + One(e \in Encrypted(y)') + One(e \in Trying(y)')
    OBVIOUS
  <2> QED
    BY <1>15, <1>t, Sorts, <1>x, XfersAssumption, InHand
       DEF ThreadSwitch, Encrypted, Trying, InStep
<1> QED
  BY <1>e, <1>0, <1>1, <1>2, <1>3, <1>4, <1>5, <1>6, <1>7, <1>8, <1>9, <1>10, <1>11,
     <1>12, <1>13, <1>14, <1>15, DevicesAssumption
     DEF Moves, BindContinue, Thread, Open

\* What was dropped stays dropped.
LEMMA DroppedGrows ==
    ASSUME TypeOK, Mutexes, Bound, Requests, Counted, [Next]_vars
    PROVE  dropped \subseteq dropped'
<1> USE DEF vars, bindVars, xferVars, ioVars, fileVars, callVars, bindFrame, xferFrame,
            ioFrame, threadVars, At, Goto
<1> DEFINE Grows == dropped \subseteq dropped'
<1>0. CASE UNCHANGED dropped
  BY <1>0
<1>1. ASSUME NEW n \in Nodes, Open(n) \/ Release(n)
      PROVE  Grows
  BY <1>1 DEF Open, Release, RunDown
<1>2. ASSUME NEW f \in Files, Close(f)
      PROVE  Grows
  BY <1>2 DEF Close
<1>3. ASSUME NEW p \in Procs, BindRequests(p)
      PROVE  Grows
  BY <1>3 DEF BindRequests, ClrFd, RunDown, SetFd, SetFdOops, BeginSetFd, ChangeFd
<1>4. ASSUME NEW a \in Actors, BindContinue(a)
      PROVE  Grows
  BY <1>4 DEF BindContinue, SetThread, ClrStop, ClrEnd, ChangeEnd, Return
<1>5. ASSUME NEW d \in Devices, Thread(d)
      PROVE  Grows
  BY <1>5
     DEF Thread, ThreadIo, ThreadStart, ThreadTake, ThreadEnd, ThreadExit, ThreadSwitch
<1>6. ASSUME NEW d \in Devices, NEW b \in Bios, MakeRequest(d, b)
      PROVE  Grows
  BY <1>6 DEF MakeRequest
<1> HIDE DEF Grows
<1> QED
  BY <1>0, <1>1, <1>2, <1>3, <1>4, <1>5, <1>6 DEF Next, Continue, Grows

\* A thread leaves a bio behind only by not beginning.
LEMMA LeftoversStep ==
    ASSUME TypeOK, Typed', Mutexes, Bound, Requests, Counted, Leftovers, [Next]_vars
    PROVE  Leftovers'
<1> USE DEF vars, bindVars, xferVars, ioVars, fileVars, callVars, bindFrame, xferFrame,
            ioFrame, threadVars, At, Goto
<1>t. Typed
  BY TypedIs
<1>e. PICK e \in Devices \cup {NoDevice} : Moves(e) /\ \A g \in Devices \ {e} : Same(g)
  BY Elsewhere
<1>d. dropped \subseteq dropped'
  BY DroppedGrows
<1>s. ASSUME NEW g \in Devices, thread'[g] = thread[g], queue'[g] = queue[g]
      PROVE  Left(g)'
  BY <1>s, <1>d, QueueSame DEF Left, Leftovers
<1> SUFFICES ASSUME e \in Devices PROVE Left(e)'
  BY <1>e, <1>s DEF Leftovers, Same, SameData
<1> DEFINE Kept == thread'[e] = thread[e] /\ queue'[e] = queue[e]
           Working == thread'[e] \notin {"none", "exited"}
<1>k. CASE Kept
  BY <1>k, <1>s
<1>w. CASE Working
  BY <1>w DEF Left
<1>r. ASSUME NEW a, NEW n, RunDown(a, n, e), queue' = queue
      PROVE  Left(e)'
  <2>1. thread'[e] \in {"exited", "stopping"}
    BY <1>r, <1>t DEF RunDown, Typed, Threads
  <2>2. CASE thread[e] = "woken"
    <3>1. \A c : Queued(e, c)' => c \in dropped'
      BY <1>r, <2>2 DEF RunDown, Queued
    <3> QED
      BY <3>1 DEF Left
  <2>3. CASE thread[e] # "woken"
    BY <1>r, <1>t, <2>3 DEF RunDown, Left, Typed, Threads
  <2> QED
    BY <2>2, <2>3
<1>1. ASSUME NEW n \in Nodes, e = DevOf[n], Open(n) \/ Release(n)
      PROVE  Left(e)'
  BY <1>1, <1>k, <1>r DEF Open, Release
<1>2. ASSUME NEW p \in Procs, NEW n \in Nodes, e = DevOf[n], ClrFd(p, n),
             UNCHANGED bindFrame
      PROVE  Left(e)'
  BY <1>2, <1>r DEF ClrFd
<1>3. ASSUME NEW p \in Procs, NEW n \in Nodes, e = DevOf[n], NEW f \in Files,
             SetFd(p, n, f)
      PROVE  Left(e)'
  <2>1. queue'[e] = <<>>
    BY <1>3, <1>t DEF SetFd, Typed, Queues
  <2> QED
    BY <2>1 DEF Left, Queued
<1>4. ASSUME NEW p \in Procs, NEW n \in Nodes, e = DevOf[n], NEW f \in Files,
             SetFdOops(p, n, f) \/ ChangeFd(p, n, f)
      PROVE  Kept \/ Working
  BY <1>4 DEF SetFdOops, BeginSetFd, ChangeFd, MayChange, Bound, Binding
<1>5. ASSUME NEW a \in Actors, e = call[a].dev, mutex[e] = a, SetThread(a)
      PROVE  Kept \/ Working
  BY <1>5, <1>t DEF SetThread, Typed, Threads
<1>6. ASSUME NEW a \in Actors, e = call[a].dev, mutex[e] = a, ClrStop(a)
      PROVE  Left(e)'
  BY <1>6, <1>d, QueueSame DEF ClrStop, Left, Leftovers
<1>7. ASSUME NEW a \in Actors, ClrEnd(a) \/ ChangeEnd(a) \/ Return(a)
      PROVE  Kept
  BY <1>7 DEF ClrEnd, ChangeEnd, Return
<1>8. ASSUME ThreadExit(e)
      PROVE  Left(e)'
  <2>1. queue'[e] = <<>>
    BY <1>8 DEF ThreadExit, Drained
  <2> QED
    BY <2>1 DEF Left, Queued
<1>9. ASSUME ThreadStart(e) \/ ThreadTake(e) \/ ThreadEnd(e) \/ ThreadSwitch(e)
      PROVE  Kept \/ Working
  BY <1>9, <1>t
     DEF ThreadStart, ThreadTake, ThreadEnd, ThreadSwitch, Typed, Threads
<1>10. ASSUME NEW b \in Bios, MakeRequest(e, b)
       PROVE  Kept \/ Working
  BY <1>10 DEF MakeRequest, Takes, Bound, Binding
<1>11. ASSUME UNCHANGED xferFrame
       PROVE  Kept
  BY <1>11
<1> HIDE DEF Kept, Working
<1> QED
  BY <1>e, <1>k, <1>w, <1>1, <1>2, <1>3, <1>4, <1>5, <1>6, <1>7, <1>8, <1>9, <1>10,
     <1>11, DevicesAssumption
     DEF Moves, BindContinue, Thread, ThreadIo

\* A bio goes from loop_make_request to the queue, from there to the hands of
\* the thread, and from there to its end.
LEMMA AcceptedStep ==
    ASSUME TypeOK, Typed', Mutexes, Bound, Requests, Counted, Accepted, Leftovers, [Next]_vars
    PROVE  Accepted'
<1> USE DEF vars, bindVars, xferVars, ioVars, fileVars, callVars, bindFrame, xferFrame,
            ioFrame, threadVars, At, Goto
<1>t. Typed
  BY TypedIs
<1>e. PICK e \in Devices \cup {NoDevice} : Moves(e) /\ \A g \in Devices \ {e} : Same(g)
  BY Elsewhere
<1>d. dropped \subseteq dropped'
  BY DroppedGrows
<1> DEFINE On(d, b) == inHand[d] = b \/ Queued(d, b)
<1>s. ASSUME NEW g, Same(g) PROVE \A b : On(g, b) => On(g, b)'
  BY <1>s, QueueSame DEF Same, SameData
<1>n. CASE e = NoDevice
  <2>1. accepted' = accepted /\ dropped' = dropped
    BY <1>n, <1>e, DevicesAssumption
       DEF Moves, Close, RegisterTransfer, UnregisterTransfer
  <2> QED
    BY <1>n, <1>e, <1>s, <2>1, DevicesAssumption DEF Accepted
<1> SUFFICES ASSUME e \in Devices
    PROVE  \A b \in accepted' \ dropped' :
               IF b \in accepted THEN On(e, b) => On(e, b)' ELSE On(e, b)'
  <2>1. ASSUME e \in Devices, NEW b \in accepted' \ dropped',
               IF b \in accepted THEN On(e, b) => On(e, b)' ELSE On(e, b)'
        PROVE  \E d \in Devices : On(d, b)'
    <3>1. CASE b \notin accepted
      BY <2>1, <3>1
    <3>2. CASE b \in accepted
      <4>1. PICK d \in Devices : On(d, b)
        BY <1>d, <3>2 DEF Accepted
      <4>2. On(d, b)'
        BY <1>e, <1>s, <2>1, <3>2, <4>1
      <4> QED
        BY <4>2
    <3> QED
      BY <3>1, <3>2
  <2> QED
    BY <1>e, <1>n, <2>1 DEF Accepted
<1>0. CASE UNCHANGED ioVars
  BY <1>0 DEF Queued
<1>1. ASSUME NEW p \in Procs, NEW n \in Nodes, e = DevOf[n], NEW f \in Files,
             SetFd(p, n, f), UNCHANGED bindFrame
      PROVE  \A b \in accepted' \ dropped' :
                 IF b \in accepted THEN On(e, b) => On(e, b)' ELSE On(e, b)'
  <2>1. queue'[e] = <<>>
    BY <1>1, <1>t, Sorts
       DEF SetFd, BeginSetFd, Entry, Locks, Calls, TakeFile, Typed, Queues
  <2>2. inHand' = inHand /\ dropped' = dropped
    BY <1>1 DEF SetFd, BeginSetFd
  <2>3. \A c : Queued(e, c) => c \in dropped
    BY <1>1, Sorts DEF SetFd, BeginSetFd, Bound, Binding, Leftovers, Left
  <2> QED
    BY <1>1, <2>2, <2>3, <1>t, Sorts, BiosAssumption
       DEF SetFd, BeginSetFd, Entry, Locks, Calls, TakeFile, Typed, Hands
<1>2. ASSUME NEW p \in Procs, NEW n \in Nodes, e = DevOf[n], NEW f \in Files,
             ChangeFd(p, n, f), UNCHANGED bindFrame
      PROVE  \A b \in accepted' \ dropped' :
                 IF b \in accepted THEN On(e, b) => On(e, b)' ELSE On(e, b)'
  <2>1. queue'[e] = Append(queue[e], Switch)
    BY <1>2, <1>t, Sorts
       DEF ChangeFd, MayChange, Entry, Locks, Calls, TakeFile, Typed, Queues
  <2>2. \A c : Queued(e, c)' <=> Queued(e, c) \/ c = Switch
    BY <1>2, <2>1, QueueAppend
  <2> QED
    BY <1>2, <2>2, <1>t, Sorts, BiosAssumption
       DEF Entry, Locks, Calls, TakeFile, Typed, Hands
<1>3. ASSUME ThreadTake(e), UNCHANGED ioFrame
      PROVE  \A b \in accepted' \ dropped' :
                 IF b \in accepted THEN On(e, b) => On(e, b)' ELSE On(e, b)'
  <2>1. queue'[e] = Tail(queue[e])
    BY <1>3, <1>t, Sorts DEF ThreadTake, HasBdev, Typed, Queues
  <2>2. \A c : Queued(e, c) <=> Queued(e, c)' \/ c = Head(queue[e])
    BY <1>3, <2>1, QueueTail DEF ThreadTake
  <2> QED
    BY <1>3, <2>2, <1>t, Sorts, BiosAssumption DEF ThreadTake, HasBdev, Typed, Hands
<1>4. ASSUME ThreadEnd(e), UNCHANGED ioFrame
      PROVE  \A b \in accepted' \ dropped' :
                 IF b \in accepted THEN On(e, b) => On(e, b)' ELSE On(e, b)'
  <2>1. queue'[e] = queue[e]
    BY <1>4, <1>t, Sorts DEF ThreadEnd, Typed, Queues
  <2> QED
    BY <1>4, <2>1, QueueSame, <1>t, Sorts, BiosAssumption DEF ThreadEnd, Typed, Hands
<1>5. ASSUME ThreadSwitch(e), UNCHANGED bindFrame
      PROVE  \A b \in accepted' \ dropped' :
                 IF b \in accepted THEN On(e, b) => On(e, b)' ELSE On(e, b)'
  <2>1. queue'[e] = Tail(queue[e])
    BY <1>5, <1>t, Sorts, InHand DEF ThreadSwitch, Typed, Queues
  <2>2. \A c : Queued(e, c) <=> Queued(e, c)' \/ c = Head(queue[e])
    BY <1>5, <2>1, QueueTail DEF ThreadSwitch
  <2> QED
    BY <1>5, <2>2, <1>t, Sorts, BiosAssumption DEF ThreadSwitch, Typed, Hands
<1>6. ASSUME NEW b \in Bios, MakeRequest(e, b), UNCHANGED ioFrame
      PROVE  \A c \in accepted' \ dropped' :
                 IF c \in accepted THEN On(e, c) => On(e, c)' ELSE On(e, c)'
  <2>1. queue'[e] = Append(queue[e], b)
    BY <1>6, <1>t, Sorts DEF MakeRequest, Takes, Typed, Queues
  <2>2. \A c : Queued(e, c)' <=> Queued(e, c) \/ c = b
    BY <1>6, <2>1, QueueAppend
  <2> QED
    BY <1>6, <2>2, <1>t, Sorts, BiosAssumption DEF MakeRequest, Takes, Typed, Hands
<1> HIDE DEF On
<1>7. ASSUME NEW n \in Nodes, Open(n) \/ Release(n)
      PROVE  UNCHANGED ioVars
  BY <1>7 DEF Open, Release
<1>8. ASSUME NEW n \in Nodes, NEW p \in Procs, ClrFd(p, n), UNCHANGED bindFrame
      PROVE  UNCHANGED ioVars
  BY <1>8 DEF ClrFd
<1>9. ASSUME NEW n \in Nodes, NEW p \in Procs, NEW f \in Files, SetFdOops(p, n, f),
             UNCHANGED bindFrame
      PROVE  UNCHANGED ioVars
  BY <1>9 DEF SetFdOops
<1>10. ASSUME NEW a \in Actors,
              SetThread(a) \/ ClrStop(a) \/ ClrEnd(a) \/ ChangeEnd(a) \/ Return(a),
              UNCHANGED bindFrame
      PROVE  UNCHANGED ioVars
  BY <1>10 DEF SetThread, ClrStop, ClrEnd, ChangeEnd, Return
<1> QED
  BY <1>e, <1>0, <1>1, <1>2, <1>3, <1>4, <1>5, <1>6, <1>7, <1>8, <1>9, <1>10,
     DevicesAssumption
     DEF Moves, BindContinue, Thread, ThreadIo, ThreadStart, ThreadExit

\* loop_unregister_transfer has still ahead of it every device that uses the
\* xfer it took off the table: a device that looked the xfer up before is
\* among them.
LEMMA LeavingStep ==
    ASSUME TypeOK, Typed', Mutexes, Bound, Requests, Counted, Unregistering, [Next]_vars
    PROVE  \A d \in Devices : Leaving(d)'
<1> USE DEF vars, bindVars, xferVars, ioVars, fileVars, callVars, bindFrame, xferFrame,
            ioFrame, threadVars, At, Goto
<1>t. Typed
  BY TypedIs
<1>e. PICK e \in Devices \cup {NoDevice} : Moves(e) /\ \A g \in Devices \ {e} : Same(g)
  BY Elsewhere
<1> DEFINE Keeps ==
              /\ known' = known
              /\ \A x \in Xfers \ known : UsesXfer(e, x)' => UsesXfer(e, x)
              /\ \A p \in Procs, x \in Xfers, d \in Devices : Leaves(p, d, x) =>
                    Leaves(p, d, x)' \/ (d = e /\ ~ UsesXfer(e, x)')
<1>n. CASE e = NoDevice
  <2>1. \A d \in Devices, x \in Xfers : UsesXfer(d, x)' => UsesXfer(d, x)
    BY <1>n, <1>e, SameInStep, DevicesAssumption DEF Same, SameData, UsesXfer
  <2>2. ASSUME UNCHANGED <<known, pc, call>> PROVE \A d \in Devices : Leaving(d)'
    BY <2>1, <2>2 DEF Unregistering, Leaving, Leaves
  <2>3. ASSUME NEW f \in Files, Close(f) PROVE \A d \in Devices : Leaving(d)'
    <3>1. \A p \in Procs, d \in Devices, x \in Xfers : Leaves(p, d, x) => Leaves(p, d, x)'
      BY <2>3, Sorts, LetsGo, FputKeeps DEF Close, Leaves
    <3> QED
      BY <2>1, <2>3, <3>1 DEF Close, Unregistering, Leaving
  <2>4. ASSUME NEW p \in Procs, NEW x \in Xfers, RegisterTransfer(p, x)
        PROVE  \A d \in Devices : Leaving(d)'
    BY <2>1, <2>4 DEF RegisterTransfer, Unregistering, Leaving, Leaves
  <2>5. ASSUME NEW p \in Procs, NEW x \in Xfers, UnregisterTransfer(p, x)
        PROVE  \A d \in Devices : Leaving(d)'
    <3>1. \A d \in Devices : Leaves(p, d, x)'
      BY <2>5, <1>t, Sorts DEF UnregisterTransfer, Leaves, Typed, Steps, CallSet
    <3>2. \A q \in Procs, d \in Devices, y \in Xfers : Leaves(q, d, y) => Leaves(q, d, y)'
      BY <2>5, <1>t, Sorts DEF UnregisterTransfer, Leaves, Typed, Steps, CallSet
    <3> QED
      BY <2>1, <2>5, <3>1, <3>2 DEF UnregisterTransfer, Unregistering, Leaving
  <2> QED
    BY <1>n, <1>e, <2>2, <2>3, <2>4, <2>5, DevicesAssumption DEF Moves
<1> SUFFICES ASSUME e \in Devices PROVE Keeps
  <2>1. \A g \in Devices \ {e} : \A x : UsesXfer(g, x)' => UsesXfer(g, x)
    BY <1>e, SameInStep DEF Same, SameData, UsesXfer
  <2>2. ASSUME Keeps, NEW g \in Devices
        PROVE  Leaving(g)'
    <3> SUFFICES ASSUME NEW x \in Xfers \ known, UsesXfer(g, x)'
                 PROVE  \E p \in Procs : Leaves(p, g, x)'
      BY <2>2 DEF Leaving
    <3>1. UsesXfer(g, x)
      BY <2>1, <2>2
    <3>2. PICK p \in Procs : Leaves(p, g, x)
      BY <3>1 DEF Unregistering, Leaving
    <3>3. Leaves(p, g, x)'
      BY <2>2, <3>2
    <3> QED
      BY <3>3
  <2> HIDE DEF Keeps
  <2> QED
    BY <1>n, <2>2
<1>0. CASE UNCHANGED <<encryption, known, mutex, pc, call>>
  BY <1>0 DEF UsesXfer, Leaves, InStep, Held, Hold
<1>1. ASSUME NEW n \in Nodes, e = DevOf[n], Release(n)
      PROVE  Keeps
  <2>1. \A x \in Xfers \ known : UsesXfer(e, x)' => UsesXfer(e, x)
    BY <1>1, <1>t, Sorts, XfersAssumption
       DEF Release, RunDown, Locks, UsesXfer, Typed, Held, InStep, MutexStates, Steps
  <2>2. \A p \in Procs, x \in Xfers, d \in Devices : Leaves(p, d, x) => Leaves(p, d, x)'
    BY <1>1, <1>t, Sorts
       DEF Release, RunDown, Locks, Calls, Leaves, Typed, Steps, CallSet
  <2>3. known' = known
    BY <1>1 DEF Release, RunDown, Locks, Calls
  <2> QED
    BY <2>1, <2>2, <2>3
<1>2. ASSUME NEW p \in Procs, NEW n \in Nodes, e = DevOf[n], ClrFd(p, n),
             UNCHANGED bindFrame
      PROVE  Keeps
  <2>1. \A x \in Xfers \ known : UsesXfer(e, x)' => UsesXfer(e, x)
    BY <1>2, <1>t, Sorts, XfersAssumption
       DEF ClrFd, RunDown, Locks, Entry, UsesXfer, Held, InStep
  <2>2. \A q \in Procs, x \in Xfers, d \in Devices : Leaves(q, d, x) => Leaves(q, d, x)'
    BY <1>2, <1>t, Sorts
       DEF ClrFd, RunDown, Locks, Calls, Entry, Leaves, Typed, Steps, CallSet
  <2>3. known' = known
    BY <1>2 DEF ClrFd, RunDown, Locks, Calls, Entry
  <2> QED
    BY <2>1, <2>2, <2>3
<1>3. ASSUME NEW p \in Procs, NEW n \in Nodes, e = DevOf[n], NEW f \in Files,
             SetFd(p, n, f), UNCHANGED bindFrame
      PROVE  Keeps
  <2>1. \A x \in Xfers \ known : UsesXfer(e, x)' => UsesXfer(e, x)
    BY <1>3, <1>t, Sorts, XfersAssumption
       DEF SetFd, BeginSetFd, Entry, Locks, UsesXfer, Held, InStep
  <2>2. \A q \in Procs, x \in Xfers, d \in Devices : Leaves(q, d, x) => Leaves(q, d, x)'
    BY <1>3, <1>t, Sorts
       DEF SetFd, BeginSetFd, Entry, Locks, Calls, TakeFile, Leaves, Typed, Steps,
           CallSet
  <2>3. known' = known
    BY <1>3 DEF SetFd, BeginSetFd, Entry, Locks, Calls, TakeFile
  <2> QED
    BY <2>1, <2>2, <2>3
<1>4. ASSUME NEW p \in Procs, NEW n \in Nodes, e = DevOf[n], NEW f \in Files,
             SetFdOops(p, n, f), UNCHANGED bindFrame
      PROVE  Keeps
  <2>1. \A x \in Xfers \ known : UsesXfer(e, x)' => UsesXfer(e, x)
    BY <1>4, <1>t, Sorts, XfersAssumption
       DEF SetFdOops, BeginSetFd, Entry, Locks, UsesXfer, Held, InStep
  <2>2. \A q \in Procs, x \in Xfers, d \in Devices : Leaves(q, d, x) => Leaves(q, d, x)'
    BY <1>4, <1>t, Sorts
       DEF SetFdOops, BeginSetFd, Entry, Locks, Calls, TakeFile, Leaves, Typed, Steps,
           CallSet
  <2>3. known' = known
    BY <1>4 DEF SetFdOops, BeginSetFd, Entry, Locks, Calls, TakeFile
  <2> QED
    BY <2>1, <2>2, <2>3
<1>5. ASSUME NEW p \in Procs, NEW n \in Nodes, e = DevOf[n], NEW f \in Files,
             ChangeFd(p, n, f), UNCHANGED bindFrame
      PROVE  Keeps
  <2>1. \A x \in Xfers \ known : UsesXfer(e, x)' => UsesXfer(e, x)
    BY <1>5, <1>t, Sorts, XfersAssumption
       DEF ChangeFd, Entry, Locks, UsesXfer, Held, InStep
  <2>2. \A q \in Procs, x \in Xfers, d \in Devices : Leaves(q, d, x) => Leaves(q, d, x)'
    BY <1>5, <1>t, Sorts
       DEF ChangeFd, MayChange, Entry, Locks, Calls, TakeFile, Leaves, Typed, Steps,
           CallSet
  <2>3. known' = known
    BY <1>5 DEF ChangeFd, MayChange, Entry, Locks, Calls, TakeFile
  <2> QED
    BY <2>1, <2>2, <2>3
<1>6. ASSUME NEW p \in Procs, NEW n \in Nodes, e = DevOf[n], SetStatusPlain(p, n),
             UNCHANGED xferFrame
      PROVE  Keeps
  <2>1. \A x \in Xfers \ known : UsesXfer(e, x)' => UsesXfer(e, x)
    BY <1>6, <1>t, Sorts, XfersAssumption
       DEF SetStatusPlain, ReleaseXfer, UsesXfer, Typed, Encryptions, Held, InStep
  <2>2. \A q \in Procs, x \in Xfers, d \in Devices : Leaves(q, d, x) => Leaves(q, d, x)'
    BY <1>6, <1>t, Sorts
       DEF SetStatusPlain, Entry, ReleaseXfer, Released, SetAutoclear, Leaves, Typed,
           Steps, CallSet
  <2>3. known' = known
    BY <1>6 DEF SetStatusPlain, Entry, ReleaseXfer, Released, SetAutoclear
  <2> QED
    BY <2>1, <2>2, <2>3
<1>7. ASSUME NEW p \in Procs, NEW n \in Nodes, e = DevOf[n], NEW x \in Xfers,
             SetStatus(p, n, x), UNCHANGED xferFrame
      PROVE  Keeps
  <2>1. \A y \in Xfers \ known : UsesXfer(e, y)' => UsesXfer(e, y)
    BY <1>7, <1>t, Sorts, XfersAssumption
       DEF SetStatus, Locks, Calls, UsesXfer, Typed, Held, Hold, InStep, CallSet
  <2>2. \A q \in Procs, y \in Xfers, d \in Devices : Leaves(q, d, y) => Leaves(q, d, y)'
    BY <1>7, <1>t, Sorts
       DEF SetStatus, Entry, Locks, Calls, Released, Leaves, Typed, Steps, CallSet
  <2>3. known' = known
    BY <1>7 DEF SetStatus, Entry, Locks, Calls, Released
  <2> QED
    BY <2>1, <2>2, <2>3
<1>8. ASSUME NEW a \in Actors, e = call[a].dev, mutex[e] = a, SetThread(a),
             UNCHANGED bindFrame
      PROVE  Keeps
  <2>1. \A x \in Xfers \ known : UsesXfer(e, x)' => UsesXfer(e, x)
    <3>1. mutex'[e] = NoActor \/ (pc'[a] = "module_put" /\ mutex'[e] = a)
      BY <1>8, <1>t, Sorts, LetsGo, FputKeeps DEF SetThread, Unlocks, Typed, MutexStates
    <3>2. ~ InStep(e, {"st_init"})' /\ encryption' = encryption
      BY <1>8, <3>1 DEF SetThread, InStep, Held
    <3> QED
      BY <3>2 DEF UsesXfer
  <2>2. \A p \in Procs, x \in Xfers, d \in Devices : Leaves(p, d, x) => Leaves(p, d, x)'
    BY <1>8, <1>t, Sorts, LetsGo, FputKeeps
       DEF SetThread, Unlocks, Returns, Leaves, Typed, Steps, CallSet
  <2>3. known' = known
    BY <1>8 DEF SetThread, Unlocks, Returns
  <2> QED
    BY <2>1, <2>2, <2>3
<1>9. ASSUME NEW a \in Actors, e = call[a].dev, mutex[e] = a, ClrStop(a),
             UNCHANGED bindFrame
      PROVE  Keeps
  <2>1. \A x \in Xfers \ known : UsesXfer(e, x)' => UsesXfer(e, x)
    BY <1>9, <1>t, Sorts, XfersAssumption DEF ClrStop, ReleaseXfer, UsesXfer, InStep
  <2>2. \A p \in Procs, x \in Xfers, d \in Devices : Leaves(p, d, x) => Leaves(p, d, x)'
    BY <1>9, <1>t, Sorts DEF ClrStop, ReleaseXfer, Leaves, Typed, Steps, CallSet
  <2>3. known' = known
    BY <1>9 DEF ClrStop, ReleaseXfer
  <2> QED
    BY <2>1, <2>2, <2>3
<1>10. ASSUME NEW a \in Actors, e = call[a].dev, mutex[e] = a, ClrEnd(a),
              UNCHANGED bindFrame
      PROVE  Keeps
  <2>1. \A x \in Xfers \ known : UsesXfer(e, x)' => UsesXfer(e, x)
    BY <1>10, <1>t, Sorts, XfersAssumption, LetsGo, FputKeeps
       DEF ClrEnd, UsesXfer, InStep, Hands, Steps
  <2>2. \A p \in Procs, x \in Xfers, d \in Devices : Leaves(p, d, x) => Leaves(p, d, x)'
    BY <1>10, <1>t, Sorts, LetsGo, FputKeeps DEF ClrEnd, Leaves, Typed, Steps, CallSet
  <2>3. known' = known
    BY <1>10 DEF ClrEnd
  <2> QED
    BY <2>1, <2>2, <2>3
<1>11. ASSUME NEW a \in Actors, e = call[a].dev, mutex[e] = a, ChangeEnd(a),
              UNCHANGED bindFrame
      PROVE  Keeps
  <2>1. \A x \in Xfers \ known : UsesXfer(e, x)' => UsesXfer(e, x)
    BY <1>11, <1>t, Sorts, XfersAssumption, LetsGo, FputKeeps
       DEF ChangeEnd, UsesXfer, InStep, Hands, Steps, CallSet
  <2>2. \A p \in Procs, x \in Xfers, d \in Devices : Leaves(p, d, x) => Leaves(p, d, x)'
    BY <1>11, <1>t, Sorts, LetsGo, FputKeeps
       DEF ChangeEnd, Leaves, Typed, Steps, CallSet
  <2>3. known' = known
    BY <1>11 DEF ChangeEnd
  <2> QED
    BY <2>1, <2>2, <2>3
<1>12. ASSUME NEW a \in Actors, e = call[a].dev, mutex[e] = a, Return(a),
              UNCHANGED bindFrame
      PROVE  Keeps
  <2>1. \A x \in Xfers \ known : UsesXfer(e, x)' => UsesXfer(e, x)
    BY <1>12, <1>t, Sorts, XfersAssumption
       DEF Return, Unlocks, Returns, UsesXfer, Held, InStep
  <2>2. \A p \in Procs, x \in Xfers, d \in Devices : Leaves(p, d, x) => Leaves(p, d, x)'
    BY <1>12, <1>t, Sorts
       DEF Return, Unlocks, Returns, PutsModule, Leaves, Typed, Steps, CallSet
  <2>3. known' = known
    BY <1>12 DEF Return, Unlocks, Returns, PutsModule
  <2> QED
    BY <2>1, <2>2, <2>3
<1>13. ASSUME NEW a \in Actors, e = call[a].dev, mutex[e] = a, SetStatusInit(a),
              UNCHANGED xferFrame
      PROVE  Keeps
  <2>1. \A x \in Xfers \ known : UsesXfer(e, x)' => UsesXfer(e, x)
    BY <1>13, <1>t, Sorts, XfersAssumption, InHand
       DEF SetStatusInit, Unlocks, Returns, UsesXfer, Typed, Encryptions, Held, Hold,
           InStep, MutexStates, Queues
  <2>2. \A p \in Procs, x \in Xfers, d \in Devices : Leaves(p, d, x) => Leaves(p, d, x)'
    BY <1>13, <1>t, Sorts, InHand
       DEF SetStatusInit, Unlocks, Returns, SetAutoclear, Leaves, Typed, Steps, CallSet
  <2>3. known' = known
    BY <1>13 DEF SetStatusInit, Unlocks, Returns, SetAutoclear
  <2> QED
    BY <2>1, <2>2, <2>3
<1>14. ASSUME NEW a \in Actors, Visit(a, e), UNCHANGED xferFrame
      PROVE  Keeps
  <2>1. \A x \in Xfers \ known : UsesXfer(e, x)' => UsesXfer(e, x)
    BY <1>14, <1>t, Sorts, XfersAssumption
       DEF Visit, MayVisit, ReleaseXfer, UsesXfer, Typed, Encryptions, Held, InStep
  <2>2. ASSUME NEW p \in Procs, NEW x \in Xfers, NEW d, Leaves(p, d, x)
        PROVE  Leaves(p, d, x)' \/ (d = e /\ ~ UsesXfer(e, x)')
    <3>1. CASE p # a
      BY <1>14, <2>2, <3>1, <1>t, Sorts
         DEF Visit, Returns, Leaves, Typed, Steps, CallSet
    <3>2. CASE p = a /\ d # e
      BY <1>14, <2>2, <3>2, <1>t, Sorts
         DEF Visit, Returns, Leaves, Typed, Steps, CallSet, CallType
    <3>3. CASE p = a /\ d = e
      <4>1. ~ Held(e)' /\ encryption'[e] # x
        BY <1>14, <2>2, <3>3, <1>t, XfersAssumption
           DEF Visit, MayVisit, ReleaseXfer, Leaves, Held, Typed, Encryptions
      <4> QED
        BY <3>3, <4>1 DEF UsesXfer, InStep
    <3> QED
      BY <3>1, <3>2, <3>3
  <2>3. known' = known
    BY <1>14 DEF Visit, MayVisit, ReleaseXfer, Returns
  <2> QED
    BY <2>1, <2>2, <2>3
<1>15. ASSUME ThreadSwitch(e), UNCHANGED bindFrame
      PROVE  Keeps
  <2>1. \A x \in Xfers \ known : UsesXfer(e, x)' => UsesXfer(e, x)
    BY <1>15, <1>t, Sorts, XfersAssumption, InHand DEF ThreadSwitch, UsesXfer, InStep
  <2>2. \A p \in Procs, x \in Xfers, d \in Devices : Leaves(p, d, x) => Leaves(p, d, x)'
    BY <1>15, <1>t, Sorts, InHand DEF ThreadSwitch, Leaves, Typed, Steps, CallSet
  <2>3. known' = known
    BY <1>15 DEF ThreadSwitch
  <2> QED
    BY <2>1, <2>2, <2>3
<1> HIDE DEF Keeps
<1> QED
  BY <1>e, <1>0, <1>1, <1>2, <1>3, <1>4, <1>5, <1>6, <1>7, <1>8, <1>9, <1>10, <1>11,
     <1>12, <1>13, <1>14, <1>15, DevicesAssumption
     DEF Moves, BindContinue, Thread, Open

\* Every set of numbers has a least one.
LEMMA LeastExists ==
    ASSUME NEW I \in SUBSET Nat, I # {}
    PROVE  \E x \in I : \A y \in I : x =< y
<1> DEFINE Less == {pair \in Nat \X Nat : pair[1] < pair[2]}
<1>1. IsWellFoundedOn(Less, Nat)
  BY NatLessThanWellFounded DEF OpToRel
<1>2. PICK x \in I : \A y \in I : <<y, x>> \notin Less
  <2> HIDE DEF Less
  <2> QED
    BY <1>1, WFMin
<1>3. \A y \in I : ~ (y < x)
  BY <1>2
<1> QED
  BY <1>3

\* The walk of the recursion check, its first m steps, and where it ends.
Last == Cardinality(Devices)
Follow(d, g) ==
    IF g \in Nodes /\ DevOf[g] # d
        /\ state[DevOf[g]] # "unbound" THEN backing[DevOf[g]] ELSE g
Walk(at, d, f, m) == at = [k \in 0 .. m |-> IF k = 0 THEN f ELSE Follow(d, at[k - 1])]

\* The walk has as many steps as there are devices.
LEMMA LastIs == Last \in Nat
BY DevicesAssumption, FS_CardinalityType DEF Last

\* There is a walk of every length from every file.
LEMMA WalkExists ==
    ASSUME NEW d, NEW f, NEW n \in Nat
    PROVE  \E at : Walk(at, d, f, n)
<1> DEFINE I == {m \in Nat : ~ \E at : Walk(at, d, f, m)}
<1> SUFFICES ASSUME I # {} PROVE FALSE
  OBVIOUS
<1>1. PICK m \in I : \A j \in I : m =< j
  <2> HIDE DEF I
  <2>1. I \in SUBSET Nat
    BY DEF I
  <2> QED
    BY <2>1, LeastExists
<1>2. CASE m = 0
  <2> DEFINE at == [k \in 0 .. 0 |-> f]
  <2>1. Walk(at, d, f, 0)
    BY DEF Walk
  <2> QED
    BY <1>2, <2>1
<1>3. CASE m # 0
  <2>1. m \in Nat /\ m - 1 \in Nat /\ ~ (m =< m - 1)
    BY <1>3
  <2>2. PICK at : Walk(at, d, f, m - 1)
    BY <1>1, <2>1
  <2> DEFINE next == [k \in 0 .. m |-> IF k = m THEN Follow(d, at[m - 1]) ELSE at[k]]
  <2>3. \A k \in 0 .. m - 1 : at[k] = IF k = 0 THEN f ELSE Follow(d, at[k - 1])
    BY <2>2 DEF Walk
  <2>4. ASSUME NEW k \in 0 .. m
        PROVE  next[k] = IF k = 0 THEN f ELSE Follow(d, next[k - 1])
    <3>1. CASE k = m
      BY <2>1, <3>1
    <3>2. CASE k = 0
      BY <2>1, <2>3, <3>2
    <3>3. CASE k # m /\ k # 0
      <4>1. k \in 0 .. m - 1 /\ k - 1 \in 0 .. m /\ k - 1 # m
        BY <3>3
      <4>2. next[k] = at[k] /\ next[k - 1] = at[k - 1]
        BY <4>1
      <4> QED
        BY <2>3, <3>3, <4>1, <4>2
    <3> QED
      BY <3>1, <3>2, <3>3
  <2>5. Walk(next, d, f, m)
    <3>1. next = [k \in 0 .. m |-> next[k]]
      OBVIOUS
    <3> HIDE DEF next
    <3> QED
      BY <2>4, <3>1 DEF Walk
  <2> QED
    BY <1>1, <2>1, <2>5
<1> QED
  BY <1>2, <1>3

\* Below is where a walk ends.
LEMMA BelowIs ==
    ASSUME NEW d, NEW f
    PROVE  \E at : Walk(at, d, f, Last) /\ Below(d, f) = at[Last]
<1> DEFINE at == CHOOSE b : Walk(b, d, f, Last)
<1>1. Walk(at, d, f, Last)
  BY LastIs, WalkExists
<1>2. Below(d, f) = at[Last]
  BY Zenon DEF Below, Walk, Follow, Last
<1> QED
  BY <1>1, <1>2

\* Where a walk stands still, it has come to its end.
LEMMA WalkStops ==
    ASSUME NEW d, NEW f, NEW at, Walk(at, d, f, Last), NEW k \in 0 .. Last,
           Follow(d, at[k]) = at[k]
    PROVE  at[Last] = at[k]
<1> DEFINE I == {j \in k .. Last : at[j] # at[k]}
<1> SUFFICES ASSUME I # {} PROVE FALSE
  BY LastIs
<1>1. I \in SUBSET Nat
  BY LastIs
<1>2. PICK j \in I : \A i \in I : j =< i
  <2> HIDE DEF I
  <2> QED
    BY <1>1, LeastExists
<1>3. j # k /\ j \in 1 .. Last /\ j - 1 \in k .. Last /\ ~ (j =< j - 1)
  BY <1>2, LastIs
<1>4. at[j - 1] = at[k]
  BY <1>2, <1>3
<1>5. at[j] = Follow(d, at[j - 1])
  BY <1>3, LastIs DEF Walk
<1> QED
  BY <1>2, <1>4, <1>5

\* A set of devices that contains whatever its members stand on.
ClosedBelow(W) == \A w \in W : backing[w] \in Nodes => DevOf[backing[w]] \in W

\* The check of loop_set_fd: what its walk has passed is such a set, and the
\* new device is not in it.
LEMMA CheckedBelow ==
    ASSUME TypeOK, NEW d \in Devices, NEW f \in Nodes, MayBack(d, f)
    PROVE  \E W \in SUBSET Devices : DevOf[f] \in W /\ d \notin W /\ ClosedBelow(W)
<1>1. PICK at : Walk(at, d, f, Last) /\ Below(d, f) = at[Last]
  BY BelowIs
<1> DEFINE W == {w \in Devices : \E k \in 0 .. Last : at[k] \in Nodes /\ DevOf[at[k]] = w}
<1>2. at[Last] \notin Nodes
  BY <1>1, FilesAssumption DEF MayBack
<1>3. ASSUME NEW k \in 0 .. Last, at[k] \in Nodes
      PROVE  /\ DevOf[at[k]] # d /\ k + 1 \in 0 .. Last
             /\ at[k + 1] = backing[DevOf[at[k]]]
  <2>1. Follow(d, at[k]) # at[k]
    BY <1>1, <1>2, <1>3, WalkStops
  <2>2. DevOf[at[k]] # d /\ Follow(d, at[k]) = backing[DevOf[at[k]]]
    BY <2>1 DEF Follow
  <2>3. k # Last
    BY <1>2, <1>3
  <2>4. k + 1 \in 0 .. Last /\ k + 1 # 0 /\ (k + 1) - 1 = k
    BY <2>3, LastIs
  <2>5. at[k + 1] = Follow(d, at[k])
    BY <1>1, <2>4 DEF Walk
  <2> QED
    BY <2>2, <2>4, <2>5
<1>4. DevOf[f] \in W
  <2>1. 0 \in 0 .. Last /\ at[0] = f
    BY <1>1, LastIs DEF Walk
  <2> QED
    BY <2>1, DevicesAssumption
<1>5. d \notin W
  BY <1>3
<1>6. ClosedBelow(W)
  BY <1>3, DevicesAssumption DEF ClosedBelow
<1> QED
  BY <1>4, <1>5, <1>6

\* Putting a device on top of a set closed that way makes no circle.
LEMMA OnTop ==
    ASSUME NoRecursion, NEW e \in Devices,
           \A g \in Devices \ {e} : backing'[g] = backing[g],
           NEW W \in SUBSET Devices, ClosedBelow(W), e \notin W, DevOf[backing'[e]] \in W
    PROVE  NoRecursion'
<1> SUFFICES ASSUME NEW S \in SUBSET Devices, S # {}
             PROVE  \E d \in S : Above(d)' \cap S = {}
  BY DEF NoRecursion
<1>1. \A d, g : g \in Above(d)' => g \in Above(d) \/ (g = e /\ d \in W)
  BY DEF Above
<1>2. CASE S \ W # {}
  <2>1. PICK d \in S \ W : Above(d) \cap (S \ W) = {}
    BY <1>2 DEF NoRecursion
  <2>2. \A g \in W : g \notin Above(d)
    BY <2>1 DEF Above, ClosedBelow
  <2> QED
    BY <1>1, <2>1, <2>2
<1>3. CASE S \ W = {}
  <2>1. PICK d \in S : Above(d) \cap S = {}
    BY DEF NoRecursion
  <2> QED
    BY <1>1, <1>3, <2>1
<1> QED
  BY <1>2, <1>3

\* A step that puts no device on top of another makes no circle.
LEMMA NothingNewBelow ==
    ASSUME NoRecursion, NEW e, \A g \in Devices \ {e} : backing'[g] = backing[g],
           e \in Devices => backing'[e] = backing[e] \/ backing'[e] \notin Nodes
    PROVE  NoRecursion'
<1>1. \A d : Above(d)' \subseteq Above(d)
  BY DEF Above
<1> SUFFICES ASSUME NEW S \in SUBSET Devices, S # {}
             PROVE  \E d \in S : Above(d)' \cap S = {}
  BY DEF NoRecursion
<1>2. PICK d \in S : Above(d) \cap S = {}
  BY DEF NoRecursion
<1> QED
  BY <1>1, <1>2

\* loop_set_fd puts a device only on top of a file that passed the check,
\* under its own mutex alone; loop_change_fd takes regular files only.
LEMMA NoRecursionStep ==
    ASSUME TypeOK, Mutexes, Bound, Requests, Counted, NoRecursion, [Next]_vars
    PROVE  NoRecursion'
<1> USE DEF vars, bindVars, xferVars, ioVars, fileVars, callVars, bindFrame, xferFrame,
            ioFrame, threadVars, At, Goto
<1>t. Typed
  BY TypedIs
<1>e. PICK e \in Devices \cup {NoDevice} : Moves(e) /\ \A g \in Devices \ {e} : Same(g)
  BY Elsewhere
<1> DEFINE Unchanged == backing'[e] = backing[e] \/ backing'[e] \notin Nodes
           Checked == \E W \in SUBSET Devices :
                         DevOf[backing'[e]] \in W /\ e \notin W /\ ClosedBelow(W)
<1>n. CASE e = NoDevice
  BY <1>n, <1>e, DevicesAssumption, NothingNewBelow DEF Same, SameData
<1> SUFFICES ASSUME e \in Devices PROVE Unchanged \/ Checked
  <2>1. \A g \in Devices \ {e} : backing'[g] = backing[g]
    BY <1>e DEF Same, SameData
  <2>2. ASSUME e \in Devices, Unchanged PROVE NoRecursion'
    BY <2>1, <2>2, NothingNewBelow
  <2>3. ASSUME e \in Devices, Checked PROVE NoRecursion'
    BY <2>1, <2>3, OnTop
  <2> HIDE DEF Unchanged, Checked
  <2> QED
    BY <1>n, <2>2, <2>3
<1>0. CASE UNCHANGED backing
  BY <1>0
<1>1. ASSUME NEW p \in Procs, NEW n \in Nodes, e = DevOf[n], NEW f \in Files,
             SetFd(p, n, f), UNCHANGED bindFrame
      PROVE  Unchanged \/ Checked
  <2>1. backing'[e] = f /\ MayBack(e, f)
    BY <1>1, <1>t, Sorts DEF SetFd, Typed, Backings
  <2>2. CASE f \in Nodes
    BY <2>1, <2>2, CheckedBelow
  <2>3. CASE f \notin Nodes
    BY <2>1, <2>3
  <2> QED
    BY <2>2, <2>3
<1>2. ASSUME NEW a \in Actors, e = call[a].dev, mutex[e] = a, SetThread(a),
             UNCHANGED bindFrame
      PROVE  Unchanged \/ Checked
  BY <1>2, <1>t, Sorts, FilesAssumption
     DEF SetThread, Unlocks, Returns, Files, Typed, Backings
<1>3. ASSUME NEW a \in Actors, e = call[a].dev, mutex[e] = a, ClrStop(a),
             UNCHANGED bindFrame
      PROVE  Unchanged \/ Checked
  BY <1>3, <1>t, Sorts, FilesAssumption DEF ClrStop, ReleaseXfer, Files, Typed, Backings
<1>4. ASSUME ThreadSwitch(e), UNCHANGED bindFrame
      PROVE  Unchanged \/ Checked
  BY <1>4, <1>t, Sorts, FilesAssumption, InHand DEF ThreadSwitch, Files, Typed, Backings
<1> HIDE DEF Unchanged, Checked
<1>5. ASSUME NEW n \in Nodes, Open(n) \/ Release(n)
      PROVE  UNCHANGED backing
  BY <1>5 DEF Open, Release
<1>6. ASSUME NEW n \in Nodes, NEW p \in Procs, ClrFd(p, n), UNCHANGED bindFrame
      PROVE  UNCHANGED backing
  BY <1>6 DEF ClrFd
<1>7. ASSUME NEW n \in Nodes, NEW p \in Procs, NEW f \in Files,
             SetFdOops(p, n, f) \/ ChangeFd(p, n, f), UNCHANGED bindFrame
      PROVE  UNCHANGED backing
  BY <1>7 DEF SetFdOops, ChangeFd
<1>8. ASSUME NEW a \in Actors, ClrEnd(a) \/ ChangeEnd(a) \/ Return(a),
             UNCHANGED bindFrame
      PROVE  UNCHANGED backing
  BY <1>8 DEF ClrEnd, ChangeEnd, Return
<1> QED
  BY <1>e, <1>0, <1>1, <1>2, <1>3, <1>4, <1>5, <1>6, <1>7, <1>8, DevicesAssumption
     DEF Moves, BindContinue, Thread, ThreadIo

\* The invariant holds at first.
LEMMA Initially == Init => IInv
<1> SUFFICES ASSUME Init PROVE IInv
  OBVIOUS
<1>1. TypeOK
  BY FilesAssumption, NoCallTyped DEF Init, TypeOK, Files, CallType
<1>2. \A d \in Devices : ~ Held(d) /\ \A s : ~ InStep(d, s)
  BY DEF Init, Held, InStep
<1>3. Mutexes
  BY <1>2 DEF Init, Mutexes, InCalls, Holders, Referenced, Holding, Actors
<1>4. Bound
  BY <1>2, FilesAssumption DEF Init, Bound, Binding, Calling
<1>5. \A d \in Devices : \A c : ~ Queued(d, c)
  BY DEF Init, Queued
<1>6. Requests
  BY <1>5, BiosAssumption DEF Init, Requests, Asked, SwitchOnce
<1>7. Accepted /\ Leftovers
  BY <1>5 DEF Init, Accepted, Leftovers, Left
<1>8. Counted
  <2> SUFFICES ASSUME NEW f \in Files
               PROVE  refs[f] = Cardinality(Backed(f)) + Cardinality(InCall(f))
                                + IF f \in opened THEN 1 ELSE 0
    BY DEF Counted
  <2>1. Backed(f) = {} /\ InCall(f) = {}
    BY <1>2, FilesAssumption DEF Init, Backed, InCall
  <2> QED
    BY <2>1, FS_EmptySet DEF Init
<1>9. ModuleCounted
  <2>1. InUse = {} /\ Binds = {}
    BY <1>2 DEF Init, InUse, Binds
  <2> QED
    BY <2>1, FS_EmptySet DEF Init, ModuleCounted
<1>10. XfersCounted
  <2> SUFFICES ASSUME NEW x \in Xfers
               PROVE  xferRefs[x] = Cardinality(Encrypted(x)) + Cardinality(Trying(x))
    BY DEF XfersCounted
  <2>1. Encrypted(x) = {} /\ Trying(x) = {}
    BY <1>2, XfersAssumption DEF Init, Encrypted, Trying
  <2> QED
    BY <2>1, FS_EmptySet DEF Init
<1>11. Unregistering
  BY <1>2, XfersAssumption DEF Init, Unregistering, Transferred, Leaving, UsesXfer
<1> QED
  BY <1>1, <1>3, <1>4, <1>6, <1>7, <1>8, <1>9, <1>10, <1>11 DEF IInv

\* One step of any kind preserves the whole invariant.
LEMMA Inductive == IInv /\ [Next]_vars => IInv'
<1> SUFFICES ASSUME IInv, [Next]_vars PROVE IInv'
  OBVIOUS
<1>0. /\ TypeOK /\ Mutexes /\ Bound /\ Requests /\ Accepted /\ Leftovers
      /\ Counted /\ ModuleCounted /\ XfersCounted /\ Unregistering
  BY DEF IInv
<1>1. Typed'
  BY <1>0, TypeStep
<1>2. TypeOK'
  BY <1>1
     DEF TypeOK, Typed, CallType, States, Backings, FlagSets, Encryptions, Transfers,
         DeviceCounts, MutexStates, Threads, Queues, Hands, FileCounts, XferCounts, Steps,
         CallSet
<1>3. Mutexes'
  BY <1>0, MutexesStep
<1>4. Bound'
  BY <1>0, <1>1, BindingStep, CallingStep DEF Bound
<1>5. Requests' /\ Accepted' /\ Leftovers'
  BY <1>0, <1>1, RequestsStep, AcceptedStep, LeftoversStep
<1>6. Counted' /\ ModuleCounted' /\ XfersCounted'
  BY <1>0, <1>1, CountedStep, ModuleStep, XfersStep
<1>7. Unregistering'
  BY <1>0, <1>1, TransferredStep, LeavingStep DEF Unregistering
<1> QED
  BY <1>2, <1>3, <1>4, <1>5, <1>6, <1>7 DEF IInv

\* The invariant holds in every reachable state.
THEOREM Invariance == Spec => []IInv
BY Initially, Inductive, PTL DEF Spec

\* The variables keep their types, whatever calls, threads and last fputs run side
\* by side; in particular the thread never takes the magic bio of a switch for I/O
\* (loop_handle_bio).  That no call meets a NULL file is not claimed: SetFdOops does.
THEOREM TypesAreRight == Spec => []TypeOK
<1>1. IInv => TypeOK
  BY DEF IInv
<1> QED
  BY <1>1, Invariance, PTL

\* loop_make_request, loop_thread: an accepted bio is on the queue or in the
\* hands of a device that has a thread which will still come to it, unless
\* kthread_stop caught its thread before it began; a thread that did begin ends
\* only after its last bio.
THEOREM AcceptedBiosAreServed == Spec => []AcceptedBiosServed
<1>1. IInv => AcceptedBiosServed
  <2> SUFFICES ASSUME IInv, NEW b \in accepted \ dropped
               PROVE  \E d \in Devices :
                         /\ thread[d] \in {"woken", "running", "stopping"}
                         /\ inHand[d] = b \/ \E i \in DOMAIN queue[d] : queue[d][i] = b
    BY DEF AcceptedBiosServed
  <2>1. PICK d \in Devices : inHand[d] = b \/ Queued(d, b)
    BY DEF IInv, Accepted
  <2>2. b # NoBio
    BY BiosAssumption DEF IInv, TypeOK
  <2>3. thread[d] \notin {"none", "exited"}
    BY <2>1, <2>2 DEF IInv, Bound, Binding, Leftovers, Left
  <2> QED
    BY <2>1, <2>3 DEF IInv, TypeOK, Queued
<1> QED
  BY <1>1, Invariance, PTL

\* A thread that runs has a file.
LEMMA ThreadHasFile ==
    ASSUME IInv, NEW d \in Devices, thread[d] \in {"running", "stopping"}
    PROVE  backing[d] \in Files
<1>1. state[d] # "unbound"
  BY DEF IInv, Bound, Binding
<1>2. CASE state[d] = "bound"
  BY <1>2 DEF IInv, Bound, Binding
<1>3. CASE state[d] = "rundown"
  <2>1. InStep(d, {"clr_stop"})
    BY <1>3 DEF IInv, Bound, Binding, Calling, InStep
  <2> QED
    BY <2>1 DEF IInv, Bound, Calling, InStep
<1> QED
  BY <1>1, <1>2, <1>3 DEF IInv, TypeOK

\* The thread of a device works on a file that is referenced, whatever
\* loop_change_fd and loop_clr_fd do beside it.
THEOREM BackingIsHeld == Spec => []BackingHeld
<1>1. IInv => BackingHeld
  <2> SUFFICES ASSUME IInv, NEW d \in Devices, thread[d] \in {"running", "stopping"}
               PROVE  backing[d] # NoFile /\ refs[backing[d]] > 0
    BY DEF BackingHeld
  <2>1. backing[d] \in Files
    BY ThreadHasFile
  <2>2. refs[backing[d]] \in Int /\ refs[backing[d]] >= 1
    BY <2>1, RefsPositive DEF IInv
  <2> QED
    BY <2>1, <2>2, FilesAssumption
<1> QED
  BY <1>1, Invariance, PTL

\* A write the driver accepted reaches only a file that was opened for
\* writing.
THEOREM WritesReachWritableFiles == Spec => []WritesReachWritable
<1>1. IInv => WritesReachWritable
  <2> SUFFICES ASSUME IInv, NEW d \in Devices, inHand[d] \in Writes
               PROVE  backing[d] \in Writable
    BY DEF WritesReachWritable
  <2>1. inHand[d] # NoBio
    BY BiosAssumption
  <2>2. thread[d] \in {"running", "stopping"}
    BY <2>1 DEF IInv, TypeOK, Bound, Binding
  <2>3. backing[d] # NoFile
    BY <2>2, ThreadHasFile, FilesAssumption
  <2>4. "READ_ONLY" \notin flags[d]
    BY DEF IInv, Requests, Asked
  <2> QED
    BY <2>3, <2>4 DEF IInv, Bound, Binding
<1> QED
  BY <1>1, Invariance, PTL

\* Whenever no call is under way each file, each xfer and the module have
\* exactly one reference for each use: no path through the calls, their errors
\* included, loses or forgets one.
THEOREM ReferencesBalance == Spec => []ReferencesBalanced
<1>1. IInv => ReferencesBalanced
  <2> SUFFICES ASSUME IInv, \A a \in Actors : At(a, "idle")
               PROVE  /\ \A f \in Files :
                             refs[f] = Cardinality({d \in Devices : backing[d] = f})
                                                  + IF f \in opened THEN 1 ELSE 0
                      /\ \A x \in Xfers :
                             xferRefs[x]
                                 = Cardinality({d \in Devices : encryption[d] = x})
                      /\ moduleRefs = Cardinality({d \in Devices : state[d] # "unbound"})
    BY DEF ReferencesBalanced
  <2>1. \A d \in Devices : \A s : ~ InStep(d, s)
    <3>1. \A d \in Devices : ~ Held(d)
      <4>1. \A d \in Devices :
                Held(d) => mutex[d] \in Actors /\ pc[mutex[d]] \in Holding
        BY DEF IInv, TypeOK, Mutexes, Holders, Held
      <4> QED
        BY <4>1 DEF At, Holding
    <3> QED
      BY <3>1 DEF InStep
  <2>2. ASSUME NEW f \in Files
        PROVE  refs[f] = Cardinality({d \in Devices : backing[d] = f})
                   + IF f \in opened THEN 1 ELSE 0
    <3>1. InCall(f) = {}
      BY <2>1 DEF InCall
    <3>2. Cardinality(InCall(f)) = 0
      BY <3>1, FS_EmptySet
    <3>3. Cardinality(Backed(f)) \in Nat
      BY DevicesAssumption, FS_Subset, FS_CardinalityType DEF Backed
    <3>4. refs[f] = Cardinality(Backed(f)) + Cardinality(InCall(f))
              + IF f \in opened THEN 1 ELSE 0
      BY DEF IInv, Counted
    <3>5. refs[f] = Cardinality(Backed(f)) + IF f \in opened THEN 1 ELSE 0
      BY <3>2, <3>3, <3>4
    <3> QED
      BY <3>5 DEF Backed
  <2>3. ASSUME NEW x \in Xfers
        PROVE  xferRefs[x] = Cardinality({d \in Devices : encryption[d] = x})
    <3>1. Trying(x) = {}
      BY <2>1 DEF Trying
    <3>2. Cardinality(Trying(x)) = 0
      BY <3>1, FS_EmptySet
    <3>3. Cardinality(Encrypted(x)) \in Nat
      BY DevicesAssumption, FS_Subset, FS_CardinalityType DEF Encrypted
    <3>4. xferRefs[x] = Cardinality(Encrypted(x))
      BY <3>2, <3>3 DEF IInv, XfersCounted
    <3> QED
      BY <3>4 DEF Encrypted
  <2>4. moduleRefs = Cardinality({d \in Devices : state[d] # "unbound"})
    <3>1. Binds = {}
      BY <2>1 DEF Binds
    <3>2. Cardinality(Binds) = 0
      BY <3>1, FS_EmptySet
    <3>3. Cardinality(InUse) \in Nat
      BY DevicesAssumption, FS_Subset, FS_CardinalityType DEF InUse
    <3>4. moduleRefs = Cardinality(InUse)
      BY <3>2, <3>3 DEF IInv, ModuleCounted
    <3> QED
      BY <3>4 DEF InUse
  <2> QED
    BY <2>2, <2>3, <2>4
<1> QED
  BY <1>1, Invariance, PTL

\* loop_unregister_transfer: once it has returned no device uses the xfer.
THEOREM UnregisteredIsUnused == Spec => []UnregisteredUnused
<1>1. IInv => UnregisteredUnused
  <2> SUFFICES ASSUME IInv, NEW x \in Xfers \ known,
                      \A p \in Procs : At(p, "unregister") => call[p].xfer # x,
                      NEW d \in Devices
               PROVE  encryption[d] # x /\ transfer[d] # x
    BY DEF UnregisteredUnused
  <2>1. encryption[d] # x
    BY DEF IInv, Unregistering, Leaving, Leaves, UsesXfer
  <2> QED
    BY <2>1 DEF IInv, Unregistering, Transferred
<1> QED
  BY <1>1, Invariance, PTL

\* The recursion check of loop_set_fd: no device is ever, through any number
\* of others, its own backing store, although the check reads the other
\* devices without their mutexes.
THEOREM DevicesNeverRecurse == Spec => []NoRecursion
<1>1. Init => NoRecursion
  <2>1. Init => \A d : Above(d) = {}
    BY FilesAssumption DEF Init, Above, Files
  <2>2. ASSUME \A d : Above(d) = {} PROVE NoRecursion
    <3> SUFFICES ASSUME NEW S \in SUBSET Devices, S # {}
        PROVE  \E d \in S : Above(d) \cap S = {}
      BY Zenon DEF NoRecursion
    <3>1. PICK d \in S : TRUE
      OBVIOUS
    <3> QED
      BY <2>2, <3>1
  <2> QED
    BY <2>1, <2>2
<1>2. IInv /\ NoRecursion /\ [Next]_vars => NoRecursion'
  BY NoRecursionStep DEF IInv
<1> QED
  BY <1>1, <1>2, Invariance, PTL DEF Spec

=============================================================================
