------------------------------- MODULE I2cCore -------------------------------
(***************************************************************************)
(* I2C adapters and their device files: drivers/i2c/i2c-core.c, the part   *)
(* about adapters and drivers, with drivers/i2c/i2c-dev.c as the driver.   *)
(*                                                                         *)
(* Each adapter belongs to a module of its own, which adds it when loaded  *)
(* and deletes it when unloaded; i2c-dev is a module too, and makes an     *)
(* i2c_dev and a device node for each adapter, told of adapters by         *)
(* attach_adapter and detach_adapter.  Adding and deleting adapters holds  *)
(* core_lock throughout; registering a driver puts it on the bus before    *)
(* it takes core_lock, so that an adapter may be attached twice.           *)
(*                                                                         *)
(* A step runs from one place where the code can sleep (core_lock, an      *)
(* allocation, a call into the driver model) to the next.                  *)
(***************************************************************************)
EXTENDS Naturals, Sequences, SequencesExt

CONSTANTS
    Adapters, Minors,    \* struct i2c_adapter objects; bus numbers
    Procs,               \* processes loading and unloading modules and opening files
    NoAdapter, NoProc, NoMinor, Closed

ASSUME AdaptersAssumption == {NoAdapter, Closed} \cap Adapters = {} /\ NoAdapter # Closed
ASSUME OthersAssumption == NoProc \notin Procs /\ NoMinor \notin Minors

VARIABLES
    coreLock,            \* the holder of core_lock
    idr,                 \* i2c_adapter_idr
    nr,                  \* each adapter's number
    life,                \* each adapter's module: "out", "loaded" (since its init) or "going"
    class,               \* i2c_adapter_class.devices: the registered adapters
    devModule, onBus,    \* the module i2c-dev; whether its driver is on the bus
    devList,             \* i2c_dev_list, each i2c_dev as its adap
    nodes,               \* the numbers of the devices of i2c_dev_class
    unserved,            \* history: adapters i2c-dev could not attach for want of memory
    files,               \* the adapter behind the device file each process has open
    pc,
    call                 \* the call, the adapter at hand, those still to visit, the minor

moduleVars == <<life, devModule, onBus, class>>
devVars == <<devList, nodes, unserved>>
vars == <<coreLock, idr, nr, moduleVars, devVars, files, pc, call>>

Calls(op, a, todo, n) == [op |-> op, adap |-> a, todo |-> todo, minor |-> n]
NoCall == Calls("none", NoAdapter, {}, NoMinor)

Init ==
    /\ coreLock = NoProc /\ idr = [n \in Minors |-> NoAdapter]
    /\ nr = [a \in Adapters |-> NoMinor] /\ life = [a \in Adapters |-> "out"]
    /\ class = {} /\ devModule = "out" /\ onBus = FALSE
    /\ devList = <<>> /\ nodes = {} /\ unserved = {}
    /\ files = [p \in Procs |-> Closed]
    /\ pc = [p \in Procs |-> "idle"] /\ call = [p \in Procs |-> NoCall]

At(p, s) == pc[p] = s
Goto(p, s) == pc' = [pc EXCEPT ![p] = s]
Lock(p) == coreLock = NoProc /\ coreLock' = p
Return(p) == Goto(p, "idle") /\ call' = [call EXCEPT ![p] = NoCall]
Unlock(p) == coreLock' = NoProc /\ Return(p)

-----------------------------------------------------------------------------
\* i2c-dev attaches one adapter.  get_free_i2c_dev: kzalloc may fail.
Attach(p) ==
    /\ At(p, "attach")
    /\ \/ devList' = Append(devList, call[p].adap) /\ Goto(p, "create") /\ UNCHANGED unserved
       \/ unserved' = unserved \cup {call[p].adap} /\ Goto(p, "next") /\ UNCHANGED devList
    /\ UNCHANGED <<coreLock, idr, nr, moduleVars, nodes, files, call>>

\* list_del of the i2c_dev at hand, which is the last one of its adapter.
ReturnDev_Missing(a) == UNCHANGED devList    \* mutant: the label error without return_i2c_dev
ReturnDev(a) == devList' = RemoveAt(devList, SelectLastInSeq(devList, LAMBDA d : d = a))

\* device_create refuses a number twice; it or device_create_file may also lack
\* memory.
Create(p) ==
    LET a == call[p].adap IN
    /\ At(p, "create") /\ Goto(p, "next")
    /\ \/ nr[a] \notin nodes /\ nodes' = nodes \cup {nr[a]} /\ UNCHANGED <<devList, unserved>>
       \/ nr[a] \in nodes /\ ReturnDev(a) /\ UNCHANGED <<nodes, unserved>>
       \/ nr[a] \notin nodes /\ ReturnDev(a) /\ unserved' = unserved \cup {a}
          /\ UNCHANGED nodes
    /\ UNCHANGED <<coreLock, idr, nr, moduleVars, files, call>>

\* i2c_dev_get_by_minor: the first i2c_dev of that number; 0 when there is none.
ByMinor(n) == SelectInSeq(devList, LAMBDA a : nr[a] = n)

\* i2cdev_detach_adapter: the i2c_dev, then the device.
Detach(p) ==
    LET i == ByMinor(nr[call[p].adap]) IN
    /\ At(p, "detach")
    /\ IF i = 0 THEN Goto(p, "next") /\ UNCHANGED devList
                ELSE devList' = RemoveAt(devList, i) /\ Goto(p, "destroy")
    /\ UNCHANGED <<coreLock, idr, nr, moduleVars, nodes, unserved, files, call>>

Destroy(p) ==
    /\ At(p, "destroy") /\ nodes' = nodes \ {nr[call[p].adap]} /\ Goto(p, "next")
    /\ UNCHANGED <<coreLock, idr, nr, moduleVars, devList, unserved, files, call>>

-----------------------------------------------------------------------------
\* i2c_add_adapter and i2c_add_numbered_adapter: the number, and
\* i2c_register_adapter up to device_register.
AddAdapter(p, a, n) ==
    /\ At(p, "idle") /\ life[a] = "out" /\ idr[n] = NoAdapter
    /\ Lock(p) /\ Goto(p, "add") /\ call' = [call EXCEPT ![p] = Calls("add", a, {}, n)]
    /\ life' = [life EXCEPT ![a] = "loaded"]
    /\ idr' = [idr EXCEPT ![n] = a] /\ nr' = [nr EXCEPT ![a] = n]
    /\ UNCHANGED <<class, devModule, onBus, devVars, files>>

\* device_register, which may fail (and the module then does not stay), and the
\* board's own devices.
Added(p) ==
    LET a == call[p].adap IN
    /\ At(p, "add")
    /\ \/ class' = class \cup {a} /\ Goto(p, "notify")
          /\ UNCHANGED <<coreLock, idr, life, call>>
       \/ idr' = [idr EXCEPT ![nr[a]] = NoAdapter] /\ life' = [life EXCEPT ![a] = "out"]
          /\ Unlock(p) /\ UNCHANGED class
    /\ UNCHANGED <<nr, devModule, onBus, devVars, files>>

\* bus_for_each_drv in i2c_register_adapter.
Notify(p) ==
    /\ At(p, "notify") /\ Goto(p, IF onBus THEN "attach" ELSE "next")
    /\ UNCHANGED <<coreLock, idr, nr, moduleVars, devVars, files, call>>

\* Unloading: nobody has a reference to the module, and nobody gets one from now.
Unload(p, a) ==
    /\ At(p, "idle") /\ a \in class /\ life[a] = "loaded"
    /\ \A q \in Procs : files[q] # a /\ (call[q].op = "add" => call[q].adap # a)
    /\ life' = [life EXCEPT ![a] = "going"]
    /\ Goto(p, "del") /\ call' = [call EXCEPT ![p] = Calls("del", a, {}, NoMinor)]
    /\ UNCHANGED <<coreLock, idr, nr, class, devModule, onBus, devVars, files>>

\* i2c_del_adapter.
DelAdapter(p) ==
    /\ At(p, "del") /\ Lock(p) /\ Goto(p, IF onBus THEN "detach" ELSE "next")
    /\ UNCHANGED <<idr, nr, moduleVars, devVars, files, call>>

-----------------------------------------------------------------------------
\* i2c_register_driver, from i2c_dev_init: driver_register, then core_lock.
RegisterDriver(p) ==
    /\ At(p, "idle") /\ devModule = "out"
    /\ devModule' = "loaded" /\ onBus' = TRUE /\ Goto(p, "register")
    /\ UNCHANGED <<coreLock, idr, nr, life, class, devVars, files, call>>

RegisterWalk_Early == {}                     \* mutant: adapters registered before are left out
RegisterWalk == class

Walk(p) ==
    /\ At(p, "register") /\ Lock(p) /\ Goto(p, "next")
    /\ call' = [call EXCEPT ![p] = Calls("register", NoAdapter, RegisterWalk, NoMinor)]
    /\ UNCHANGED <<idr, nr, moduleVars, devVars, files>>

\* i2c_del_driver, from i2c_dev_exit, when no device file is open or being opened.
DelDriver(p) ==
    /\ At(p, "idle") /\ devModule = "loaded"
    /\ \A q \in Procs : files[q] = Closed /\ pc[q] \notin {"register", "open"}
    /\ Lock(p) /\ devModule' = "going" /\ Goto(p, "next")
    /\ call' = [call EXCEPT ![p] = Calls("unregister", NoAdapter, class, NoMinor)]
    /\ UNCHANGED <<idr, nr, life, class, onBus, devVars, files>>

\* The end of attach_adapter or detach_adapter: the next adapter of a walk, or
\* the rest of the call.
VisitNext(p) ==
    /\ At(p, "next") /\ \E a \in call[p].todo :
          /\ call' = [call EXCEPT ![p].adap = a, ![p].todo = @ \ {a}]
          /\ Goto(p, IF call[p].op = "register" THEN "attach" ELSE "detach")
    /\ UNCHANGED <<coreLock, idr, nr, moduleVars, devVars, files>>

Finish(p) ==
    /\ At(p, "next") /\ call[p].todo = {} /\ Unlock(p)
    /\ LET a == call[p].adap IN
       CASE call[p].op = "del" ->            \* device_unregister, idr_remove
               /\ class' = class \ {a} /\ unserved' = unserved \ {a}
               /\ idr' = [idr EXCEPT ![nr[a]] = NoAdapter]
               /\ life' = [life EXCEPT ![a] = "out"] /\ UNCHANGED <<devModule, onBus>>
         [] call[p].op = "unregister" ->     \* driver_unregister
               /\ onBus' = FALSE /\ devModule' = "out" /\ unserved' = {}
               /\ UNCHANGED <<class, idr, life>>
         [] OTHER -> UNCHANGED <<moduleVars, unserved, idr>>
    /\ UNCHANGED <<nr, devList, nodes, files>>

-----------------------------------------------------------------------------
\* i2cdev_open: the i2c_dev of the minor, then, under core_lock, the adapter that
\* has its number by then; and i2cdev_release.
Open(p, n) ==
    /\ At(p, "idle") /\ files[p] = Closed /\ devModule = "loaded" /\ ByMinor(n) # 0
    /\ Goto(p, "open") /\ call' = [call EXCEPT ![p] = Calls("open", NoAdapter, {}, n)]
    /\ UNCHANGED <<coreLock, idr, nr, moduleVars, devVars, files>>

\* i2c_get_adapter finds an adapter and its module lives.
Found_NullToo(a) == a = NoAdapter \/ life[a] # "going"  \* mutant: "if (!adap)" dropped
Found_NoModule(a) == a # NoAdapter           \* mutant: no try_module_get
Found(a) == a # NoAdapter /\ life[a] # "going"

OpenGet(p) ==
    LET a == idr[call[p].minor] IN
    /\ At(p, "open") /\ coreLock = NoProc /\ Return(p)
    /\ files' = [files EXCEPT ![p] = IF Found(a) THEN a ELSE Closed]
    /\ UNCHANGED <<coreLock, idr, nr, moduleVars, devVars>>

Release(p) ==
    /\ At(p, "idle") /\ files[p] # Closed /\ files' = [files EXCEPT ![p] = Closed]
    /\ UNCHANGED <<coreLock, idr, nr, moduleVars, devVars, pc, call>>

-----------------------------------------------------------------------------
AdapterCalls(p) ==
    \/ \E a \in Adapters : Unload(p, a) \/ \E n \in Minors : AddAdapter(p, a, n)
    \/ Added(p) \/ Notify(p) \/ DelAdapter(p)
DriverCalls(p) == RegisterDriver(p) \/ Walk(p) \/ DelDriver(p) \/ VisitNext(p) \/ Finish(p)
DevCalls(p) ==
    \/ Attach(p) \/ Create(p) \/ Detach(p) \/ Destroy(p)
    \/ (\E n \in Minors : Open(p, n)) \/ OpenGet(p) \/ Release(p)

Next == \E p \in Procs : AdapterCalls(p) \/ DriverCalls(p) \/ DevCalls(p)

Spec == Init /\ [][Next]_vars

-----------------------------------------------------------------------------
TypeOK ==
    /\ coreLock \in Procs \cup {NoProc}
    /\ idr \in [Minors -> Adapters \cup {NoAdapter}]
    /\ nr \in [Adapters -> Minors \cup {NoMinor}]
    /\ life \in [Adapters -> {"out", "loaded", "going"}]
    /\ class \subseteq Adapters
    /\ devModule \in {"out", "loaded", "going"} /\ onBus \in BOOLEAN
    /\ devList \in Seq(Adapters) /\ nodes \subseteq Minors /\ unserved \subseteq Adapters
    /\ files \in [Procs -> Adapters \cup {Closed}]
    /\ pc \in [Procs -> {"idle", "attach", "create", "detach", "destroy", "add", "notify",
                         "del", "register", "next", "open"}]
    /\ call \in [Procs -> [op : {"none", "add", "del", "register", "unregister", "open"},
                           adap : Adapters \cup {NoAdapter}, todo : SUBSET Adapters,
                           minor : Minors \cup {NoMinor}]]

\* "The list of i2c_dev structures is parallel to the i2c_adapter lists": an i2c_dev
\* never outlives its adapter; and whenever nobody is adding, deleting or
\* registering, each registered adapter has one i2c_dev and its node, also when it
\* was attached twice, or else memory was short, and there are none for anything
\* else.
DevsParallel ==
    LET owned(a) == {i \in DOMAIN devList : devList[i] = a}
        served == {a \in Adapters : owned(a) # {}} IN
    /\ \A a \in served : life[a] # "out"
    /\ coreLock = NoProc /\ (\A p \in Procs : ~ At(p, "register")) =>
          /\ served \subseteq class /\ \A a \in served : \A i, j \in owned(a) : i = j
          /\ nodes = {nr[a] : a \in served}
          /\ IF onBus THEN class \ served \subseteq unserved ELSE served = {}

\* An open device file reaches an adapter that is registered and stays so, also
\* when the adapter found by minor was replaced by another one of that number
\* while the opener waited for core_lock.
OpenFilesReachAdapter ==
    \A p \in Procs : files[p] # Closed => files[p] \in class /\ life[files[p]] = "loaded"
=============================================================================
