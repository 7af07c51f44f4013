-------------------------------- MODULE Loop --------------------------------
(***************************************************************************)
(* The loop block device: drivers/block/loop.c.                            *)
(*                                                                         *)
(* User space opens device nodes and, through them, binds a device to a    *)
(* backing file, switches the file, configures and clears the device; each *)
(* of these calls holds the device's lo_ctl_mutex.  Whoever does I/O on    *)
(* the device queues bios, which the device's own thread carries out on    *)
(* the backing file.  A device node may itself back another device, and    *)
(* the last fput of a node runs lo_release inside the call that dropped    *)
(* it: a node is therefore an actor of its own, which the caller awaits.   *)
(*                                                                         *)
(* Grain of atomicity: one CPU without preemption, so a step runs from one *)
(* place where the code can sleep (the mutex, kthread_create, kthread_stop,*)
(* the completion of a switch, invalidate_bdev, an xfer's init, the last   *)
(* fput of a node, file I/O) to the next.  A call that is refused at once  *)
(* changes nothing and has no action.                                      *)
(***************************************************************************)
EXTENDS Integers, FiniteSets, Sequences

CONSTANTS
    Devices,             \* struct loop_device objects
    Regular, Nodes,      \* struct file objects: of regular files, of device nodes
    DevOf,               \* the device behind each node
    Writable, Offered,   \* the files opened for writing; those passed to the driver
    Procs,               \* processes calling the driver
    Bios, Writes,        \* struct bio objects, and those that write
    Xfers,               \* struct loop_func_table objects of other modules
    NoDevice, NoFile, NoXfer, NoBio, NoActor,
    Switch               \* the magic bio of loop_switch

Files == Regular \cup Nodes
Actors == Procs \cup Nodes

ASSUME DevicesAssumption ==
    IsFiniteSet(Devices) /\ NoDevice \notin Devices /\ DevOf \in [Nodes -> Devices]
ASSUME FilesAssumption ==
    Regular \cap Nodes = {} /\ Offered \subseteq Files /\ NoFile \notin Files
ASSUME ActorsAssumption == Procs \cap Files = {} /\ NoActor \notin Actors
ASSUME BiosAssumption ==
    Writes \subseteq Bios /\ {NoBio, Switch} \cap Bios = {} /\ NoBio # Switch
ASSUME XfersAssumption == {NoXfer, "none", "NULL"} \cap Xfers = {}

VARIABLES
    state, backing, flags,   \* lo_state, lo_backing_file, lo_flags
    encryption, transfer,    \* lo_encryption, lo->transfer
    refcnt, mutex,           \* lo_refcnt, the holder of lo_ctl_mutex
    thread,                  \* lo_thread
    dropped,                 \* history: the bios whose thread ended before it began
    queue, inHand,           \* lo_bio, and the bio the thread is working on
    accepted,                \* the bios on their way, from loop_make_request to bio_endio
    opened, refs,            \* the files user space has open, the references to each
    moduleRefs,              \* calls of __module_get without their module_put
    known, xferRefs,         \* xfer_funcs, references to the modules behind them
    pc,                      \* each actor's step
    call                     \* its call: device, node, file, xfer, devices still to visit

bindVars == <<state, backing, flags>>
xferVars == <<encryption, transfer, xferRefs>>
threadVars == <<thread, dropped>>
ioVars   == <<queue, inHand, accepted>>
fileVars == <<opened, refs, refcnt, moduleRefs>>
callVars == <<pc, call>>
vars == <<bindVars, xferVars, known, mutex, threadVars, ioVars, fileVars, callVars>>

NoCall == [dev |-> NoDevice, node |-> NoFile, file |-> NoFile,
           xfer |-> NoXfer, todo |-> {}]

Init ==
    /\ state = [d \in Devices |-> "unbound"] /\ backing = [d \in Devices |-> NoFile]
    /\ flags = [d \in Devices |-> {}] /\ refcnt = [d \in Devices |-> 0]
    /\ encryption = [d \in Devices |-> NoXfer] /\ transfer = [d \in Devices |-> "NULL"]
    /\ mutex = [d \in Devices |-> NoActor] /\ thread = [d \in Devices |-> "none"]
    /\ queue = [d \in Devices |-> <<>>] /\ inHand = [d \in Devices |-> NoBio]
    /\ accepted = {} /\ dropped = {}
    /\ opened = Regular /\ refs = [f \in Files |-> IF f \in Regular THEN 1 ELSE 0]
    /\ moduleRefs = 0 /\ known = {} /\ xferRefs = [x \in Xfers |-> 0]
    /\ pc = [a \in Actors |-> "idle"] /\ call = [a \in Actors |-> NoCall]

At(a, s) == pc[a] = s
Goto(a, s) == pc' = [pc EXCEPT ![a] = s]
\* mutex_lock and mutex_unlock of lo_ctl_mutex.
Locks(a, d) == mutex[d] = NoActor /\ mutex' = [mutex EXCEPT ![d] = a]
Unlocks_Missing(a) == UNCHANGED mutex        \* mutant: an early return without mutex_unlock
Unlocks(a) == mutex' = [mutex EXCEPT ![call[a].dev] = NoActor]
Calls(a, d, n, f, x) ==
    call' = [call EXCEPT ![a] = [dev |-> d, node |-> n, file |-> f, xfer |-> x, todo |-> {}]]
Returns(a) == Goto(a, "idle") /\ call' = [call EXCEPT ![a] = NoCall]

\* fput: the last one of a node makes the node run lo_release.
FputGoto(a, f, s) ==
    /\ refs' = [refs EXCEPT ![f] = @ - 1]
    /\ pc' = [x \in Actors |-> IF x = a THEN s
                               ELSE IF x = f /\ refs[f] = 1 THEN "release" ELSE pc[x]]

-----------------------------------------------------------------------------
\* open and close of device nodes and files; open makes a struct file that no
\* call is still letting go of.
Open(n) ==
    /\ refs[n] = 0 /\ At(n, "idle") /\ \A a \in Actors : call[a].file # n
    /\ mutex[DevOf[n]] = NoActor
    /\ refcnt' = [refcnt EXCEPT ![DevOf[n]] = @ + 1]
    /\ opened' = opened \cup {n} /\ refs' = [refs EXCEPT ![n] = 1]
    /\ UNCHANGED <<bindVars, xferVars, known, mutex, threadVars, ioVars, moduleRefs, callVars>>

\* A call in progress keeps its node open; close takes effect when it returns.
Close(f) ==
    /\ f \in opened /\ \A p \in Procs : ~ At(p, "idle") => call[p].node # f
    /\ opened' = opened \ {f} /\ FputGoto(NoActor, f, "idle")
    /\ UNCHANGED <<bindVars, xferVars, known, mutex, threadVars, ioVars, refcnt, moduleRefs, call>>

\* loop_clr_fd, up to kthread_stop.  A kthread looks whether it should stop before
\* it calls its function: one that has not run yet ends without loop_thread, and
\* the bios on lo_bio are nobody's.
RunDown(a, n, d) ==
    /\ state' = [state EXCEPT ![d] = "rundown"]
    /\ IF thread[d] = "woken"
       THEN /\ thread' = [thread EXCEPT ![d] = "exited"]
            /\ dropped' = dropped \cup {queue[d][i] : i \in DOMAIN queue[d]}
       ELSE thread' = [thread EXCEPT ![d] = "stopping"] /\ UNCHANGED dropped
    /\ Locks(a, d) /\ Goto(a, "clr_stop") /\ Calls(a, d, n, backing[d], NoXfer)

\* lo_release, of the node's last reference.
Release(n) ==
    LET d == DevOf[n] IN
    /\ At(n, "release") /\ mutex[d] = NoActor
    /\ refcnt' = [refcnt EXCEPT ![d] = @ - 1]
    /\ IF "AUTOCLEAR" \in flags[d] /\ refcnt[d] = 1 /\ state[d] = "bound"
       THEN RunDown(n, n, d)
       ELSE Goto(n, "idle") /\ UNCHANGED <<state, threadVars, mutex, call>>
    /\ UNCHANGED <<backing, flags, xferVars, known, ioVars, opened, refs, moduleRefs>>

\* An ioctl comes through an open node.
Entry(p, n) == At(p, "idle") /\ n \in opened \cap Nodes

-----------------------------------------------------------------------------
\* LOOP_SET_FD.  The recursion check follows f down through devices until it
\* meets a file that is no loop device, the device itself or an unbound one; it
\* holds none of their mutexes.
Below(d, f) ==
    LET at[k \in 0 .. Cardinality(Devices)] ==
            IF k = 0 THEN f
            ELSE LET g == at[k - 1] IN
                 IF g \in Nodes /\ DevOf[g] # d /\ state[DevOf[g]] # "unbound"
                 THEN backing[DevOf[g]] ELSE g
    IN at[Cardinality(Devices)]

MayBack_Unchecked(d, f) == TRUE              \* mutant: no recursion check
MayBack(d, f) == Below(d, f) \in Regular

\* __module_get, fget and lo_ctl_mutex.
TakeFile_Borrowed(f) == UNCHANGED refs       \* mutant: the caller's reference is used
TakeFile(f) == refs' = [refs EXCEPT ![f] = @ + 1]

BeginSetFd(p, n, f, s) ==
    /\ Entry(p, n) /\ f \in opened \cap Offered /\ state[DevOf[n]] = "unbound"
    /\ Locks(p, DevOf[n]) /\ Goto(p, s) /\ Calls(p, DevOf[n], n, f, NoXfer)
    /\ TakeFile(f) /\ moduleRefs' = moduleRefs + 1
    /\ UNCHANGED <<state, encryption, xferRefs, threadVars>>

\* A device that is being cleared has lost its file already: the check follows
\* the NULL pointer.
SetFdOops(p, n, f) ==
    /\ BeginSetFd(p, n, f, "oops") /\ Below(DevOf[n], f) = NoFile
    /\ UNCHANGED <<backing, flags, transfer, queue>>

\* Up to kthread_create; the device is read-only if the file or the node is.
SetFd(p, n, f) ==
    LET d == DevOf[n] IN
    /\ BeginSetFd(p, n, f, "set_thread") /\ MayBack(d, f)
    /\ backing' = [backing EXCEPT ![d] = f]
    /\ \E ro \in BOOLEAN : /\ f \notin Writable => ro
                           /\ flags' = [flags EXCEPT ![d] = IF ro THEN {"READ_ONLY"} ELSE {}]
    /\ transfer' = [transfer EXCEPT ![d] = "none"] /\ queue' = [queue EXCEPT ![d] = <<>>]

\* kthread_create and wake_up_process, or out_clr.
SetThread(p) ==
    LET d == call[p].dev IN
    /\ At(p, "set_thread")
    /\ \/ /\ state' = [state EXCEPT ![d] = "bound"]
          /\ thread' = [thread EXCEPT ![d] = "woken"]
          /\ Unlocks(p) /\ Returns(p)
          /\ UNCHANGED <<backing, flags, refs>>
       \/ /\ backing' = [backing EXCEPT ![d] = NoFile]         \* out_clr
          /\ flags' = [flags EXCEPT ![d] = {}]
          /\ FputGoto(p, call[p].file, "module_put")
          /\ UNCHANGED <<state, thread, mutex, call>>
    /\ UNCHANGED <<xferVars, dropped, queue, moduleRefs>>

-----------------------------------------------------------------------------
\* LOOP_CLR_FD; from kthread_stop on lo_release takes the same steps.
ClrFd(p, n) ==
    /\ Entry(p, n) /\ state[DevOf[n]] = "bound" /\ refcnt[DevOf[n]] <= 1
    /\ RunDown(p, n, DevOf[n])
    /\ UNCHANGED <<backing, flags, xferVars, queue, refs, moduleRefs>>

\* loop_release_xfer, and what its caller makes of lo->transfer.
ReleaseXfer(d, t) ==
    /\ transfer' = [transfer EXCEPT ![d] = t]
    /\ encryption' = [encryption EXCEPT ![d] = NoXfer]
    /\ xferRefs' = [x \in Xfers |-> xferRefs[x] - IF encryption[d] = x THEN 1 ELSE 0]

\* kthread_stop returned, up to invalidate_bdev.
ClrStop(a) ==
    LET d == call[a].dev IN
    /\ At(a, "clr_stop") /\ thread[d] = "exited" /\ Goto(a, "clr_end")
    /\ backing' = [backing EXCEPT ![d] = NoFile] /\ flags' = [flags EXCEPT ![d] = {}]
    /\ thread' = [thread EXCEPT ![d] = "none"]
    /\ ReleaseXfer(d, "NULL")
    /\ UNCHANGED <<state, mutex, dropped, queue, refs, moduleRefs, call>>

ClrEnd(a) ==
    /\ At(a, "clr_end") /\ FputGoto(a, call[a].file, "module_put")
    /\ state' = [state EXCEPT ![call[a].dev] = "unbound"]
    /\ UNCHANGED <<backing, flags, xferVars, mutex, threadVars, queue, moduleRefs, call>>

PutsModule_Never(a) == FALSE                 \* mutant: no module_put
PutsModule(a) == At(a, "module_put")

\* The end of a call that let go of a file: fput has returned when the node, if
\* it was the last reference of one, is through lo_release.
Return(a) ==
    /\ pc[a] \in {"module_put", "unlock"}
    /\ call[a].file \in Nodes => At(call[a].file, "idle")
    /\ moduleRefs' = moduleRefs - IF PutsModule(a) THEN 1 ELSE 0
    /\ Unlocks(a) /\ Returns(a)
    /\ UNCHANGED <<bindVars, xferVars, threadVars, queue, refs>>

-----------------------------------------------------------------------------
\* LOOP_CHANGE_FD: for read-only devices, to a file of the same size; the magic
\* bio carries the file to the thread, behind everything queued before.
MayChange_Unchecked(d, f) == state[d] = "bound" /\ f \in Regular   \* mutant: any lo_flags
MayChange(d, f) == state[d] = "bound" /\ "READ_ONLY" \in flags[d] /\ f \in Regular

ChangeFd(p, n, f) ==
    LET d == DevOf[n] IN
    /\ Entry(p, n) /\ f \in opened \cap Offered /\ MayChange(d, f)
    /\ Locks(p, d) /\ Goto(p, "switch") /\ Calls(p, d, n, f, NoXfer)
    /\ TakeFile(f)
    /\ queue' = [queue EXCEPT ![d] = Append(@, Switch)]
    /\ UNCHANGED <<bindVars, xferVars, threadVars, moduleRefs>>

\* do_loop_switch, by the thread; the caller drops the old file and returns.
ThreadSwitch(d) ==
    LET p == mutex[d] IN
    /\ thread[d] \in {"running", "stopping"} /\ inHand[d] = NoBio
    /\ queue[d] # <<>> /\ Head(queue[d]) = Switch
    /\ queue' = [queue EXCEPT ![d] = Tail(@)]
    /\ backing' = [backing EXCEPT ![d] = call[p].file]
    /\ call' = [call EXCEPT ![p].file = backing[d]] /\ Goto(p, "switched")
    /\ UNCHANGED <<state, flags, xferVars, mutex, threadVars, refs, moduleRefs>>

ChangeEnd(p) ==
    /\ At(p, "switched") /\ FputGoto(p, call[p].file, "unlock")
    /\ UNCHANGED <<bindVars, xferVars, mutex, threadVars, queue, moduleRefs, call>>

BindRequests(p) == \E n \in Nodes :
    ClrFd(p, n) \/ \E f \in Files : SetFd(p, n, f) \/ SetFdOops(p, n, f) \/ ChangeFd(p, n, f)
BindContinue(a) == SetThread(a) \/ ClrStop(a) \/ ClrEnd(a) \/ ChangeEnd(a) \/ Return(a)
bindFrame == <<known, inHand, accepted, refcnt, opened>>

-----------------------------------------------------------------------------
\* LOOP_SET_STATUS.  The old xfer goes first; the new one may be unknown, and
\* figure_loop_size may fail (EFBIG) when the new one is already in place.
SetAutoclear(d) == \E auto \in BOOLEAN :
    flags' = [flags EXCEPT ![d] = IF auto THEN @ \cup {"AUTOCLEAR"} ELSE @ \ {"AUTOCLEAR"}]

Released(d) == IF encryption[d] = NoXfer THEN transfer[d] ELSE "NULL"

SetStatusPlain(p, n) ==
    LET d == DevOf[n] IN
    /\ Entry(p, n) /\ mutex[d] = NoActor /\ state[d] = "bound"
    /\ \/ ReleaseXfer(d, "none") /\ SetAutoclear(d)
       \/ ReleaseXfer(d, Released(d)) /\ UNCHANGED flags     \* EINVAL, EFBIG
    /\ UNCHANGED <<known, mutex, callVars>>

\* try_module_get, up to xfer->init, which may sleep.
SetStatus(p, n, x) ==
    LET d == DevOf[n] IN
    /\ Entry(p, n) /\ state[d] = "bound" /\ x \in known
    /\ Locks(p, d) /\ Goto(p, "st_init") /\ Calls(p, d, n, NoFile, x)
    /\ transfer' = [transfer EXCEPT ![d] = Released(d)]
    /\ encryption' = [encryption EXCEPT ![d] = NoXfer]
    /\ xferRefs' = [y \in Xfers |-> xferRefs[y] + (IF y = x THEN 1 ELSE 0)
                                                - (IF y = encryption[d] THEN 1 ELSE 0)]
    /\ UNCHANGED <<flags, known>>

SetStatusInit(p) ==
    LET d == call[p].dev
        x == call[p].xfer IN
    /\ At(p, "st_init") /\ Unlocks(p) /\ Returns(p)
    /\ \/ /\ xferRefs' = [xferRefs EXCEPT ![x] = @ - 1]
          /\ UNCHANGED <<encryption, transfer, flags>>
       \/ /\ encryption' = [encryption EXCEPT ![d] = x] /\ UNCHANGED xferRefs
          /\ \/ transfer' = [transfer EXCEPT ![d] = x] /\ SetAutoclear(d)
             \/ UNCHANGED <<transfer, flags>>                 \* EFBIG
    /\ UNCHANGED known

-----------------------------------------------------------------------------
\* loop_register_transfer and loop_unregister_transfer, which visits the devices
\* one by one under their mutexes.
RegisterTransfer(p, x) ==
    /\ At(p, "idle") /\ known' = known \cup {x}
    /\ UNCHANGED <<flags, xferVars, mutex, callVars>>

UnregisterTransfer(p, x) ==
    /\ At(p, "idle") /\ x \in known /\ known' = known \ {x} /\ Goto(p, "unregister")
    /\ call' = [call EXCEPT ![p] = [NoCall EXCEPT !.xfer = x, !.todo = Devices]]
    /\ UNCHANGED <<flags, xferVars, mutex>>

MayVisit_Anyway(d) == TRUE                   \* mutant: without lo_ctl_mutex
MayVisit(d) == mutex[d] = NoActor

Visit(p, d) ==
    /\ At(p, "unregister") /\ d \in call[p].todo /\ MayVisit(d)
    /\ IF encryption[d] = call[p].xfer THEN ReleaseXfer(d, "NULL") ELSE UNCHANGED xferVars
    /\ IF call[p].todo = {d} THEN Returns(p)
                             ELSE call' = [call EXCEPT ![p].todo = @ \ {d}] /\ UNCHANGED pc
    /\ UNCHANGED <<flags, known, mutex>>

XferRequests(p) ==
    \/ \E n \in Nodes : SetStatusPlain(p, n) \/ \E x \in Xfers : SetStatus(p, n, x)
    \/ \E x \in Xfers : RegisterTransfer(p, x) \/ UnregisterTransfer(p, x)
XferContinue(a) == SetStatusInit(a) \/ \E d \in Devices : Visit(a, d)
xferFrame == <<state, backing, threadVars, ioVars, fileVars>>

-----------------------------------------------------------------------------
\* I/O: loop_make_request, and the thread.
Takes_Always(d, b) == b \notin Writes \/ "READ_ONLY" \notin flags[d]   \* mutant: any lo_state
Takes(d, b) == state[d] = "bound" /\ (b \in Writes => "READ_ONLY" \notin flags[d])

MakeRequest(d, b) ==
    /\ b \notin accepted /\ Takes(d, b)
    /\ queue' = [queue EXCEPT ![d] = Append(@, b)] /\ accepted' = accepted \cup {b}
    /\ UNCHANGED <<threadVars, inHand>>

\* The scheduler runs the new thread, which enters loop_thread.
ThreadStart(d) ==
    /\ thread[d] = "woken" /\ thread' = [thread EXCEPT ![d] = "running"]
    /\ UNCHANGED <<dropped, ioVars>>

\* The magic bio has no bi_bdev.
HasBdev_Untested(b) == TRUE                  \* mutant: the magic bio goes to the file
HasBdev(b) == b \in Bios

ThreadTake(d) ==
    /\ thread[d] \in {"running", "stopping"} /\ inHand[d] = NoBio
    /\ queue[d] # <<>> /\ HasBdev(Head(queue[d]))
    /\ inHand' = [inHand EXCEPT ![d] = Head(queue[d])]
    /\ queue' = [queue EXCEPT ![d] = Tail(@)]
    /\ UNCHANGED <<threadVars, accepted>>

\* do_bio_filebacked and bio_endio.
ThreadEnd(d) ==
    /\ inHand[d] # NoBio /\ inHand' = [inHand EXCEPT ![d] = NoBio]
    /\ accepted' = accepted \ {inHand[d]}
    /\ UNCHANGED <<threadVars, queue>>

Drained_Ignored(d) == inHand[d] = NoBio      \* mutant: "|| lo->lo_bio" dropped
Drained(d) == inHand[d] = NoBio /\ queue[d] = <<>>

ThreadExit(d) ==
    /\ thread[d] = "stopping" /\ Drained(d)
    /\ thread' = [thread EXCEPT ![d] = "exited"]
    /\ UNCHANGED <<dropped, ioVars>>

ThreadIo(d) == ThreadStart(d) \/ ThreadTake(d) \/ ThreadEnd(d) \/ ThreadExit(d)
ioFrame == <<bindVars, xferVars, known, mutex, fileVars, callVars>>

-----------------------------------------------------------------------------
Continue(a) ==
    \/ BindContinue(a) /\ UNCHANGED bindFrame
    \/ XferContinue(a) /\ UNCHANGED xferFrame
Thread(d) ==
    \/ ThreadIo(d) /\ UNCHANGED ioFrame
    \/ ThreadSwitch(d) /\ UNCHANGED bindFrame

Next ==
    \/ \E n \in Nodes : Open(n) \/ Release(n)
    \/ \E f \in Files : Close(f)
    \/ \E p \in Procs : \/ BindRequests(p) /\ UNCHANGED bindFrame
                        \/ XferRequests(p) /\ UNCHANGED xferFrame
    \/ \E a \in Actors : Continue(a)
    \/ \E d \in Devices : Thread(d)
    \/ \E d \in Devices, b \in Bios : MakeRequest(d, b) /\ UNCHANGED ioFrame

\* The scheduler runs every runnable thread, file I/O ends, and a mutex is given
\* to those who wait for it in the order they came.
Fairness ==
    /\ \A a \in Actors : WF_vars(Continue(a))
    /\ \A p \in Procs, d \in Devices : SF_vars(Visit(p, d) /\ UNCHANGED xferFrame)
    /\ \A n \in Nodes : SF_vars(Release(n))
    /\ \A d \in Devices : WF_vars(Thread(d))

Spec == Init /\ [][Next]_vars
FairSpec == Spec /\ Fairness

-----------------------------------------------------------------------------
TypeOK ==
    /\ state \in [Devices -> {"unbound", "bound", "rundown"}]
    /\ backing \in [Devices -> Files \cup {NoFile}]
    /\ flags \in [Devices -> SUBSET {"READ_ONLY", "AUTOCLEAR"}]
    /\ encryption \in [Devices -> Xfers \cup {NoXfer}]
    /\ transfer \in [Devices -> Xfers \cup {"none", "NULL"}]
    /\ refcnt \in [Devices -> Int] /\ mutex \in [Devices -> Actors \cup {NoActor}]
    /\ thread \in [Devices -> {"none", "woken", "running", "stopping", "exited"}]
    /\ queue \in [Devices -> Seq(Bios \cup {Switch})]
    /\ inHand \in [Devices -> Bios \cup {NoBio}]
    /\ accepted \subseteq Bios /\ dropped \subseteq Bios
    /\ opened \subseteq Files /\ refs \in [Files -> Int] /\ moduleRefs \in Int
    /\ known \subseteq Xfers /\ xferRefs \in [Xfers -> Int]
    /\ pc \in [Actors -> {"idle", "release", "oops", "set_thread", "clr_stop", "clr_end",
                          "module_put", "switch", "switched", "unlock", "st_init", "unregister"}]
    /\ call \in [Actors -> [dev : Devices \cup {NoDevice}, node : Nodes \cup {NoFile},
                            file : Files \cup {NoFile}, xfer : Xfers \cup {NoXfer},
                            todo : SUBSET Devices]]

\* A bio loop_make_request accepted is forgotten in one case only, that of a thread
\* stopped before its first run: whatever else set_fd, clr_fd, lo_release and
\* switches do beside it, it is on the queue, or in the hands, of a device whose
\* thread will still come to it.
AcceptedBiosServed ==
    \A b \in accepted \ dropped :
        \E d \in Devices :
            /\ thread[d] \in {"woken", "running", "stopping"}
            /\ inHand[d] = b \/ \E i \in DOMAIN queue[d] : queue[d][i] = b

\* "once kthread_should_stop() is true and lo_bio is NULL, we are done with the
\* loop": a thread that has ended has left nothing queued.
ThreadDrainsQueue == \A d \in Devices : thread[d] = "exited" => queue[d] = <<>>

\* The thread always works on a file that somebody holds: the old file of a
\* switch and the file of a device being cleared are let go only when the thread
\* is done with them.
BackingHeld ==
    \A d \in Devices : thread[d] \in {"running", "stopping"} =>
        backing[d] # NoFile /\ refs[backing[d]] > 0

\* Nothing leaks: when no call is under way, each file, this module and each
\* xfer's module are referenced once per device that uses them.
ReferencesBalanced ==
    (\A a \in Actors : At(a, "idle")) =>
        /\ \A f \in Files : refs[f] = Cardinality({d \in Devices : backing[d] = f})
                                      + IF f \in opened THEN 1 ELSE 0
        /\ \A x \in Xfers : xferRefs[x] = Cardinality({d \in Devices : encryption[d] = x})
        /\ moduleRefs = Cardinality({d \in Devices : state[d] # "unbound"})

\* A write the driver accepted reaches only a file opened for writing, also when
\* the file was switched meanwhile.
WritesReachWritable ==
    \A d \in Devices : inHand[d] \in Writes => backing[d] \in Writable

\* "Avoid recursion": no device is, through any number of devices, its own
\* backing store, although the check reads the others without their mutexes.
Above(d) == {e \in Devices : backing[e] \in Nodes /\ DevOf[backing[e]] = d}
NoRecursion ==
    \A S \in (SUBSET Devices) \ {{}} : \E d \in S : Above(d) \cap S = {}

\* Once loop_unregister_transfer has returned, no device uses the xfer, even one
\* whose set_status had looked it up before and was inside its init.
UnregisteredUnused ==
    \A x \in Xfers \ known :
        (\A p \in Procs : At(p, "unregister") => call[p].xfer # x) =>
            \A d \in Devices : encryption[d] # x /\ transfer[d] # x

\* Every call that has a device's mutex gives it back, unless SetFdOops has left a
\* mutex locked for good, and every bio accepted is completed, unless its thread
\* was stopped before it began: no switch, rundown, thread or nested lo_release
\* waits for what never comes.
Oops == \E a \in Actors : At(a, "oops")
EverythingEnds ==
    /\ \A d \in Devices : mutex[d] # NoActor ~> mutex[d] = NoActor \/ Oops
    /\ \A b \in Bios : b \in accepted ~> b \notin accepted \/ b \in dropped
=============================================================================
