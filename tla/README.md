# Verification of the Grasshopper board software

The repository is the distribution of the In-Circuit Grasshopper / ICnova AVR32
board: a Buildroot tree (`src/trunk/base`), the drivers of its Linux 2.6.24
kernel (`base/build_avr32/linux-2.6.24-icnova/drivers`, called `drivers/`
below), skeleton files of the root file system, example programs and binaries.
Most of it is vendored. What makes the board do its work, and what is
concurrent, are the drivers its kernel configuration selects
(`base/target/device/In-Circuit/ICNova/kernel_base.config`): the LED class with
its triggers and GPIO LEDs, the I2C core with its device files over the two-wire
interface, the PWM controller, and the loop device. This directory models those,
one TLA+ module per component, checks instances of them with TLC and proves with
TLAPS every safety property that the passing runs check.

Two facts of that configuration shape every module: the kernel runs on **one
CPU without preemption** (`CONFIG_PREEMPT_NONE=y`), and it ticks at **HZ=250**.
So a thread loses the CPU to another thread only where it sleeps (a contended
semaphore, an allocation, a driver-model call, a wait), while interrupts and
timers come in anywhere they are not disabled. A step of a thread in the models
runs from one such place to the next; where an interrupt can tell the
difference, it is cut finer.

## 1. Inventory

| Component | State it keeps | Operations | Who calls it | Modelled in |
|---|---|---|---|---|
| LED class and trigger core: `leds/led-class.c`, `led-triggers.c`, `led-core.c`, `leds.h` | `leds_list`, `trigger_list`, per LED `trigger`, `brightness`, per trigger `led_cdevs`; three kinds of rw semaphore | register and unregister LEDs and triggers, attributes `trigger` and `brightness`, `led_trigger_set`, `led_trigger_event`, suspend/resume | LED drivers, trigger modules, user space, triggers from interrupts | `LedTriggers` |
| Blinking triggers: `leds/ledtrig-timer.c`, `ledtrig-heartbeat.c` | one allocated structure with a kernel timer per LED | activate, deactivate, timer callback, attributes `delay_on`, `delay_off` | `led_trigger_set`, timer softirq, user space | `LedBlink` |
| Two-wire interface: `i2c/busses/i2c-atmeltwi.c` | the running message (`buf`, `acks_left`), `mask`, `status`, `comp`; the controller's registers | `twi_xfer`, `twi_complete`, `twi_interrupt`, `twi_hwinit`, probe/remove | i2c-core, under the bus lock; interrupt | `AtmelTwi` |
| PWM controller: `misc/atmel_pwm.c` | channel owners and handlers, the clock count, PWM registers | channel alloc/free/on/off/handler, clock alloc/free, `pwm_irq`, probe | LED and other drivers, handlers inside `pwm_irq` | `AtmelPwm` |
| GPIO LEDs: `leds/leds-gpio.c` | a level and a work item per LED | `gpio_led_set`, work, probe, remove, suspend/resume | LED class (also from timers), workqueue | `LedsGpio` |
| I2C core and device files: `i2c/i2c-core.c`, `i2c-dev.c` | adapters, drivers, clients; minors | add/del adapter and driver, attach/detach client, `i2c_transfer`, open/close/ioctl | bus drivers, chip drivers, user space | `I2cCore` (no clients) |
| Loop device: `block/loop.c` | state, backing file, transfer function, bio queue and thread of each device; its open count | `LOOP_SET_FD`, `CLR_FD`, `CHANGE_FD`, `SET_STATUS`, open/release, make_request, the thread, (un)register transfer | user space, the block layer, crypto modules | `Loop` |
| PWM LEDs, SSC, GPIO-based I2C, GPIO library, LCD framebuffer, demo program, CGI and init scripts, bare-metal example, Buildroot, `makedevs` | see `PROJECT.json` | | | not modelled, reasons in section 7 |

How they interact: LED drivers register LEDs with the class; the class finds
their default trigger; `led_trigger_set` calls into the triggers, which drive
the LEDs back through `led_set_brightness`, from timers, and that calls the
LED driver's `brightness_set`, which uses GPIO or a PWM channel. `i2c_transfer`
serialises callers and calls `twi_xfer`, which sleeps until `twi_interrupt` or a
timeout completes it. `pwm_irq` calls its clients' handlers with the driver's
lock dropped, and they call the driver again. Bus drivers come and go with their
modules; `i2c-core.c` tells `i2c-dev.c` of them under `core_lock`. A loop device
is fed by the block layer and drained by its thread; its node may be the backing
file of another loop device, so that one device's call ends in another's
`lo_release`.

What is hard here, and what must hold (the full list, each at its line, is
`hazards` in `PROJECT.json`):

* **LED class.** Six operations take three kinds of semaphore in nested order
  and sleep in between. An LED must never be on two triggers' lists, never keep
  a departed trigger or its light, and never miss its default trigger because
  LED and trigger were registered side by side; nothing may deadlock.
* **Blinking triggers.** Timers re-arm themselves, stores arm them again,
  deactivation frees the memory they are in, and every allocation can fail. No
  timer or writer may touch freed data, nothing may be freed twice, and an LED
  that should blink must not lose its timer.
* **Two-wire interface.** Interrupt handler, controller, slave and the 100 ms
  timeout race. Success must mean that all bytes moved, an error must name what
  happened in this transfer, and the interface must be silent afterwards.
* **PWM.** Clock enables, owners, running channels and interrupt masks must stay
  in step, although handlers change them in the middle of the interrupt scan.
* **GPIO LEDs.** A level may be on its way from a timer, in queued or running
  work, or in a thread that sleeps in an expander's transfer, while the device
  goes away or a probe fails half way. None of them may find the GPIO or the data
  gone, and no level may be lost in the work item.
* **I2C core.** A driver may be registered while an adapter is added, and attach
  it twice; a file may be opened while its adapter is replaced.
* **Loop.** Bios, a switch of the file, a run-down and a changing transfer
  function meet in one thread; every bio must be served or refused, by a file that
  is held and may be written, and every reference must come back on every path.

## 2. Modules

| Module | Lines up with | Notes |
|---|---|---|
| `LedTriggers` | `led-class.c`, `led-triggers.c` | Threads with a program counter; one action per stretch between two places to sleep |
| `LedBinding` | what `led_trigger_set` and `led_trigger_event` promise | Abstract: no locks, lists or threads; `LedTriggers` implements it |
| `LedTriggersProofs` | | Theorems about `LedTriggers`, the refinement among them |
| `LedListsProofs` | | More theorems about `LedTriggers`: the two lists and the walks over them |
| `LedBlink` | `ledtrig-timer.c`, `ledtrig-heartbeat.c`, `led_trigger_set` as their caller | One LED; kernel memory as a set of objects |
| `LedBlinkProofs` | | Theorems about `LedBlink` |
| `AtmelTwi` | `i2c-atmeltwi.c` | The controller and the slave are external actions |
| `AtmelTwiProofs` | | Theorems about `AtmelTwi` |
| `AtmelPwm` | `atmel_pwm.c` | One action per call |
| `AtmelPwmProofs` | | Theorems about `AtmelPwm` |
| `LedsGpio` | `leds-gpio.c`, and the parts of the LED class that call it | LEDs numbered as in the probe loop |
| `LedsGpioProofs` | | Theorems about `LedsGpio` |
| `I2cCore` | `i2c-core.c` (adapters and drivers), `i2c-dev.c` | Processes with a program counter, under `core_lock` |
| `I2cCoreProofs` | | Theorems about `I2cCore` |
| `Loop` | `loop.c` | Processes, and nodes as actors, under each device's `lo_ctl_mutex` |
| `LoopProofs` | | Theorems about `Loop` |
| `MC...` | | Instances for TLC: model values, default triggers, symmetry |

Definitions keep the source's names where TLA+ allows (`ledCdevs` is
`led_cdevs`, `TsDetach` ... `TsAssign` are the parts of `led_trigger_set`).
`map` in `PROJECT.json` gives the lines of every definition. Definitions marked
*mutant* are deliberate errors: each is put in place of the definition after it
to confirm that a property notices.

**`LedTriggers`.** A list lock is held for writing only within one step (the
code does nothing but a list operation under it), so its state is the set of its
readers; `WaitsToWrite` is the kernel's rule that a queued writer keeps later
readers out. `trigger_lock` is a holder per LED. `RegList` is
`list_add_tail` and `init_rwsem` together, because no other thread can run
between them on this kernel. `led_trigger_set` is five steps, as triggers may
drive LEDs from interrupts between any two of them; whether they do is
`TriggerEvent` (through the list) and `ActiveTrigger` (directly, once
activated). `litBy` abstracts the brightness to who set it last. `CreateMayFail`
lets attribute creation fail, with the error paths of the code. `ledState` and
`trigState` record what callers may legally do next (unregister only what is
registered, and so on).

**`LedBinding`.** An LED is bound to one trigger or none; it is bound only when it
was unbound, and unbinding darkens it. Its light changes by its trigger's hand,
by user space's, or to off. The mapping takes for `bound` the trigger on whose
list the LED hangs or which is still active for it: after
`list_del` the old trigger's activation still keeps the LED bound, and `deactivate`
with `LED_OFF` is the abstract step of unbinding.

**`LedBlink`.** `mem` says what every allocatable object holds, so a use after
free is visible as an access to an object of kind `free` or of the wrong kind.
`led_cdev->trigger_data` is `data`; as in the code, deactivation frees the
object and leaves the pointer. A timer callback is atomic and goes through
`data`, whatever object its timer sits in. A store to an attribute is two steps
(store the value; delete and arm the timer), because the timer may fire in
between. Removal of an attribute waits for the writers inside it and lets no new
one in, which is what sysfs guarantees (external). When `delay_off` cannot be created,
the error label frees the structure without deleting its timer; if a store has
armed that, the program is undefined, and the model ends there (`UndoOn`).

**`AtmelTwi`.** Bytes are pairs of message and position. The interrupt handler
has one action per path: overrun, byte received, completed, byte to send; each
goes through the common tail (`Continue`, which disables what is not needed any
more, or `Done`, the label `done`). The controller and slave may take a step, or
never take one; they may NACK the address or a byte, deliver a byte before the
last was read (overrun) or find nothing to send (underrun). The last byte of a
read and the STOP after it (`TXCOMP`) come together or, by `HwStop`, one after the
other. Messages may be empty: `i2c-dev.c` passes on a `write()` of 0 bytes, an
`I2C_RDWR` message of length 0 and the SMBus quick command, whatever `twi_func`
announces. A read of no bytes starts without STOP and is ended by a NACK or the
timeout; a write of no bytes takes `Garbage` for its first byte and wraps
`acks_left` (`Less`). `faults` is a history of what happened on the wire in this
transfer. The handler is atomic: it takes far less time than a byte.

**`AtmelPwm`.** Every call holds `pwm->lock` with interrupts off, so it is one
action, enabled outside the interrupt handler or inside one of the handlers it
calls. Any client may call `pwm_channel_alloc` at any time: a refused call has
cleared its `struct pwm_channel` all the same, so an owner that asks again, for a
channel that is taken, goes on with index 0 and owns its channel only in the
driver's table; the checks of the other calls (`Checked`) then refuse it unless the
channel is 0. `isr` is the controller's interrupt status, which an allocation does not
clear; `granted` is a history of the clocks handed out.

**`LedsGpio`.** A set from a thread is two steps (the brightness and level; the
GPIO), as the transfer to an expander sleeps and timers come in between; a set
from a timer is one. `inFlight` is what each thread and the worker carry and under
which protection: an attribute's store, which removal of the attribute waits for,
`trigger_lock`, or the work, which `cancel_work_sync` waits for. `Fail` and `Free`
share the index `at` with the probe and removal loops. `raced` is a history: the
code makes no promise for a thread's set that crosses another one (the later
store may reach the GPIO first, or queued work undo it), so `SettledLevel` is
about all the others.

`class` is the life of an LED in the LED class. It is on `leds_list` from its
creation on, so a walk (a trigger that comes or goes) may attach to it before its
attribute `trigger` exists, and again after `led_classdev_unregister` has cleared
its trigger and sleeps in `device_unregister`: such an LED leaves the list `lost`.
When the attribute cannot be created, the LED leaves the list without its lock and
nobody's trigger, timer or work is waited for: it `failed`. The model follows both into
freed memory, that is, it lets timers, work and threads use them on; it ends (the
driver is not probed again) while they do. `ResourcesHeld` makes no promise for
those two classes, except to processes inside an attribute, which the code does wait
for.

**`I2cCore`.** `pc` is where a process is in its call, `call` what it holds in local
variables. The number and the registration of an adapter are one step up to
`device_register`: on this kernel nobody runs between the two critical sections
but through a sleep that changes nothing visible. An adapter belongs to a module
that is unloaded only when nobody has a reference to it; `try_module_get` fails
from then on (external). `unserved` is a history of the adapters that got no
device file for want of memory, which `i2c_do_add_adapter` ignores ("too bad").

**`Loop`.** What user space holds is `opened`; `refs` counts references to each
file. A call's steps are between the places where it sleeps; a call that is
refused at once changes nothing and has no action, and one that waits for the
mutex has not begun. The last `fput` of a node starts the node's own `lo_release`,
and the caller of `fput` goes on when it is idle again. `LOOP_CHANGE_FD` takes
regular files only, because it asks the inode's operations for `splice_read`,
which device nodes do not have. `SetThread` creates and wakes the thread, and
`ThreadStart` is its first run: in Linux 2.6.24 `kthread_stop` of a thread that has not
run yet ends it without calling its function (external), so `RunDown` of a thread that
is only `woken` leaves its bios on the queue; `dropped` is their history. `Below` is
the recursion check, which follows NULL when it meets a device that is being cleared:
`SetFdOops`.

## 3. Runs

| Run | Instance | States | Shows |
|---|---|---|---|
| `led_triggers` | 2 LEDs (one with a default), 2 triggers, 3 threads, 4 operations, failing creation | 437 k | `TypeOK`, `AttachmentConsistent`, `LitByOwnTrigger`, `RegisteredLedsLeaveTrigger`, `DefaultTriggerHonoured`, `WalkersOnList`, `ImplementsBinding` |
| `led_triggers_live` | 1 LED, 1 trigger, 3 threads, 4 operations of all six kinds, fair threads | 129 k | `OperationsReturn`: no deadlock |
| `led_unregister_race` | 1 LED, 1 trigger | | **violated**: `NobodyUsesUnregistered` |
| `led_blink` | 2 objects, 2 writers, delays 0/100/500 ms, three loads, either attribute may fail to be created, fair timers and stores | 116 k | `TypeOK`, `TimersOwnData`, `AttributesOwnData`, `PausesFit`, `DataFreedOnce`, `BlinksForEver`, `SetReturns` |
| `leds_gpio` | 3 LEDs (one of them active low and on an expander), 1 process, the worker | 1.4 M | `TypeOK`, `ResourcesHeld`, `SettledLevel` |
| `atmel_twi` | up to 2 messages of 0 to 3 bytes, in both directions; `acks_left` up to 4 | 379 k | `TypeOK`, `SuccessMeansMoved`, `VerdictHonest`, `QuietBetweenTransfers`, `InterruptCauseRemoved`, `XferReturns` |
| `i2c_core` | 3 adapters, 2 numbers, 3 processes | 27 k | `TypeOK`, `DevsParallel`, `OpenFilesReachAdapter`; no deadlock |
| `atmel_pwm` | 3 channels, 2 of them pinned out, 2 clients, both clocks, boundary arguments | 86 k | `TypeOK`, `ClockBalance`, `ChannelsQuiet`, `GrantedClocksKept` |
| `loop` | 2 devices with 1 and 2 nodes, 2 regular files (1 read-only), 2 processes, 1 write | 1.0 M | `TypeOK`, `AcceptedBiosServed`, `BackingHeld`, `ReferencesBalanced`, `WritesReachWritable`, `NoRecursion` |
| `loop_live` | 1 device, 2 nodes, 2 regular files, 2 processes, 1 write, 1 transfer function, fair threads | 110 k | `UnregisteredUnused`, `EverythingEnds`; no deadlock |
| `loop_stacked` | 2 devices with 1 node each, 1 regular file, one of the nodes as backing file, 2 processes, 1 write, fair threads | 51 k | `EverythingEnds` across a nested `lo_release` |
| `loop_early_stop` | 1 device, 1 node, 2 processes, 1 write | | **violated**: `ThreadDrainsQueue` |

**Bounds, and why they are enough.**

* `LedTriggers`: the races named above need at most four operations (an LED and
  a trigger registered, then two that race), at most three of which run at a
  time; a second trigger is needed to switch, a second LED for walks with
  something ahead. `MaxOps` bounds operations, not steps. Threads are
  interchangeable, so the safety runs use their symmetry; the liveness run does
  not. Deadlock checking is off because the system stops when the operations are
  used up and nothing drives an LED; that nobody waits on anybody for ever is
  `OperationsReturn`.
* `LedBlink` has no counter to bound. Two objects suffice for one LED: the data
  in use and the stale data a pointer may still name. With one object a reused
  address would hide a stale pointer. `MayFail` leaves out `"alloc"`: see the
  findings. The loads are zero, one and the least for which the period is its
  limit of 300 ms, where a quarter of it is 18 ticks, as long as the pulse of
  70 ms, so that a pause has 0 ticks.
* `AtmelTwi`: three bytes are first, middle and last, the three cases of the
  STOP logic; one byte is the special case of a read. The second message
  follows a finished one, and the next call follows every kind of ending. A
  message of no bytes is the edge of `acks_left`, which wraps to `MaxAcks`: 65535
  in the code, 4 in the run, one more than the longest message, so that a write
  of no bytes has more to send than any other. The slave may send one byte beyond
  the message (`count <= MaxLen`).
* `AtmelPwm`: the third channel tests `mask`; two clients are an owner and its
  rival. Prescalers 8, 9, 10 and divisors 255, 256 straddle the limits.
* `LedsGpio`: three LEDs let a probe fail with two LEDs before it, the least with
  which "unwind all of them" and "unwind one" differ; one of them is on an
  expander, in the middle, so that the removal waits for its work between the
  other two, and is active low; brightness is off or full
  because the driver sees no more; one process already crosses the binding
  process, the worker and the timers (the proof covers any number).
* `I2cCore`: two numbers suffice for a replaced one and another; three adapters
  for two that come while one goes; three processes for a registering driver, an
  adapter and an opener. `Minors` stand for numbers below 256, above which
  `i2c-dev` serves nobody.
* `Loop`: two devices can back each other; a second node of one of them is what
  user space may close while the other is a backing file. One write is enough
  because bios do not affect each other; the magic bio of a switch comes before or
  after it. Deadlock is not checked in `loop`: the oops of `SetFdOops` and the
  `fput` under the mutex (section 4) do stop calls for ever. It is checked in
  `loop_live`, which has regular files only, and there every call ends.
  `loop_stacked` has the node of one device as the backing file of the other, so
  that a call's last `fput` waits for the `lo_release` below; it ends unless the
  recursion check met a device without a file (`Oops`), for which deadlock is not
  checked there either. The deadlock of section 4 needs one more file to change
  hands under the switch; `loop` has those states, without asking for progress.

**Fairness.** `LedTriggers`: weak fairness of every thread that has started an
operation, i.e. the scheduler runs what is runnable; no operation has to start.
`LedBlink`: armed timers expire, `led_trigger_set` and stores go on. `SetReturns`
has two writers that may be inside the attributes that `led_trigger_set` removes. `AtmelTwi`:
only the caller and its timeout; the controller, the slave and the interrupt owe
nothing, so `XferReturns` includes the bus that hangs. `Loop`: every started
call and every thread that can go on does, i.e. file I/O ends and the scheduler is
fair (weak fairness); whoever waits for a mutex gets it although others keep taking
it (strong fairness of `Release` and `Visit`), because a mutex serves its waiters in
order. No call has to start, and nobody has to close a file. `AtmelPwm`,
`LedsGpio` and `I2cCore` have no liveness property: what they wait for is a
semaphore whose holders never wait for each other, which the deadlock check shows.

## 4. Findings

* `led_unregister_race`: `__led_classdev_unregister` releases the LED's trigger
  (led-class.c:152-155), then sleeps in `device_unregister`, and only then takes
  the LED off `leds_list` (163-165). A `led_trigger_register` in that window
  attaches its trigger, as the default, to the dying LED; the LED is then gone
  from `leds_list`, so `led_trigger_unregister`, whose comment is "Remove anyone
  actively using this trigger" (led-triggers.c:214), cannot find it. The
  invariants for *registered* LEDs are not affected, and are stated for them.
* `loop_early_stop`: `loop_set_fd` only wakes the thread (loop.c:814-821) and the
  device accepts bios at once. When `loop_clr_fd` stops the thread (897) before it
  has run, `loop_thread` is never entered, although 577-578 promise that "once
  kthread_should_stop() is true and lo_bio is NULL, we are done with the loop": the
  bios are never ended, and the next `loop_set_fd` drops them (799).
  `AcceptedBiosServed` and `EverythingEnds` hold for all other bios.

Not runs, but found while modelling and listed as hazards: `twi_xfer` sends `buf[0]`
and decrements `acks_left` (i2c-atmeltwi.c:167-168) for a message of no bytes too, so
that the slave gets what is in memory, up to 65536 bytes of it or until the timeout;
with both clocks free `pwm_clk_alloc` configures CLKA *and* CLKB and returns only
CLKB (atmel_pwm.c:210-218), so that CLKA is configured for ever, with no owner;
`pwm_channel_alloc` leaves in `PWM_ISR`, and in the copy that `pwm_irq` works on, a
period that ended under the previous owner (114-116), for which a new owner's handler
is then called; `pwm_clk_alloc`
refuses the prescaler 10 that its comment allows; when `kzalloc` fails in either
blinking trigger, `trigger_data` still points at what the previous trigger freed,
and the next deactivation frees it again; a store to `delay_on` while the
creation of `delay_off` fails leaves a timer pending in freed memory;
`loop_set_fd`'s recursion check dereferences the missing file of a device that is
being cleared (loop.c:746); `loop_change_fd` drops the old file under the mutex
(694), and when that was the last reference to a node, the `lo_release` below may
need the mutex that the caller holds; a `LOOP_SET_STATUS` that fails with `EFBIG`
leaves `lo_encryption` and `transfer` of different functions (963).

## 5. Proofs

Every safety property of every passing run is a theorem, for every value of the
constants that satisfies the named assumptions of its module. Two theorems about `LedBlink` have
one hypothesis more: a tick rate, and the absence of a failure that the code does
not survive.

`LedTriggersProofs` (any LEDs, triggers, threads, defaults, number of
operations; assumptions `NamesAssumption`, `DefaultAssumption`,
`RequestAssumption`): `TypeCorrect`, `AttachmentsConsistent`,
`LightsConsistent`. The two properties speak of LEDs whose `trigger_lock` is
free, so by themselves they do not survive a step: the step that frees the lock
needs to know what its holder did. The inductive invariant `IInv` is

* `TypeOK`, and `RealTriggers`: registration operations are about a trigger, not
  about `none`, without which `trigger_list` loses its type;
* `Holders`: a thread is inside `led_trigger_set` (or about to unlock) for an LED
  exactly when it holds that LED's `trigger_lock`, hence one thread at a time;
* `Halfway`: what list, activation and light look like at each step inside
  (`Settled`, `Unlinked`, `Loose`, `Linked`, `Bound`, `Settled`), and `Settled`
  for every LED whose lock is free;
* `NewLeds`: an LED not yet on `leds_list` is in nobody's hands, so the
  `init_rwsem` that comes *after* `list_add_tail` takes the lock from nobody.

The proof goes by groups of steps: most neither touch attachments nor enter
`led_trigger_set` (`StagesKept`); `led_trigger_set` changes one LED only
(`OtherLeds`) and takes it from one stage to the next (`NextStage`).
`TriggersImplementBinding` rests on the same stages: each of them fixes the set of
triggers that drive the LED, of which there is at most one, and so which steps of
`led_trigger_set` are abstract steps and which stutter.

`LedListsProofs` extends that module, with the same assumptions:
`LedsLeaveTriggers`, `DefaultsAreHonoured`, `WalksStayOnList`. The first two speak
of registered LEDs and triggers, and compare two lists that are locked separately;
while a registration runs on either side neither holds. The invariant `LInv` adds
to `IInv`

* `Standing`: which step belongs to which operation, and that two operations on one
  LED, or on one trigger, do not run together (`Operations`); when an LED is on
  `leds_list` and a trigger on `trigger_list` (`Listed`, `Known`); who reads the
  lists (`Walkers`, `Relying`);
* `Binds`: which trigger an LED can have that was not asked for by user space;
* `Dismissed`: an LED that uses a trigger taken off `trigger_list` is still ahead of
  the walk of that trigger's `led_trigger_unregister`. This is what holds
  throughout of `LedsLeaveTriggers`. A store cannot attach the trigger behind the
  walk's back, because it holds `triggers_list_lock` from its search to its end
  (`Relying`, lemma `TargetKnown`);
* `Adopted`: an LED that lacks a default trigger on `trigger_list` is still ahead of
  that trigger's walk, or its own registration has still to look for the trigger.
  That one of the two always comes late enough is why an LED and its default
  trigger find each other in whatever order they are registered;
* `WalkersOnList`, which is inductive beside these.

`LedBlinkProofs` (any number of objects and writers, any loads, any tick of whole
milliseconds; assumption `BlinkAssumption`): `TypesAreRight`,
`AttributesHaveData`, `PausesAreInAPeriod`, `TimersKeepData`, `DataIsFreedOnce`.
`IInv` is `TypeOK` with `Owned` (only the structure in `trigger_data` is
allocated), `Steps` (what each step of `led_trigger_set` knows of it) and
`Attributes` (an attribute, and a writer inside one, exist only within the life of
the timer trigger's structure). The hypotheses:

* `PausesAreInAPeriod` assumes `HZ >= 100`: 70 ms rounded up to ticks fit into a
  quarter of the shortest period only then. The kernel offers 100, 250 and 1000.
* `DataIsFreedOnce` assumes that no `kzalloc` fails (`"alloc"`); section 4 says why.

`TimersKeepData` has no hypothesis: `TimersOwnData` itself makes an exception of the
states after the store to `delay_on` described in section 4, and the theorem says that
no other way leads to a timer in freed memory. `Disarmed` is what
`err_out` and the next activation rely on: no timer is pending before an attribute
exists.

`AtmelTwiProofs` (any number of messages of any length, none included; assumption
`TwiAssumption`: no message is longer than `acks_left` can count): `TypesAreRight`, `SuccessMovesEverything`, `VerdictsAreHonest`,
`SilentBetweenTransfers`, `HandlerRemovesCause`. The properties speak of a
transfer that is over; the invariant describes the message in flight, by what it is
and what went wrong so far:

* `Stages`: which interrupts are enabled and whether the bus rests, at each step of
  `twi_xfer`;
* `Reading`: an unharmed read has in `buf` the bytes up to `acks_left` and in `RHR`
  the next one; or it has been overrun, or its address was refused. One of no bytes
  (`ReadOfNothing`) never gets its STOP, so that it does not complete;
* `Writing`: which byte is in `THR`, which is being shifted and which are on the wire
  while the message is addressed, being sent, ended or refused. Of one of no bytes
  (`WriteOfNothing`) it keeps only the history of faults, which `VerdictsAreHonest`
  needs; `SuccessMovesEverything` makes no claim for it;
* `Judged`, `Before`, `After`, `Returned`: the handler's verdict fits the history
  `faults`, what precedes the message has moved and what follows has not begun.

`AtmelPwmProofs` (any finite set of channels, any mask, clients and clock
arguments; assumptions `ChannelAssumption`, `ClockAssumption`): `TypeCorrect`,
`ClockBalanced`, `ChannelsAreQuiet`, `ClocksKept`. The clock
count is a natural number because it is the number of owned channels, and
`pwm_channel_free` lowers both because `Checked` asks the driver's table whose the
channel is: it relies on nothing that a second allocation could have cleared. The
inductive invariant is the conjunction of the first three. `ClocksKept` adds that a clock in use
never has the empty configuration by which the code recognises a free one.

`LedsGpioProofs` (any number of LEDs and processes, any brightness values;
assumptions `NAssumption`, `BrightnessAssumption`, `ActorsAssumption`):
`GpioTypesOK`, `ResourcesAreHeld`, `LevelsSettle`. The inductive invariant is

* `Stages`: where the probe or removal loop stands determines which LEDs are in
  the class, leave it or are gone, and which GPIOs are requested;
* `InUse`: a timer, queued or running work, or a thread with a level in hand
  implies that its LED is at a stage of the class that still has to wait for it, or
  one of those that `failed` or got `lost`;
* `Settling`: the level an LED will show in the end is in exactly one place (the
  thread, the queued work, the running work, the GPIO), unless sets crossed; and
  `Fresh`, which starts it off.

`I2cCoreProofs` (any adapters, bus numbers and processes; assumptions
`AdaptersAssumption`, `OthersAssumption`): `TypeCorrect`, `FilesReachAdapters`,
`StaysParallel`. `DevsParallel` promises most when `core_lock` is free, so the
invariant says what each call still owes while it holds the lock:

* `Stages`: who is inside `core_lock`, what its call is about, and that i2c-dev is
  on the bus and loaded as long as somebody registers it or walks for it;
* `Numbered`: an adapter's number, its entry in the idr, its registration and the
  life of its module agree, up to the one being added;
* `Listed`: an `i2c_dev` without a node is the last one and about to get it, which
  makes `return_i2c_dev` after a failure take out the right one of two; a node
  without an `i2c_dev` is about to be destroyed;
* `Serving`: a registered adapter without an `i2c_dev` is one that some call has
  yet to visit, was short of memory, or is leaving. This covers the adapter that
  is added between `driver_register` and `core_lock`.

`Removal`, `FoundByMinor` and `ReturnsLast` say what `list_del` and the two searches
of `i2c_dev_list` do to the sequence.

`LoopProofs` (any finite set of devices, any nodes, files, processes, bios and
xfers; assumptions `DevicesAssumption`, `FilesAssumption`, `BiosAssumption`,
`XfersAssumption`, `ActorsAssumption`): `TypesAreRight`, `AcceptedBiosAreServed`,
`BackingIsHeld`, `WritesReachWritableFiles`, `ReferencesBalance`,
`UnregisteredIsUnused`, `DevicesNeverRecurse`. The lemma `Elsewhere` carries the
proof: a step is about one device (`Moves`), and every other one, with the call that
holds its mutex, stays as it was (`Same`). It has to be proved because a call on one
device may drop the last reference to another one's node and start `lo_release`
there; `LetsGo` and `FputKeeps` show that this wakes only a node that was idle. The
invariant `IInv` then is, device by device,

* `Mutexes`: who holds `lo_ctl_mutex` is in a call on that device, and a file with
  references is a node at rest;
* `Bound`: what state, thread, flags and backing file are between the calls
  (`Binding`) and at each step of one (`Calling`);
* `Requests`, `Accepted`: at most one switch is queued and only while its call
  waits; no write is queued at a read-only device; an accepted bio is on some queue
  or in a thread's hands, or was `dropped` with a thread that had not begun;
* `Leftovers`: what is on the queue of a device without a thread was dropped, so that
  the next `loop_set_fd`, which empties the queue, loses no other bio;
* `Counted`, `ModuleCounted`, `XfersCounted`: a file, the module and an xfer have as
  many references as devices, calls in the middle of something and user space hold.
  `ReferencesBalanced` is the case that no call is under way. As one device moves at
  a time, `CardMoves` reduces each count to what happens to that one;
* `Unregistering`: a device that still uses an unregistered xfer is one that
  `loop_unregister_transfer` has yet to visit.

`DevicesNeverRecurse` is proved beside `IInv`. `Below` is a walk of as many steps as
there are devices (`WalkExists`, by the least counterexample, which replaces an
induction); a walk that ends outside the nodes has passed a set of devices closed
under "is backed by" that lacks the new device (`CheckedBelow`); and putting a device
on top of such a set closes no circle (`OnTop`). The other devices may be unbound
meanwhile, which only takes edges away (`NothingNewBelow`).

Only model-checked: liveness (`OperationsReturn`, `BlinksForEver`, `SetReturns`,
`XferReturns`, `EverythingEnds`) and the absence of deadlock. Liveness under
fairness and `ENABLED` are out of the prover's reach, as are inductions over data
and `RECURSIVE` operators; no module here has one.

## 6. Plan

1. An abstract block device that `Loop` implements (accepted bios complete, on the
   file that was bound), and the refinement as a theorem; the same for a transfer of
   `AtmelTwi`.
2. `I2cCore` with clients and `i2c_transfer` under the bus lock, so that "one
   caller" of `AtmelTwi` becomes a theorem instead of an assumption.
3. `Loop`: creation and removal of devices.

## 7. Not modelled

* Suspend and resume of LEDs (LED class, `leds-gpio.c`): without `CONFIG_PM`, which
  the board's kernel does not set, they are not compiled or never called.
* `twi_probe`/`twi_remove` and the failures of `pwm_probe`: resource acquisition
  in sequence. `pwm_remove` is `__exit` code of a built-in driver and never runs.
* Clients, board info, transfers and the SMBus emulation of the I2C core; in the
  loop driver the creation and removal of devices, `LOOP_GET_STATUS`, and the
  bytes: offsets, block sizes, the XOR transformation.
* Several CPUs or a preemptible kernel: not this board. The window between
  `list_add_tail` and `init_rwsem` in `led_classdev_register` would matter there.
* PWM LEDs, GPIO-based I2C and the GPIO expanders: not selected by the board's
  configuration. SSC: a module nobody on the board calls.
* The framebuffer driver is register layout and mode arithmetic. The bare-metal
  example is a straight line of register writes. Buildroot, `makedevs` and the
  scripts run in sequence. All other drivers in the tree are vendored upstream
  code for hardware the board does not have.
