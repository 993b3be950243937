# TLA+ development for USB_UDE_Sample

The repository holds a virtual USB controller with an emulated device
(`src/UDEFX2`), the function driver that drives the device as if it were real
(`src/UDEFX_host/driver`), a test application (`src/UDEFX_host/exe`), and a
Raspberry Pi gadget that plays the same device in hardware (`src/rpi`).  Its
code is short, but nearly all of it runs in callbacks that a framework (KMDF,
UdeCx, the Linux composite core) calls concurrently.  The modules here model
those callbacks piece by piece, at the granularity at which another callback can
run in between.

## 1. The system and its parts

```
 testapp -c/-p                                      testapp -a/-i (back channel)
      |  reads, writes, IOCTLs                            |  reads, writes, IOCTLs
 +----v----------------------+                  +---------v-----------------+
 | host function driver      |    USB (UdeCx)   | virtual controller UDEFX2 |
 |  bulk queues, interrupt   <------------------>  endpoint queues, mission |
 |  reader, reset, power     |                  |  queues, interrupt state  |
 +---------------------------+                  +---------------------------+
```

| Part | State | Operations | What makes it correct |
|---|---|---|---|
| Mission queues (`Misc.c`; bulk URBs in `USBCom.c`, reads and writes in `BackChannel.c`) | list of buffered writes, WDF queue of parked reads, a spin lock per queue | push a write, pull a read, cancel a read | acknowledged data reaches exactly one read; every request is completed once; no read starves beside data |
| Interrupt endpoint of the device (`USBCom.c`, `BackChannel.c`) | deferred queue of URBs, one cached update with a count | raise an interrupt, receive a URB, cancel | every interrupt is delivered once, replaced by a newer one, or reported; URBs have one owner |
| Link power (`usbdevice.c`, `USBCom.c`) | `IsAwake`, whether the deferred queue accepts | enter and leave low power, signal wake | what is parked when the device falls asleep is purged, and nothing is parked after it; an interrupt wakes the device |
| Controller life cycle (`Driver.c`, `Device.c`, `usbdevice.c`) | which objects exist, `AllowOnlyResetInterrupts` | add, D0 entry and exit, clean-up | no handle is used without its object, except where a known mistake applies; of what has no parent only the lock of the cached interrupt is left behind |
| Host: interrupts (`interrupt.c`, `ioctl.c`) | `InterruptMsgQueue`, cached update with a count | continuous reader, GET_INTERRUPT_MESSAGE, flush at removal | every interrupt is accounted for; waiters are answered; removal leaves none |
| Host: bulk transfers, reset, power (`bulkrwr.c`, `ioctl.c`, `Device.c`) | pipe handles and targets, the reset lock, one transfer per direction | read, write, stop, reset, PnP and power | no traffic during a port reset; a transfer is completed once; resets return |
| Pi: loopback function (`f_one.c`) | requests in circulation, endpoints enabled | set_alt, disable, completions | no request or buffer leaks or is freed twice; data comes back in order |
| Pi: loopback options (`f_one.c`) | attributes, reference count | store, alloc, free | functions and attributes agree while a function exists |
| Pi: gadget (`one.c`) | the objects `zero_bind` makes, the autoresume timer and its next delay | bind, unbind, suspend, resume, timer callback | only a suspension that `del_timer_sync` overtook leaves the timer behind the device it looks at; a failed bind releases what it made, once; delays stay within the parameters; a suspended host is woken |
| Test application (`testapp.c`) | none kept between commands | mission trip (`-c`), agent (`-a`) | a response goes to its own trip; a trip that was told of its response does not wait for it |

How they meet: the two mission queues join bulk endpoints to the back channel's
reads and writes; the back channel's IOCTL and the interrupt endpoint share
`IO_CONTEXT`; the link power callbacks purge and restart the deferred queue; on
the host the reader's completion routines and the IOCTL handlers share
`InterruptStatus` and `InterruptMsgQueue`, and resets and power transitions share
the pipes with the transfers; the programs `-c` and `-a` meet only through both
mission queues and the path of interrupts.

What is hard here: locks that cover one list operation and not the decision it
belongs to; requests taken off a queue before a lock is taken; cancellation at any
moment; callbacks of sequential queues, parallel queues and completion routines
running beside power and PnP callbacks; timers that run beside the removal of what
they look at; calls that may fail in the middle of a chain.  `PROJECT.json` lists
each such place with its line under "hazards".

## 2. Modules

| Module | Models | Notes |
|---|---|---|
| `WRQueue` | one mission queue with its write and its read handler | the same code serves both directions, so one module stands for both queues |
| `MissionPipe` | the promise of a mission queue | abstract: a set in transit, requests answered once, no order |
| `DeviceInterrupt` | interrupt endpoint and link power of the device | |
| `InterruptChannel` | the promise of the device's interrupt path | abstract: an interrupt is raised, delivered, replaced by a newer one or lost with a URB |
| `HostInterrupt` | interrupt path of the host driver | |
| `HostDevice` | bulk transfers, reset and power of the host driver | |
| `ControllerLifecycle` | creation, start, stop and removal of controller and device | no liveness: nobody must ever stop a device |
| `LoopbackOptions`, `LoopbackFunction` | the Pi's loopback function: its options, and the requests of the function in use | the second extends the first and runs with it |
| `GadgetOne` | the Pi's composite driver and its wakeup timer | |
| `MissionTrip` | `-c` and `-a` of the test application, end to end | composes two instances of `WRQueue`, both programs and the path of interrupts |
| `MC...` | instances for TLC | constants only |
| `QueueLemmas` | what removing an element, taking the tail and appending do to a queue | proofs checked by TLAPS, cited by the others |
| `WRQueueProofs`, `DeviceInterruptProofs`, `HostInterruptProofs`, `HostDeviceProofs`, `MissionTripProofs` | theorems about the module they are named after | proofs checked by TLAPS |
| `LoopbackFunctionProofs` | theorems about `LoopbackFunction` and `LoopbackOptions` | |
| `LifecycleProofs` | theorems about the two programs that build their objects call by call, `ControllerLifecycle` and `GadgetOne` | for this the names of the first are its own (`ControllerSpec`, `ControllerTypeOK`, ...) |

How state and actions correspond to the code.  Every variable is named after the
field or the queue it stands for; what has no counterpart is one of three kinds:
a program counter of a handler or a program (`pushPc`, `raisePc`, `urbPc`,
`linkPc`, `reader[r].pc`, `driver`, `suspend`, `tripPc`, `botPc`), the status of a request or an object as
the framework sees it (`wst`, `rst`, `ust`, `ioctl`, `live`), or a record of what has
happened that only the properties read (`got`, `delivered`, `folded`, `dropped`,
`cleared`, `lost`, `misused`, `overtaken`, `response`).  An action is the code between two points
where another callback can run: a critical section, one call of the framework that
takes or gives a request, or the tail of a handler.  A handler of several such
pieces is the disjunction of its steps (`PushStep`, `PullStep`, `RaiseStep`,
`UrbStep`, `LinkPowerStep`, `IoctlStep`, `ReaderStep`, `ResetStep`, `SetupStep`, `Bind`, `Undo`,
`TripStep`, `BotStep`).  In particular each link power callback is two steps, since `IsAwake` and
the deferred queue change one after the other (usbdevice.c:554-556, 538-539), and so is
`zero_suspend`, which tests the speed and then arms the timer (one.c:148, 156).  Payloads are numbers in the order of arrival; wording, traces and
descriptors are left out.  Most modules have a constant `Faults`, the set of calls that
may fail in an instance; a fault is then a choice at each such call.  Definitions with an
underscore and a describing suffix (`RemoveHeadList_Peeks`) are faulty variants of
the definition that follows them; no specification uses them.  They show that each
property can fail.

Modelled from how the code uses them, since their source is not here: the WDF
queues (sequential, parallel and manual dispatch, cancellation of a request in a
manual queue, purge), I/O targets, UdeCx's resumption of a device that asked for
it, also if it asked while `LinkPowerExit` was running, and of Linux `usb_ep_queue` and `usb_ep_disable`, the order in which the
composite core calls a driver, and timers with `del_timer_sync`.  `WdfIoQueuePurge` is
asynchronous: it refuses new requests from the moment it is called and cancels the parked ones
later, one by one; until then an interrupt may still take one of them, which is more than WDF
may allow.  The core is taken to stop the controller after `zero_unbind`, so that no
suspension is still in its callback when the driver is bound again.

## 3. What TLC checks

### WRQueue: `MCWRQueue.cfg`

Four writes and four reads of different lengths, all four kinds of failure,
cancellation of any parked read (23,331 states).

* `NothingLostOrDuplicated`: acknowledged data is in the list, in the reader's hand
  or in the buffer of one read, once, and no copy overruns a buffer.
* `RequestsOwnedOnce`: one owner per request until it is completed.
* `OneStrandedPair`: data and reads may be left waiting side by side, but then one
  side has only one element.
* `BufferedInOrder`: what goes through the list leaves it oldest first.
* `WritesAlwaysComplete`: the comment "writes never pended, always completed" holds,
  as a leads-to under fairness of the running handler.
* `IsAMissionPipe`: every step is a step of `MissionPipe` or invisible in it.

`WRQueuePushWrite` asks for a parked read (Misc.c:138) and inserts its data later (162);
`WRQueuePullRead` looks at the list (203) and parks its read later (209).  If they cross,
the read waits beside its data until another request comes.  `OneStrandedPair` says how
far this goes; what it does to a user is the subject of `TripEnds` in `MissionTrip`.

Bounds: a stranded pair takes one write and one read, overtaking it another of each;
four of each leave room for both at once and for a fault in between.  The proofs
below do not depend on the bounds.

### DeviceInterrupt: `MCDeviceInterrupt.cfg`, `MCDeviceInterruptCached.cfg`

Five interrupts, two URBs, a cache that saturates at two, sleep and wake at any
moment, in the middle of either link power callback too (340,611 states).

* `IsAnInterruptChannel`: every step is a step of `InterruptChannel` or invisible in it:
  an interrupt is received once, or replaced by a newer one that is itself still there,
  or lost with a URB that could not carry it, and what has gone never comes back.
* `StalenessBounded`: how far what the host is given may lag behind what was raised.
* `UrbsOwnedOnce`: a URB has one owner, however interrupts, cancellations and the purge compete.
* `NothingParkedAsleep`: once `LinkPowerExit` has returned, every URB still in the deferred queue
  is one the purge will cancel, and none is added until the queue is started again, although a
  handler may be about to park one.  Between line 554 and the purge, and between the restart and
  line 539, `IsAwake` is FALSE and a URB can be parked; the property says nothing of these two
  moments.
* `RemoteWakeup`: an interrupt raised while the device sleeps wakes it, whichever side
  of the decision the link fell asleep on.
* `CachedReachesHost` is violated: a URB that found the cache empty is parked after an
  interrupt was cached (USBCom.c:409 against 336-347).  With all URBs of the host
  parked nothing looks at the cache again until the next interrupt.

Bounds: two URBs are what the host's reader keeps; a cache of two lets the count
saturate with three interrupts in a row and leaves two for the others.  The code's
limit is larger and its only role is to stop the count.

### HostInterrupt: `MCHostInterrupt.cfg`, `MCHostInterruptCleared.cfg`

Two reads, three interrupts, three IOCTLs, failing reads, suspension, failed start and
removal (about 293,000 states).

* `EveryInterruptAccounted`: an interrupt the pipe delivered is in exactly one place, and
  none vanishes unrecorded, with two completion routines emptying one cache and one queue.
* `IoctlsOwnedOnce`: an IOCTL is in the queue once or in one hand.
* `RemovalDrains`: after the flush no IOCTL is left in the queue and none comes later.
* `WaitersAnswered`: a waiter that is in the queue when a completion routine begins is
  answered, however many others arrive.
* `ClearedIsConsumed` is violated: a completion routine takes a waiter, then the lock;
  another has cached a newer interrupt in between, and it is cleared although the comment
  at ioctl.c:443 says it will be consumed.

Bounds: two reads are what the framework keeps queued; a race between two completion
routines needs two interrupts and two IOCTLs, and the third of each meets what it left.

### HostDevice: `MCHostDevice.cfg`

Two transfers in each direction, two concurrent resets, two starts, every failing call
(367,989 states).

* `PortResetQuiet`: while a port is reset every pipe is stopped and nothing is on the bus.
* `TransfersCompletedOnce`: never by two of handler, completion routine and `EvtIoStop`.
* `RunningUnlessReported`: pipes left stopped in D0 are stopped by a reset in progress or
  by a failure that was reported.
* `ResetsReturn`: no reset waits for ever, neither for the lock nor for transfers it
  cancelled.

Bounds: two resets compete for one lock, a second transfer follows one that a reset
cancelled, and a second start meets what the first one left.

### ControllerLifecycle: `MCControllerLifecycle.cfg`, `MCControllerLifecycleRestart.cfg`

One start with a failure at any call of `EvtDeviceAdd` or `D0Entry`, with the back channel
open or not while the device stops (276 states; the state space is small because the calls
are in sequence).

* `NoInvalidUse`: nothing is deleted twice, and neither the freed `IO_CONTEXT` nor the consumed
  `ChildDeviceInit` is used.  A handle is used without its object in four ways, each only where
  the property says:
  - `WRQueueInit` deletes the NULL handle of a queue that could not be created (Misc.c:85), while
    the controller is added and only if such a call can fail;
  - `Io_RetrieveEpQueue` fills in the context of a queue that was not created, before it looks at
    the status (USBCom.c:566), during the start and with the device not plugged in;
  - an interrupt IOCTL uses the device after it was deleted, if the back channel is still open;
  - a second start uses the `ChildDeviceInit` of the first; Device.c:419 stops it before that.
* `OnlyIntrLockLeaks`: the locks and the blocks of the mission queues and the `ChildDeviceInit`,
  which no device or queue is parent of, are freed on every path.  The lock of the cached interrupt
  (USBCom.c:463), made in the same way, is not: every start leaves one behind.
* `PluggedHasQueues`: a device that is plugged in has its endpoint queues, and they go after
  it.
* `AssertHolds` is violated with two starts: `AllowOnlyResetInterrupts` is never cleared, so
  the assertion at Device.c:419 fails at the second start.

### LoopbackFunction with LoopbackOptions: `MCLoopbackFunction.cfg`

Two functions of one instance made and freed while attributes are written, one of them
selected twice, four messages, every failing call (158,364 states).

* `PairsAccounted`: no request or buffer leaks or is freed twice.
* `AtMostQlen`: no more pairs circulate than the attribute shows, although the interface may
  be selected again with pairs in circulation.
* `LoopsInOrder`: what comes back is a subsequence of what was sent, with the gaps accounted
  for.
* `OptionsHold`: the options stay what every function was made from, although
  `loopback_alloc` reads them without the mutex, because the count is taken first.

Bounds: with two pairs there can be one on each endpoint, and either may overtake the other if
the code let it; a second selection meets the pairs of the first; four messages use both pairs
twice.  A length of 0 stands for the default, which is two here.

### GadgetOne: `MCGadgetOne.cfg`

Three binds with a failure at any call, four settings of the module parameters, and unsigned
arithmetic modulo 6,500 instead of 2^32, so that a delay without a maximum wraps around
(9,832 states).

* `TimerWithinBind`: the timer is pending, and its callback runs, only while there is a
  composite device for it to look at, with one exception.  `zero_suspend` takes no lock: one that
  has found the speed known (one.c:148) can arm the timer (156) after `zero_unbind` has deleted it
  (318).  The variable `overtaken` records that `del_timer_sync` met such a suspension, and nothing
  else leaves the timer behind; only then can its callback find no device, or the next `zero_bind`
  set it up while it is pending.  The model ends there (`driver = "undefined"`).
* `NothingHeldUnbound`: whichever call of `zero_bind` fails, through whichever of the three error
  labels, and after `zero_unbind`, everything made is released, nothing twice, and no function
  after its instance.
* `DelayWithinParams`: if there is a maximum and no sum on the way to it wraps, every delay
  lies between `autoresume` and `max_autoresume`, after any suspensions and binds.
* `WakesHost`: a suspended, configured gadget with autoresume wakes the host, unless it is
  resumed or taken away first.

Bounds: a second bind meets the handles a failed or undone first one left, a third those of
both.  The settings are: no wakeups, a fixed delay, a delay that grows to a maximum which is no
multiple of the step, and one that grows without a maximum.

### MissionTrip: `MCMissionTrip.cfg`, `MCMissionTripHangs.cfg`

Three trips and an agent that asks for three missions, either interrupted at the console at any
moment, failing calls in both queues, lost interrupts and one stray interrupt (262,989 states).

* `OwnResponse`: a trip is given the response to its own mission if every trip before it was
  given one, and no response is given to two trips.
* `ToldGetsResponse`: a trip that was told by the agent gets a response or an error; the
  interrupt is raised after the response is stored, so the read cannot be stranded.
* `TripEnds` is violated with nothing failing: the agent's read and the mission cross in the
  mission queue, the read is parked beside the mission, and the trip waits for its interrupt
  for ever.

Bounds: the response that a failed trip leaves behind is read by the next one, whose own is then
read by the third.  The hang takes one trip; the run allows two.

### Fairness

Handlers and completion routines are code that never waits, so once running they go on:
weak fairness of their steps, and nothing else in `WRQueue`, `HostInterrupt` and
`HostDevice`.  `ResetStep` includes two waits, for the lock and for cancelled transfers;
they are guards, so fairness alone does not make them pass, and `ResetsReturn` shows that
they do.  A wait for the lock that fails is a separate, unfair action, so no reset returns
merely because it failed to get the lock.  `DeviceInterrupt` also assumes that UdeCx resumes
a device that asked to be woken and that the host goes on sending URBs to a device that is
awake, as the continuous reader does; link power callbacks end once begun, but nobody need put the
link to sleep.  `GadgetOne` assumes that a pending timer expires and that its callback and
`zero_suspend` run to their end.  `MissionTrip` assumes that both programs and both mission
queues go on while they can and that the host's reader fetches interrupts; nobody need run
another `-c`.  Nothing is assumed of arrivals, cancellations, suspensions, the applications'
users or the device: a device may keep a bulk transfer for ever.  `LoopbackFunction` and
`ControllerLifecycle` state no liveness: a host need not read or write, and nobody must stop a
device.

`CHECK_DEADLOCK FALSE` stands where a run ends because its requests are used up, the device
is removed, or nobody asks for more; `MCDeviceInterrupt` checks deadlock too.

## 4. What is proved

All theorems hold for every value of the constants that satisfies the named assumptions of the
module: any number of requests, interrupts, resets, functions, starts, binds or trips, and any set
of faults.  The assumptions say that bounds are numbers, that sets of requests, URBs or functions
are finite where the code counts them, and that faults are among those the module names.  Every
invariant a run checks is the subject of a theorem, and so is each of the two refinements.
Each inductive invariant was first checked by TLC on the instances above.

### The mission queue (`WRQueueProofs`)

| Theorem | States | Argument |
|---|---|---|
| `TypeCorrect` | `[]TypeOK` | inductive; it includes that a handler about to use a request or a block has one |
| `OneOwner` | `[]RequestsOwnedOnce` | inductive together with `TypeOK`; needs that the parked reads are distinct |
| `Conservation` | `[]NothingLostOrDuplicated` | inductive relative to `OneOwner`: a write moves between three disjoint places, and a read that is served had got nothing before |
| `StrandingIsBounded` | `[]OneStrandedPair` | a handler that commits to adding to one side has seen the other side empty, so only what the other handler had already decided can join it |
| `BufferIsFIFO` | `[]BufferedInOrder` | the list is increasing, and the write being handled is larger than all in it |
| `CompletionIsFinal` | `CompletedOnce` | from ownership: no step touches a request whose status is final |
| `ImplementsMissionPipe` | `IsAMissionPipe` | refinement mapping: in transit is what is buffered or in hand; a read is waiting from its dispatch to its completion |

### The device's interrupts (`DeviceInterruptProofs`)

| Theorem | States | Argument |
|---|---|---|
| `TypeCorrect` | `[]TypeOK` | the count stops at its limit, so it is zero exactly when nothing is cached |
| `OneOwner` | `[]UrbsOwnedOnce` | with `HandsInv`: each handler holds at most one URB, and only between its first step and its last |
| `NothingSleeps` | `[]NothingParkedAsleep` | with `Quiet`: the deferred queue accepts only while the device is awake or a link power callback runs, and outside these every parked URB of a sleeping device has met the purge |
| `ImplementsInterruptChannel` | `IsAnInterruptChannel` | with `Apart`: what is being raised, cached and found by a URB handler are different interrupts; pending is their union |
| `StalenessIsBounded` | `[]StalenessBounded` | with `Overtaken`, below |

That few newer interrupts pass an old one is not inductive: it says nothing of those that will.
`Overtaken` adds to the newer interrupts the host has received the URBs that may still carry one,
`Ahead`: those that are parked or taken, and the one whose handler saw an empty cache.  The two
together are no more than there are URBs, because a URB leaves `Ahead` when it is given an
interrupt, and one that comes later finds the cached interrupt and takes it.  `UrbsAssumption`,
that there are finitely many URBs, is what makes their number one.

### The host's interrupts (`HostInterruptProofs`)

The invariant is `IInv`: types, with what carries an interrupt (`Carried`); ownership, with one
IOCTL at most in the hand of a run of the completion routine (`Hands`); and `Calm`, what cannot
run once the device has left D0.

| Theorem | States | Argument |
|---|---|---|
| `TypeCorrect` | `[]TypeOK` | a part of `IInv` |
| `OneOwner` | `[]IoctlsOwnedOnce` | taking the head of the queue under any number of completion routines, and cancellation in the middle |
| `FlushIsComplete` | `[]RemovalDrains` | from `Calm`: nothing joins the queue once the device is removed, and the flush does not end before it has seen it empty |
| `InterruptsAreAccounted` | `[]EveryInterruptAccounted` | inductive relative to `IInv` with `Fresh`: what a completion routine carries has been given to nobody before its draining loop begins, and to somebody when it ends |

### The host's pipes (`HostDeviceProofs`)

The invariant is `IInv`: `Locked` (the lock is held by the one reset in its critical section, and
a device with resets in progress is in D0 or leaving it), `Stopping` and `Starting` (how far the
walk over the pipes has come), and `OnBus` (a transfer is on the bus if its pipe runs, and waits if
it does not).

| Theorem | States | Argument |
|---|---|---|
| `TypeCorrect`, `CompletedOnce` | `[]TypeOK`, `[]TransfersCompletedOnce` | inductive together: a transfer is counted when it is completed and leaves the state from which it can be |
| `PortIsQuiet` | `[]PortResetQuiet` | `Stopping` at its last pipe stops all three; `OnBus` then leaves nothing on the bus |
| `StoppedIsReported` | `[]RunningUnlessReported` | `Starting` at its last pipe, and `Locked`: without a lock nobody has stopped a pipe since |

### The life cycle (`LifecycleProofs`)

The controller's invariant is `LifecycleInv`, with one part for each stretch of its life, since what
exists after a call that fails depends on all the calls before it: `Creating` (what `EvtDeviceAdd`
has made exists, the rest does not), `NotStarted` (only the first start finds the
`ChildDeviceInit`), `NoLockYet` (before it there is no lock for the cached interrupt), `Starting` (what the chain of `D0Entry` has made is alive), `Started` (a device
in D0 or on its way out has its queues, and they end after it) and `WholeQueue` (a mission queue
has its lock, its list and its WDF queue, or nothing, outside its own creation).  The model stops at
the first use of a handle without its object and at the assertion of Device.c:419, which a second
start meets; up to there the theorems hold for every choice of failing calls.

| Theorem | States | Argument |
|---|---|---|
| `ControllerTypeCorrect` | `[]ControllerTypeOK` | no chain of calls runs past its end |
| `HandlesAreUsedAlive` | `[]NoInvalidUse` | from each part: the handles a step uses are alive, except in the four ways, each in its own phase |
| `RemovalIsComplete` | `[]OnlyIntrLockLeaks` | `WRQueueDestroy` and `Usb_Destroy` at the end of every path, and `WholeQueue`: blocks are freed through a queue that is there; `NoLockYet`: without a start nothing at all stays behind |
| `QueuesOutlastPlug` | `[]PluggedHasQueues` | `Started` |

For `GadgetOne`:

| Theorem | States | Argument |
|---|---|---|
| `TypeCorrect` | `[]TypeOK` | two timers are never pending at once |
| `TimerIsSafe` | `[]TimerWithinBind` | with `QuietUnbound`: the bus is connected only while bound, so a suspension reported later finds the speed unknown; one about to arm the timer does so while bound, or `del_timer_sync` has met it |
| `BindIsUndone` | `[]NothingHeldUnbound` | `HoldsExactly`: what exists at each point of `zero_bind`, of its error labels and of `zero_unbind` |
| `DelayIsBounded` | `[]DelayWithinParams` | with `DelayFloor`: while the timer may still be armed the next delay is not below the first one |

### The loopback function (`LoopbackFunctionProofs`)

| Theorem | States | Argument |
|---|---|---|
| `CountIsExact` | `OptionsSpec => [](OptionsTypeOK /\ CountExact)` | each step adds or removes at most one function of a finite set |
| `OptionsAreStable` | `OptionsSpec => []OptionsHold` | a store finds the count at zero, hence no function that has read anything |
| `ImplementsOptions` | `LoopbackFunction`'s `Spec => OptionsSpec` | every step is a step of the options or leaves them alone, so both results carry over |
| `TypeCorrect` | `[]TypeOK` of `LoopbackFunction` | `Shape`: what is enabled and queued in each phase of set_alt and disable |
| `QlenIsTheLimit` | `[]AtMostQlen` | from `Shape`: nothing is queued when alloc_requests begins, and it makes one pair a turn; from `OptionsHold`: the attribute is still the function's |
| `NothingLeaks` | `[]PairsAccounted` | inductive relative to `Shape`: the pairs on the two queues are disjoint and distinct, and a new one is new |
| `DataLoopsInOrder` | `[]LoopsInOrder` | what was received, what is queued for the host and what was lost part the messages sent, and the first two increase |

### The mission trip (`MissionTripProofs`)

The composition is proved from the results about its parts, not from their actions.
`MissionTripProofs` instantiates `WRQueueProofs` for each of the two queues, with the same
substitutions by which `MissionTrip` instantiates `WRQueue`.  The last section of `WRQueueProofs`
states what a client needs: an inductive `QueueInv`, and the lemmas `ServedOnce` (no two reads are
served with one write), `ServedStays` and `NextIsFinal` (what a completed request was given does not
change).

| Theorem | States | Argument |
|---|---|---|
| `QueuesAreWRQueues` | each queue satisfies `Init /\ [][Next]_vars` of `WRQueue` | every step of the programs and of the drivers is a step of each queue or leaves it alone, so every theorem about `WRQueue` holds of both |
| `QueuesArePipes` | both queues satisfy `IsAMissionPipe` | the step lemma of `ImplementsMissionPipe`, once per queue |
| `TypeCorrect` | `[]TypeOK` | both `QueueInv` and `TripTypes` |
| `PairingHolds` | `[]OwnResponse` | `PairingInv`, below |

`OwnResponse` speaks of the trips alone, but is true because of the agent.  `PairingInv` follows a
response from one to the other: the mission the agent works on is the one its last read was served
with (`WorksOn`); every response it has stored is to a mission that some read was served with, and
no mission is answered twice, since no write is served to two reads (`AnswersOnce`); every response
a trip was given is one that a read of the second queue was served with, it is never to a later
trip's mission, and the trip under way has none yet (`Responses`).  By counting, a trip before which
every trip was given a response can then only be given its own.

The lemmas behind these are in the same modules; those about queues are in `QueueLemmas`.  They say
what removing an element at any place, taking the tail and appending do to the elements of a
sequence and to its being without repetition; `LoopbackFunctionProofs` adds that a queue of entries
is a queue of pairs and one of messages.

Only model-checked: the liveness properties (`WritesAlwaysComplete`, `RemoteWakeup`,
`WaitersAnswered`, `ResetsReturn`, `WakesHost`, `ToldGetsResponse`), since fairness is outside the
prover's reach.

## 5. Findings

The four violated properties (`TripEnds`, `CachedReachesHost`, `ClearedIsConsumed`,
`AssertHolds`) are disagreements between the code and what its comments, assertions or README
say; `PROJECT.json` gives the lines.  Seen while modelling, and not the subject of a run:

* Misc.c:84-85 ("free anything done half-way") also deletes the NULL handle of a queue that could
  not be made; USBCom.c:566 fills in the context of a queue before it looks at the status of its
  creation; BackChannel.c:224 uses the device without knowing whether it is there.  `NoInvalidUse`
  says where each can happen; it does not exclude them.
* USBCom.c:463 makes a lock at each start, with the same attributes as the locks of the mission
  queues, and nothing deletes it.  The comment at usbdevice.c:391-393 says that the queues are not
  deleted in a disconnect; `Io_FreeEndpointQueues`, called at 400, deletes them.
* A suspension that passed its test of the speed can arm the timer of one.c after
  `del_timer_sync`.  Its callback then looks at a freed device.
* A trip that was interrupted leaves its response behind, and later trips read it for their own,
  each then leaving its own behind.  `OwnResponse` says that nothing worse happens.
* A stranded write may be overtaken by any number of later ones, as each of these is matched
  with a parked read directly.  `OneStrandedPair` bounds how much is stranded, not how long.
* A write longer than the read it meets is cut to the read's length and reported as complete.
* USBCom.c:335 takes an empty deferred queue to mean a sleeping device; it may be awake between
  two URBs, and the wakeup is then ignored.
* An IOCTL may be parked beside an unread update until the next interrupt (ioctl.c:166-173); the
  loop that empties the queue may answer an IOCTL that was issued again with the interrupt it
  already had; with two reads an older interrupt may overwrite a newer one in the cache.
* `ResetDevice` overwrites the status of the port reset (ioctl.c:327).
* `SelectInterfaces` keeps the pipe handles of the earlier configuration (Device.c:901-903).
* BackChannel.c:182 completes a write with a count that was not set when its buffer could not be
  retrieved; `UsbEndpointReset` never completes its request; the blocks of buffered writes come
  from paged pool and are linked under a spin lock (Misc.c:147).
* Without `max_autoresume` the delay of one.c grows with every suspension until its milliseconds
  wrap around.  The comment at one.c:63-65 says autoresume is always set if OTG is enabled;
  one.c:285 sets only the wakeup attribute then, and `autoresume` keeps its parameter's value.
* `lb_config_setup` (one.c:184) calls `func_lb->setup`, which f_one.c never sets.

## 6. What is not modelled

* The control endpoint (`IoEvtControlUrb` answers from its argument alone), endpoint reset and
  configuration (stubs), descriptors, tracing, build and installation files: no state.
* `lb_config_setup` of the Pi gadget (one.c:178-188), which passes two vendor requests on to the
  function and refuses all others: no state.
* `ResetPipe` (nothing calls it), GET_CONFIG_DESCRIPTOR (a copy), power policy settings.
* Byte counts of completions other than those of mission reads, and IOCTL return values.
* The data of bulk transfers in `HostDevice`, which the driver passes through.
* Of the test application: argument parsing and printing (`dump.c` is nothing else), and `-r` and
  `-w`, which make one call each and keep no state.

The two mission queues share nothing but the sequential back channel queue.  Its effect, that
a back channel read in its handler holds up a back channel write and an interrupt IOCTL, is
not in `WRQueue`, where each handler is free to run; every behaviour of the shared queue is
thus among those checked, with respect to safety.  In `MissionTrip` the shared queue is
modelled: `DefaultQueueIdle` guards the start of every call on the back channel.

## 7. Plan

Done: the modules of section 2, in the order mission queue, device interrupts, host
interrupts, host device, life cycle, Pi function, gadget, mission trip; the two abstract
specifications with their refinements; the proofs of section 4, which cover every invariant.

Left, in this order:

1. `UdeDevice`: two `WRQueue`s and a `DeviceInterrupt` behind the one sequential back channel
   queue, to ask whether a handler that gets stuck on one stops the others when the back channel
   has several clients.
2. Action properties of the host modules, as `CompletionIsFinal` is one of `WRQueue`: what is
   completed stays so, and the lock passes from one reset to the next.
3. A refinement of `HostInterrupt` to an abstract channel; `InterruptChannel` is not it, since the
   host may give an older interrupt after a newer one has been cleared.

## 8. Running the checks

In this directory: `tlc -workers 2 -config MCWRQueue.cfg MCWRQueue` and likewise for the other
configurations (`PROJECT.json` names the module of each); `tlapm QueueLemmas.tla` and likewise for
each module whose name ends in `Proofs`.
