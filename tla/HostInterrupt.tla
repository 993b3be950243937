---------------------------- MODULE HostInterrupt ----------------------------
(***************************************************************************)
(* The interrupt path of the host function driver (UDEFX_host/driver/      *)
(* interrupt.c, ioctl.c and the power callbacks of Device.c).              *)
(*                                                                         *)
(* The framework keeps a continuous reader on the interrupt pipe; its      *)
(* completion routine may run on several processors at once.  Each run     *)
(* takes a waiting IOCTL_OSRUSBFX2_GET_INTERRUPT_MESSAGE from              *)
(* InterruptMsgQueue, updates InterruptStatus under its spin lock, and     *)
(* then completes every waiter it can find.  IOCTLs are dispatched in      *)
(* parallel: each looks at InterruptStatus under the spin lock and is      *)
(* completed with the cached update or parked in InterruptMsgQueue.        *)
(*                                                                         *)
(* Interrupts are numbered in the order the pipe delivers them; the number *)
(* stands for the DEVICE_INTR_FLAGS they carry.                            *)
(***************************************************************************)
EXTENDS Naturals, Sequences, FiniteSets, SequencesExt

CONSTANTS
  MaxInterrupts,   \* bound: how many interrupts the device ever sends
  MaxIoctls,       \* bound: how many IOCTLs are ever issued
  MaxOutstanding,  \* how many of them the applications have open at a time
  Readers,         \* the read requests of the continuous reader
  MAX_CACHED_INTR_UPDATES,
  Faults           \* which calls may fail, a subset of FaultKinds

\* buffer: the IOCTL's output buffer;  forward: WdfRequestForwardToIoQueue;
\* readers: the reads of the pipe;  start: WdfIoTargetStart;  zero: empty read
FaultKinds == {"buffer", "forward", "readers", "start", "zero"}

ASSUME BoundsAssumption  == MaxInterrupts \in Nat /\ MaxIoctls \in Nat
ASSUME OpenAssumption    == MaxOutstanding \in Nat
ASSUME CacheAssumption   == MAX_CACHED_INTR_UPDATES \in Nat \ {0}
ASSUME FaultsAssumption  == Faults \subseteq FaultKinds

Interrupts == 1 .. MaxInterrupts
Ioctls     == 1 .. MaxIoctls

VARIABLES
  InterruptMsgQueue,               \* manual WDF queue of waiting IOCTLs
  latestStatus, numUnreadUpdates,  \* InterruptStatus; 0 for no update
  power,                           \* power state of the device
  nIntr,                           \* interrupts delivered by the pipe
  reader,                          \* runs of OsrUsbIoctlGetInterruptMessage
  ioctl,                           \* where each IOCTL is
  newData,                         \* its newData, 0 without bDataReady
  answer,                          \* the interrupt it was completed with, or 0
  folded, cleared, erased, dropped \* interrupts no IOCTL will be given

cacheVars == <<latestStatus, numUnreadUpdates>>
ioctlVars == <<ioctl, newData, answer>>
lostVars  == <<folded, cleared, erased, dropped>>
vars == <<InterruptMsgQueue, cacheVars, power, nIntr, reader, ioctlVars, lostVars>>

ReaderStatus == {"success", "cancelled", "error", "removed"}

\* A run of OsrUsbIoctlGetInterruptMessage: where it is, its arguments, and
\* the request it holds (at most one).
Run == [pc      : {"idle", "retrieve", "update", "complete", "drain"},
        status  : ReaderStatus,
        flags   : Interrupts \cup {0},
        request : SUBSET Ioctls]

Idle == [pc |-> "idle", status |-> "success", flags |-> 0, request |-> {}]

TypeOK ==
  /\ InterruptMsgQueue \in Seq(Ioctls)
  /\ latestStatus \in Interrupts \cup {0}
  /\ numUnreadUpdates \in 0 .. MAX_CACHED_INTR_UPDATES
  /\ latestStatus = 0 <=> numUnreadUpdates = 0
  /\ power \in {"D0", "off", "failed", "removed"}
  /\ nIntr \in 0 .. MaxInterrupts
  /\ reader \in [Readers -> Run]
  /\ ioctl \in [Ioctls -> {"new", "gate", "complete", "forward", "parked", "taken", "done"}]
  /\ newData \in [Ioctls -> Interrupts \cup {0}]
  /\ answer \in [Ioctls -> Interrupts \cup {0}]
  /\ folded \in SUBSET Interrupts
  /\ cleared \in SUBSET (Interrupts \X Interrupts)
  /\ erased \in SUBSET Interrupts
  /\ dropped \in SUBSET Interrupts

\* OsrFxEvtDeviceAdd and OsrFxEvtDevicePrepareHardware have run; D0Entry comes.
Init ==
  /\ InterruptMsgQueue = << >>
  /\ latestStatus = 0
  /\ numUnreadUpdates = 0
  /\ power = "off"
  /\ nIntr = 0
  /\ reader = [r \in Readers |-> Idle]
  /\ ioctl = [q \in Ioctls |-> "new"]
  /\ newData = [q \in Ioctls |-> 0]
  /\ answer = [q \in Ioctls |-> 0]
  /\ folded = {}
  /\ cleared = {}
  /\ erased = {}
  /\ dropped = {}

Cached == {latestStatus} \ {0}
AllIdle == \A r \in Readers : reader[r].pc = "idle"
Handling == {q \in Ioctls : ioctl[q] \in {"gate", "complete", "forward"}}
Open == {q \in Ioctls : ioctl[q] \notin {"new", "done"}}

\* OsrCompleteInterruptRequest(q, status, v)
OsrCompleteInterruptRequest(q, status, v) ==
  /\ ioctl' = [ioctl EXCEPT ![q] = "done"]
  /\ \/ /\ answer' = [answer EXCEPT ![q] = IF status = "success" THEN v ELSE 0]
        /\ UNCHANGED dropped
     \/ /\ "buffer" \in Faults
        /\ dropped' = IF status = "success" THEN dropped \cup {v} ELSE dropped
        /\ UNCHANGED answer

-----------------------------------------------------------------------------
(* IOCTL_OSRUSBFX2_GET_INTERRUPT_MESSAGE *)

\* An application issues an IOCTL; the parallel default queue, which is power
\* managed, dispatches it.
IssueIoctl(q) ==
  /\ power = "D0"
  /\ ioctl[q] = "new"
  /\ \A p \in Ioctls : p < q => ioctl[p] # "new"
  /\ Cardinality(Open) < MaxOutstanding
  /\ ioctl' = [ioctl EXCEPT ![q] = "gate"]
  /\ UNCHANGED <<InterruptMsgQueue, cacheVars, power, nIntr, reader, newData,
                 answer, lostVars>>

\* Faulty variant: the update is read and left in place.
IoctlGate_NoClear(q) ==
  /\ ioctl[q] = "gate"
  /\ newData' = [newData EXCEPT ![q] = latestStatus]
  /\ ioctl' = [ioctl EXCEPT ![q] =
                 IF numUnreadUpdates > 0 THEN "complete" ELSE "forward"]
  /\ UNCHANGED <<InterruptMsgQueue, cacheVars, power, nIntr, reader, answer, lostVars>>

\* "data is ready ahead of time, grab it", under the spin lock.
IoctlGate(q) ==
  /\ ioctl[q] = "gate"
  /\ newData' = [newData EXCEPT ![q] = latestStatus]
  /\ ioctl' = [ioctl EXCEPT ![q] =
                 IF numUnreadUpdates > 0 THEN "complete" ELSE "forward"]
  /\ latestStatus' = 0
  /\ numUnreadUpdates' = 0
  /\ UNCHANGED <<InterruptMsgQueue, power, nIntr, reader, answer, lostVars>>

IoctlComplete(q) ==
  /\ ioctl[q] = "complete"
  /\ OsrCompleteInterruptRequest(q, "success", newData[q])
  /\ newData' = [newData EXCEPT ![q] = 0]
  /\ UNCHANGED <<InterruptMsgQueue, cacheVars, power, nIntr, reader, folded,
                 cleared, erased>>

\* Without an update the IOCTL is parked, or fails if it cannot be.
IoctlForward(q) ==
  /\ ioctl[q] = "forward"
  /\ \/ /\ InterruptMsgQueue' = Append(InterruptMsgQueue, q)
        /\ ioctl' = [ioctl EXCEPT ![q] = "parked"]
     \/ /\ "forward" \in Faults
        /\ ioctl' = [ioctl EXCEPT ![q] = "done"]
        /\ UNCHANGED InterruptMsgQueue
  /\ UNCHANGED <<cacheVars, power, nIntr, reader, newData, answer, lostVars>>

\* "WDK will automatically cancel this request if needed": the i-th one.
CancelIoctl(i) ==
  /\ ioctl' = [ioctl EXCEPT ![InterruptMsgQueue[i]] = "done"]
  /\ InterruptMsgQueue' = RemoveAt(InterruptMsgQueue, i)
  /\ UNCHANGED <<cacheVars, power, nIntr, reader, newData, answer, lostVars>>

-----------------------------------------------------------------------------
(* The continuous reader *)

\* Calls OsrUsbIoctlGetInterruptMessage(Device, status, flags).
Enter(r, status, flags) ==
  reader' = [reader EXCEPT ![r] = [pc |-> "retrieve", status |-> status,
                                   flags |-> flags, request |-> {}]]

\* OsrFxEvtUsbInterruptPipeReadComplete; a zero-length read is ignored.
ReadComplete(r) ==
  /\ power = "D0"
  /\ reader[r].pc = "idle"
  /\ \A s \in Readers : reader[s].status = "success"
  /\ \/ /\ nIntr < MaxInterrupts
        /\ nIntr' = nIntr + 1
        /\ Enter(r, "success", nIntr + 1)
     \/ /\ "zero" \in Faults
        /\ UNCHANGED <<nIntr, reader>>
  /\ UNCHANGED <<InterruptMsgQueue, cacheVars, power, ioctlVars, lostVars>>

\* OsrFxEvtUsbInterruptReadersFailed: the framework calls it once no read is
\* left, and restarts the reads after it, since it returns TRUE.
ReadersFailed(r) ==
  /\ power = "D0"
  /\ AllIdle
  /\ "readers" \in Faults
  /\ \E status \in {"cancelled", "error"} : Enter(r, status, 0)
  /\ UNCHANGED <<InterruptMsgQueue, cacheVars, power, nIntr, ioctlVars, lostVars>>

\* Faulty variant: the request stays in the queue.
Retrieve_Peeks(r, found, none) ==
  \/ /\ InterruptMsgQueue # << >>
     /\ reader' = [reader EXCEPT ![r].pc = found,
                                 ![r].request = {Head(InterruptMsgQueue)}]
     /\ ioctl' = [ioctl EXCEPT ![Head(InterruptMsgQueue)] = "taken"]
     /\ UNCHANGED InterruptMsgQueue
  \/ /\ InterruptMsgQueue = << >>
     /\ reader' = [reader EXCEPT ![r] = IF none = "idle" THEN Idle ELSE [@ EXCEPT !.pc = none]]
     /\ UNCHANGED <<InterruptMsgQueue, ioctl>>

\* WdfIoQueueRetrieveNextRequest(InterruptMsgQueue) by run r, which goes on at
\* "found" or at "none".
Retrieve(r, found, none) ==
  \/ /\ InterruptMsgQueue # << >>
     /\ reader' = [reader EXCEPT ![r].pc = found,
                                 ![r].request = {Head(InterruptMsgQueue)}]
     /\ ioctl' = [ioctl EXCEPT ![Head(InterruptMsgQueue)] = "taken"]
     /\ InterruptMsgQueue' = Tail(InterruptMsgQueue)
  \/ /\ InterruptMsgQueue = << >>
     /\ reader' = [reader EXCEPT ![r] = IF none = "idle" THEN Idle ELSE [@ EXCEPT !.pc = none]]
     /\ UNCHANGED <<InterruptMsgQueue, ioctl>>

ReaderRetrieve(r) ==
  /\ reader[r].pc = "retrieve"
  /\ Retrieve(r, "update", "update")
  /\ UNCHANGED <<cacheVars, power, nIntr, newData, answer, lostVars>>

\* Faulty variant, used to test the properties: the count wraps one too late.
Counted_OffByOne(n) == IF n <= MAX_CACHED_INTR_UPDATES THEN n + 1 ELSE n

Counted(n) == IF n < MAX_CACHED_INTR_UPDATES THEN n + 1 ELSE n

\* New data and a waiter: the cache is cleared.
UpdateConsumed(r) ==
  /\ reader[r].status = "success"
  /\ reader[r].request # {}
  /\ cleared' = cleared \cup (Cached \X {reader[r].flags})
  /\ latestStatus' = 0
  /\ numUnreadUpdates' = 0
  /\ UNCHANGED <<folded, erased>>

\* New data and no waiter: "overwrite any existing status and bump the count".
UpdateCached(r) ==
  /\ reader[r].status = "success"
  /\ reader[r].request = {}
  /\ folded' = folded \cup Cached
  /\ latestStatus' = reader[r].flags
  /\ numUnreadUpdates' = Counted(numUnreadUpdates)
  /\ UNCHANGED <<cleared, erased>>

\* "error or termination: erase any prior data"
UpdateErased(r) ==
  /\ reader[r].status \in {"error", "removed"}
  /\ erased' = erased \cup Cached
  /\ latestStatus' = 0
  /\ numUnreadUpdates' = 0
  /\ UNCHANGED <<folded, cleared>>

UpdateCancelled(r) ==
  /\ reader[r].status = "cancelled"
  /\ UNCHANGED <<cacheVars, folded, cleared, erased>>

\* The section under the spin lock.
ReaderUpdate(r) ==
  /\ reader[r].pc = "update"
  /\ reader' = [reader EXCEPT ![r] = IF reader[r].request = {} THEN Idle
                                     ELSE [@ EXCEPT !.pc = "complete"]]
  /\ \/ UpdateConsumed(r)
     \/ UpdateCached(r)
     \/ UpdateErased(r)
     \/ UpdateCancelled(r)
  /\ UNCHANGED <<InterruptMsgQueue, power, nIntr, ioctlVars, dropped>>

\* One turn of the draining loop completes the request in hand ...
ReaderComplete(r) ==
  /\ reader[r].pc = "complete"
  /\ \E q \in reader[r].request :
        OsrCompleteInterruptRequest(q, reader[r].status, reader[r].flags)
  /\ reader' = [reader EXCEPT ![r].pc = "drain", ![r].request = {}]
  /\ UNCHANGED <<InterruptMsgQueue, cacheVars, power, nIntr, newData, folded,
                 cleared, erased>>

\* Faulty variant: only one waiter is completed.
ReaderDrain_One(r) ==
  /\ reader[r].pc = "drain"
  /\ reader' = [reader EXCEPT ![r] = Idle]
  /\ UNCHANGED <<InterruptMsgQueue, cacheVars, power, nIntr, ioctlVars, lostVars>>

\* ... and looks for the next one.
ReaderDrain(r) ==
  /\ reader[r].pc = "drain"
  /\ Retrieve(r, "complete", "idle")
  /\ UNCHANGED <<cacheVars, power, nIntr, newData, answer, lostVars>>

-----------------------------------------------------------------------------
(* Power *)

\* OsrFxEvtDeviceD0Entry starts the reader; a failure removes the device.
D0Entry ==
  /\ power = "off"
  /\ \/ power' = "D0"
     \/ "start" \in Faults /\ power' = "failed"
  /\ UNCHANGED <<InterruptMsgQueue, cacheVars, nIntr, reader, ioctlVars, lostVars>>

\* OsrFxEvtDeviceD0Exit.  The framework stops dispatching IOCTLs and waits for
\* the ones the driver is handling, and WdfIoTargetStop waits for the reads;
\* parked IOCTLs do not hold it up.
D0Exit ==
  /\ power = "D0"
  /\ AllIdle
  /\ Handling = {}
  /\ power' = "off"
  /\ UNCHANGED <<InterruptMsgQueue, cacheVars, nIntr, reader, ioctlVars, lostVars>>

\* Faulty variant: the queue is not serviced.
SelfManagedIoFlush_Empty(r) ==
  /\ power \in {"off", "failed"}
  /\ power' = "removed"
  /\ UNCHANGED <<InterruptMsgQueue, cacheVars, nIntr, reader, ioctlVars, lostVars>>

\* OsrFxEvtDeviceSelfManagedIoFlush, when the device is removed.
SelfManagedIoFlush(r) ==
  /\ power \in {"off", "failed"}
  /\ power' = "removed"
  /\ Enter(r, "removed", 0)
  /\ UNCHANGED <<InterruptMsgQueue, cacheVars, nIntr, ioctlVars, lostVars>>

-----------------------------------------------------------------------------
IoctlStep(q)  == IoctlGate(q) \/ IoctlComplete(q) \/ IoctlForward(q)
ReaderStep(r) == ReaderRetrieve(r) \/ ReaderUpdate(r) \/ ReaderComplete(r) \/ ReaderDrain(r)

Next ==
  \/ \E q \in Ioctls : IssueIoctl(q) \/ IoctlStep(q)
  \/ \E i \in DOMAIN InterruptMsgQueue : CancelIoctl(i)
  \/ \E r \in Readers : ReadComplete(r) \/ ReadersFailed(r) \/ ReaderStep(r)
  \/ D0Entry
  \/ D0Exit
  \/ \E r \in Readers : SelfManagedIoFlush(r)

\* Handlers and completion routines that run finish.
Fairness ==
  /\ \A q \in Ioctls : WF_vars(IoctlStep(q))
  /\ \A r \in Readers : WF_vars(ReaderStep(r))

Spec == Init /\ [][Next]_vars /\ Fairness

-----------------------------------------------------------------------------
(* Properties *)

Answered == {answer[q] : q \in Ioctls} \ {0}
Ready    == {newData[q] : q \in Ioctls} \ {0}
InHand   == {reader[r].flags : r \in {s \in Readers : reader[s].pc # "idle"}} \ {0}
Cleared  == {c[1] : c \in cleared}

\* Every interrupt the pipe delivered is in exactly one place: in the hands of
\* a completion routine or answered by it, in the cache, taken from it by one
\* IOCTL, answered or dropped by an IOCTL, or taken out of the cache by a newer
\* update, a served waiter or an error.
EveryInterruptAccounted ==
  LET places == <<InHand \cup Answered \cup dropped, Cached, Ready, folded,
                  Cleared, erased>>
  IN  /\ UNION Range(places) = 1 .. nIntr
      /\ \A i, j \in DOMAIN places : i # j => places[i] \cap places[j] = {}
      /\ \A p, q \in Ioctls : p # q /\ newData[p] # 0 => newData[p] # newData[q]

\* A waiting IOCTL is in the queue once or held by one completion routine:
\* completing a request twice is a bug check.
IoctlsOwnedOnce ==
  /\ IsInjective(InterruptMsgQueue)
  /\ \A q \in Ioctls :
       /\ ioctl[q] = "parked" <=> q \in Range(InterruptMsgQueue)
       /\ ioctl[q] = "taken" <=> \E r \in Readers : q \in reader[r].request
  /\ \A r, s \in Readers : r # s => reader[r].request \cap reader[s].request = {}

\* "Service the interrupt message queue to drain any outstanding requests":
\* once the flush has run, no IOCTL is open and none can be any more.
RemovalDrains == power = "removed" /\ AllIdle => Open = {}

\* "we will unconditionally empty the queue": whoever waits when a completion
\* routine starts is answered.
WaitersAnswered ==
  \A q \in Ioctls :
    ioctl[q] = "parked" /\ (\E r \in Readers : reader[r].pc = "retrieve")
      ~> ioctl[q] = "done"

\* "clear the data, as it will be consumed by this waiter right down below"
\* (ioctl.c:443): what is cleared is no newer than what the waiter is given.
ClearedIsConsumed == \A c \in cleared : c[1] <= c[2]
==============================================================================
