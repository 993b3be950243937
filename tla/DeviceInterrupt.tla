--------------------------- MODULE DeviceInterrupt ---------------------------
(***************************************************************************)
(* The INTERRUPT/IN endpoint of the virtual device (UDEFX2/USBCom.c,       *)
(* BackChannel.c and the link power callbacks of usbdevice.c).             *)
(*                                                                         *)
(* Three parties meet in the device's IO_CONTEXT.  The back channel raises *)
(* interrupts, one IOCTL at a time (DefaultQueue is sequential).  The host *)
(* sends interrupt URBs, which InterruptUrbQueue dispatches one at a time. *)
(* The link goes to sleep and comes back, and either callback is two steps *)
(* the others can come between: IsAwake and the purge or the restart of    *)
(* IntrDeferredQueue.  An interrupt that finds a URB parked completes it;  *)
(* one that does not is cached, newest wins, and asks for a remote wakeup. *)
(*                                                                         *)
(* Interrupts are numbered in the order they are raised; the number stands *)
(* for the DEVICE_INTR_FLAGS they carry.  The host has a fixed set of URBs *)
(* and sends one again once it is completed.                               *)
(***************************************************************************)
EXTENDS Naturals, Sequences, FiniteSets, SequencesExt

CONSTANTS
  MaxRaises,     \* bound: how many interrupts are ever raised
  Urbs,          \* the URBs of the host's reader
  INTR_STATE_MAX_CACHED_UPDATES,
  Faults         \* which calls may fail, a subset of FaultKinds

\* ioctl: the IOCTL's own buffer;  buffer: the buffer of a URB;
\* forward: WdfRequestForwardToIoQueue;  code: a URB with a foreign IOCTL code
FaultKinds == {"ioctl", "buffer", "forward", "code"}

ASSUME RaisesAssumption == MaxRaises \in Nat
ASSUME UrbsAssumption   == IsFiniteSet(Urbs)
ASSUME CacheAssumption  == INTR_STATE_MAX_CACHED_UPDATES \in Nat \ {0}
ASSUME FaultsAssumption == Faults \subseteq FaultKinds

Raises == 1 .. MaxRaises

VARIABLES
  IntrDeferredQueue,  \* manual WDF queue of parked URBs
  accepting,          \* whether it takes requests (FALSE once purged)
  latestStatus,       \* IntrState: the cached interrupt, 0 for none
  numUnreadUpdates,   \* IntrState: how many were folded into it
  IsAwake,            \* what the link-power callbacks noted last
  linkPc,             \* where a link-power callback is
  wake,               \* UdeCx has been asked for a remote wakeup
  nRaise, raisePc,    \* interrupts raised; where Io_RaiseInterrupt is
  taken,              \* the URBs it took off the deferred queue (at most one)
  urb, urbPc,         \* the URB being handled; where IoEvtInterruptInUrb is
  found,              \* its LatestStatus, 0 without bHasData
  ust,                \* status of each URB
  delivered,          \* interrupts in the order the host received them
  dropped             \* interrupts lost to a fault

raiseVars == <<nRaise, raisePc, taken>>
urbVars   == <<urb, urbPc, found>>
linkVars  == <<IsAwake, linkPc, wake, accepting>>
vars == <<IntrDeferredQueue, latestStatus, numUnreadUpdates, linkVars,
          raiseVars, urbVars, ust, delivered, dropped>>

\* "host": not sent, or completed and back with the host;  "purged": still in
\* the deferred queue, but the purge is about to cancel it
UrbStatus == {"host", "handling", "parked", "purged", "taken", "leaked"}

TypeOK ==
  /\ IntrDeferredQueue \in Seq(Urbs)
  /\ accepting \in BOOLEAN
  /\ latestStatus \in Raises \cup {0}
  /\ numUnreadUpdates \in 0 .. INTR_STATE_MAX_CACHED_UPDATES
  /\ latestStatus = 0 <=> numUnreadUpdates = 0
  /\ IsAwake \in BOOLEAN
  /\ linkPc \in {"idle", "exit", "entry"}
  /\ wake \in BOOLEAN
  /\ nRaise \in 0 .. MaxRaises
  /\ raisePc \in {"idle", "retrieve", "save", "wake", "complete"}
  /\ raisePc # "idle" => nRaise # 0
  /\ taken \in SUBSET Urbs
  /\ urb \in SUBSET Urbs
  /\ urbPc \in {"idle", "gate", "complete", "forward", "stuck"}
  /\ found \in Raises \cup {0}
  /\ found # 0 <=> urbPc = "complete"
  /\ ust \in [Urbs -> UrbStatus]
  /\ delivered \in Seq(Raises)
  /\ dropped \in SUBSET Raises

\* Io_CreateDeferredIntrQueue has run; the device starts out awake.
Init ==
  /\ IntrDeferredQueue = << >>
  /\ accepting = TRUE
  /\ latestStatus = 0
  /\ numUnreadUpdates = 0
  /\ IsAwake = TRUE
  /\ linkPc = "idle"
  /\ wake = FALSE
  /\ nRaise = 0
  /\ raisePc = "idle"
  /\ taken = {}
  /\ urb = {}
  /\ urbPc = "idle"
  /\ found = 0
  /\ ust = [u \in Urbs |-> "host"]
  /\ delivered = << >>
  /\ dropped = {}

-----------------------------------------------------------------------------
(* Raising an interrupt *)

\* BackChannelIoctl(IOCTL_UDEFX2_GENERATE_INTERRUPT): a missing or ill-sized
\* buffer only fails the IOCTL.
BackChannelIoctl ==
  /\ raisePc = "idle"
  /\ \/ /\ nRaise < MaxRaises
        /\ nRaise' = nRaise + 1
        /\ raisePc' = "retrieve"
     \/ /\ "ioctl" \in Faults
        /\ UNCHANGED <<nRaise, raisePc>>
  /\ UNCHANGED <<IntrDeferredQueue, latestStatus, numUnreadUpdates, linkVars,
                 taken, urbVars, ust, delivered, dropped>>

\* Io_RaiseInterrupt looks for a parked URB.  One that a purge has not got to
\* yet may still be there.
RaiseRetrieve ==
  /\ raisePc = "retrieve"
  /\ \/ /\ IntrDeferredQueue # << >>
        /\ LET u == Head(IntrDeferredQueue)
           IN  /\ taken' = {u}
               /\ ust' = [ust EXCEPT ![u] = "taken"]
        /\ IntrDeferredQueue' = Tail(IntrDeferredQueue)
        /\ raisePc' = "complete"
     \/ /\ IntrDeferredQueue = << >>
        /\ raisePc' = "save"
        /\ UNCHANGED <<IntrDeferredQueue, taken, ust>>
  /\ UNCHANGED <<latestStatus, numUnreadUpdates, linkVars, nRaise, urbVars,
                 delivered, dropped>>

\* Faulty variant, used to test the properties: the cap is off by one.
Counted_OffByOne(n) == IF n <= INTR_STATE_MAX_CACHED_UPDATES THEN n + 1 ELSE n

Counted(n) == IF n < INTR_STATE_MAX_CACHED_UPDATES THEN n + 1 ELSE n

\* Faulty variant: an unread update is kept and the new one discarded, though
\* it is counted.
RaiseSave_KeepsOld ==
  /\ raisePc = "save"
  /\ raisePc' = "wake"
  /\ latestStatus' = IF numUnreadUpdates = 0 THEN nRaise ELSE latestStatus
  /\ numUnreadUpdates' = Counted(numUnreadUpdates)
  /\ UNCHANGED <<IntrDeferredQueue, linkVars, nRaise, taken, urbVars, ust,
                 delivered, dropped>>

\* Without one the update is cached under the spin lock.
RaiseSave ==
  /\ raisePc = "save"
  /\ raisePc' = "wake"
  /\ latestStatus' = nRaise
  /\ numUnreadUpdates' = Counted(numUnreadUpdates)
  /\ UNCHANGED <<IntrDeferredQueue, linkVars, nRaise, taken, urbVars, ust,
                 delivered, dropped>>

\* Faulty variant: the call is left out.
SignalWake_Omitted == UNCHANGED wake

\* What UdecxUsbDeviceSignalWake achieves: a device that is awake is not woken.
SignalWake == wake' = (wake \/ ~IsAwake)

RaiseWake ==
  /\ raisePc = "wake"
  /\ raisePc' = "idle"
  /\ SignalWake
  /\ UNCHANGED <<IntrDeferredQueue, accepting, latestStatus, numUnreadUpdates,
                 IsAwake, linkPc, nRaise, taken, urbVars, ust, delivered,
                 dropped>>

\* IoCompletePendingRequest(u, v): the URB goes back to the host, with the
\* update unless its buffer cannot be used.
IoCompletePendingRequest(u, v) ==
  /\ ust' = [ust EXCEPT ![u] = "host"]
  /\ \/ /\ delivered' = Append(delivered, v)
        /\ UNCHANGED dropped
     \/ /\ "buffer" \in Faults
        /\ dropped' = dropped \cup {v}
        /\ UNCHANGED delivered

RaiseComplete ==
  /\ raisePc = "complete"
  /\ raisePc' = "idle"
  /\ \E u \in taken : IoCompletePendingRequest(u, nRaise)
  /\ taken' = {}
  /\ UNCHANGED <<IntrDeferredQueue, latestStatus, numUnreadUpdates, linkVars,
                 nRaise, urbVars>>

-----------------------------------------------------------------------------
(* Handling an interrupt URB *)

\* The host sends a URB and InterruptUrbQueue dispatches it, whatever the link
\* does meanwhile.  A URB with the wrong IOCTL code is neither completed nor
\* forwarded, and the sequential queue waits for it forever.
UrbArrives(u) ==
  /\ urbPc = "idle"
  /\ ust[u] = "host"
  /\ urb' = {u}
  /\ \/ /\ urbPc' = "gate"
        /\ ust' = [ust EXCEPT ![u] = "handling"]
     \/ /\ "code" \in Faults
        /\ urbPc' = "stuck"
        /\ ust' = [ust EXCEPT ![u] = "leaked"]
  /\ UNCHANGED <<IntrDeferredQueue, latestStatus, numUnreadUpdates, linkVars,
                 raiseVars, found, delivered, dropped>>

\* Faulty variant: the cache is not looked at.
UrbGate_IgnoresCache ==
  /\ urbPc = "gate"
  /\ urbPc' = "forward"
  /\ UNCHANGED <<IntrDeferredQueue, latestStatus, numUnreadUpdates, linkVars,
                 raiseVars, urb, found, ust, delivered, dropped>>

\* "gate cached data we may have and clear it"
UrbGate ==
  /\ urbPc = "gate"
  /\ found' = latestStatus
  /\ urbPc' = IF numUnreadUpdates > 0 THEN "complete" ELSE "forward"
  /\ latestStatus' = 0
  /\ numUnreadUpdates' = 0
  /\ UNCHANGED <<IntrDeferredQueue, linkVars, raiseVars, urb, ust, delivered,
                 dropped>>

UrbComplete ==
  /\ urbPc = "complete"
  /\ urbPc' = "idle"
  /\ \E u \in urb : IoCompletePendingRequest(u, found)
  /\ urb' = {}
  /\ found' = 0
  /\ UNCHANGED <<IntrDeferredQueue, latestStatus, numUnreadUpdates, linkVars,
                 raiseVars>>

\* Faulty variant: the URB is sent back although the queue took it.
ParkedAs_Host == "host"

\* What a URB that the queue took is then.
ParkedAs == "parked"

\* A purged queue, or a failing framework, sends the URB back with an error.
UrbForward ==
  /\ urbPc = "forward"
  /\ urbPc' = "idle"
  /\ \E u \in urb :
        \/ /\ accepting
           /\ IntrDeferredQueue' = Append(IntrDeferredQueue, u)
           /\ ust' = [ust EXCEPT ![u] = ParkedAs]
        \/ /\ ~accepting \/ "forward" \in Faults
           /\ ust' = [ust EXCEPT ![u] = "host"]
           /\ UNCHANGED IntrDeferredQueue
  /\ urb' = {}
  /\ UNCHANGED <<latestStatus, numUnreadUpdates, linkVars, raiseVars, found,
                 delivered, dropped>>

\* The host or a purge cancels the i-th parked URB (IoEvtCancelInterruptInUrb).
CancelUrb(i) ==
  /\ ust' = [ust EXCEPT ![IntrDeferredQueue[i]] = "host"]
  /\ IntrDeferredQueue' = RemoveAt(IntrDeferredQueue, i)
  /\ UNCHANGED <<latestStatus, numUnreadUpdates, linkVars, raiseVars, urbVars,
                 delivered, dropped>>

-----------------------------------------------------------------------------
(* Link power *)

\* UsbDevice_EvtUsbDeviceLinkPowerExit notes that the link is down...
LinkPowerExit ==
  /\ linkPc = "idle"
  /\ IsAwake
  /\ linkPc' = "exit"
  /\ IsAwake' = FALSE
  /\ wake' = FALSE
  /\ UNCHANGED <<IntrDeferredQueue, accepting, latestStatus, numUnreadUpdates,
                 raiseVars, urbVars, ust, delivered, dropped>>

\* Faulty variant: the queue is only stopped.
PurgedAs_Stop == "parked"

\* What WdfIoQueuePurge makes of the URBs it finds parked: it cancels them, but
\* does not wait until they are gone.
PurgedAs == "purged"

\* ... and then purges the deferred queue, which takes no URB from here on.
Io_DeviceSlept ==
  /\ linkPc = "exit"
  /\ linkPc' = "idle"
  /\ accepting' = FALSE
  /\ ust' = [u \in Urbs |-> IF ust[u] = "parked" THEN PurgedAs ELSE ust[u]]
  /\ UNCHANGED <<IntrDeferredQueue, latestStatus, numUnreadUpdates, IsAwake, wake,
                 raiseVars, urbVars, delivered, dropped>>

\* UsbDevice_EvtUsbDeviceLinkPowerEntry starts the queue again...
Io_DeviceWokeUp ==
  /\ linkPc = "idle"
  /\ ~IsAwake
  /\ linkPc' = "entry"
  /\ accepting' = TRUE
  /\ UNCHANGED <<IntrDeferredQueue, latestStatus, numUnreadUpdates, IsAwake, wake,
                 raiseVars, urbVars, ust, delivered, dropped>>

\* ... before it notes that the link is up.
LinkPowerEntry ==
  /\ linkPc = "entry"
  /\ linkPc' = "idle"
  /\ IsAwake' = TRUE
  /\ wake' = FALSE
  /\ UNCHANGED <<IntrDeferredQueue, accepting, latestStatus, numUnreadUpdates,
                 raiseVars, urbVars, ust, delivered, dropped>>

-----------------------------------------------------------------------------
RaiseStep == RaiseRetrieve \/ RaiseSave \/ RaiseWake \/ RaiseComplete
UrbStep   == UrbGate \/ UrbComplete \/ UrbForward
LinkPowerStep == LinkPowerExit \/ Io_DeviceSlept \/ Io_DeviceWokeUp \/ LinkPowerEntry

Next ==
  \/ BackChannelIoctl
  \/ RaiseStep
  \/ \E u \in Urbs : UrbArrives(u)
  \/ UrbStep
  \/ \E i \in DOMAIN IntrDeferredQueue : CancelUrb(i)
  \/ LinkPowerStep

\* Running handlers and callbacks finish, UdeCx resumes a device that asked to be woken, and
\* the host keeps sending URBs to a device that is awake.
Fairness ==
  /\ WF_vars(RaiseStep)
  /\ WF_vars(UrbStep)
  /\ WF_vars(Io_DeviceSlept \/ LinkPowerEntry)
  /\ WF_vars(wake /\ Io_DeviceWokeUp)
  /\ WF_vars(IsAwake /\ \E u \in Urbs : UrbArrives(u))

Spec == Init /\ [][Next]_vars /\ Fairness

-----------------------------------------------------------------------------
(* Properties *)

\* Interrupts a handler has in hand: the one being raised until it is cached
\* or delivered, and the one found by a URB until it is delivered.
BeingRaised == IF raisePc \in {"retrieve", "save", "complete"} THEN {nRaise} ELSE {}
Found       == {found} \ {0}
Cached      == {latestStatus} \ {0}

\* The endpoint is an InterruptChannel: an interrupt that has been raised is in
\* a handler's hands or in the cache until the host receives it, once, or a
\* newer one takes its place, and a URB that cannot carry it is the only thing
\* that loses it, whatever handlers, cancellations and the link do in between.
Channel == INSTANCE InterruptChannel WITH
  pending <- BeingRaised \cup Cached \cup Found,
  lost    <- dropped

IsAnInterruptChannel == Channel!ChannelSpec

\* The race between caching an update and parking URBs can make an old update
\* reach the host after newer ones.  How many newer ones may pass it is bounded
\* by the host's URBs: every URB sent after the update was cached takes it.
StalenessBounded ==
  \A v \in Cached \cup Found :
    Cardinality({i \in DOMAIN delivered : delivered[i] > v}) <= Cardinality(Urbs)

\* A parked URB, being purged or not, is in the deferred queue once and in
\* nobody's hand: completing it a second time would be a bug check.
UrbsOwnedOnce ==
  /\ IsInjective(IntrDeferredQueue)
  /\ \A u \in Urbs :
       /\ ust[u] \in {"parked", "purged"} <=> u \in Range(IntrDeferredQueue)
       /\ ust[u] = "taken" <=> u \in taken
       /\ ust[u] \in {"handling", "leaked"} <=> u \in urb

\* "... we will manually purge it": once LinkPowerExit has returned, nothing stays
\* parked while the device sleeps.  What the deferred queue still holds is what
\* the purge has yet to cancel; a URB whose handler had decided to park it
\* before the purge is not let in after it.
NothingParkedAsleep ==
  ~IsAwake /\ linkPc = "idle" =>
    \A u \in Range(IntrDeferredQueue) : ust[u] = "purged"

\* "Interrupt also generates Remote Wakeup if the virtual device is in
\* low-power mode" (README.md).
RemoteWakeup == (raisePc = "save" /\ ~IsAwake) ~> IsAwake

\* "Upon request from a back-channel controller test app, generates an
\* interrupt from the virtual device" (README.md): an awake device with a
\* willing host does not sit on a cached update.
CachedReachesHost == []<>(numUnreadUpdates = 0 \/ ~IsAwake)
==============================================================================
