----------------------------- MODULE HostDevice ------------------------------
(***************************************************************************)
(* Bulk transfers, device reset and power in the host function driver      *)
(* (UDEFX_host/driver: bulkrwr.c, ResetDevice in ioctl.c, and the PnP and  *)
(* power callbacks of Device.c).                                           *)
(*                                                                         *)
(* Reads and writes arrive on two sequential queues and are sent to the    *)
(* bulk pipes.  IOCTL_OSRUSBFX2_RESET_DEVICE may run on several threads:   *)
(* it takes ResetDeviceWaitLock, stops the three pipes, resets the port    *)
(* and starts them again.  The framework starts, suspends, stops and       *)
(* removes the device around both.                                         *)
(***************************************************************************)
EXTENDS Naturals, Sequences

CONSTANTS
  MaxTransfers,    \* bound: requests ever issued in each direction
  Resets,          \* the reset IOCTLs
  MaxStarts,       \* bound: how often the PnP manager starts the device
  Faults           \* which calls may fail, a subset of FaultKinds

\* request: validating or formatting a transfer;  send: WdfRequestSend;
\* lock: WdfWaitLockAcquire;  start: WdfIoTargetStart;
\* prepare: a call of PrepareHardware;  pipes: a configuration without a pipe
FaultKinds == {"request", "send", "lock", "start", "prepare", "pipes"}

ASSUME TransfersAssumption == MaxTransfers \in Nat
ASSUME StartsAssumption    == MaxStarts \in Nat
ASSUME FaultsAssumption    == Faults \subseteq FaultKinds

\* In the order StopAllPipes and StartAllPipes take them.
PipeOrder == <<"InterruptPipe", "BulkReadPipe", "BulkWritePipe">>
Pipes == {PipeOrder[i] : i \in 1 .. 3}
Dirs  == {"Read", "Write"}
PipeOf == [Read |-> "BulkReadPipe", Write |-> "BulkWritePipe"]

VARIABLES
  handle,      \* the configuration each pipe handle is from, 0 for NULL
  nStarts,     \* the current configuration
  target,      \* the I/O target of each pipe
  power,       \* what the framework has the device do
  action,      \* why it is leaving D0
  lock,        \* who holds ResetDeviceWaitLock (at most one reset)
  reset,       \* where each ResetDevice is, and at which pipe
  startedOk,   \* the last StartAllPipes succeeded
  bulk,        \* the transfer in each sequential queue
  stopped,     \* whether EvtIoStop was called for it
  issued, done \* transfers dispatched and completed in each direction

pnpVars   == <<handle, nStarts, power, action>>
resetVars == <<lock, reset, startedOk>>
bulkVars  == <<bulk, stopped, issued, done>>
vars == <<pnpVars, target, resetVars, bulkVars>>

ResetPc == {"new", "acquire", "stop", "stopping", "port", "start", "release", "done"}

TypeOK ==
  /\ handle \in [Pipes -> 0 .. MaxStarts]
  /\ nStarts \in 0 .. MaxStarts
  /\ target \in [Pipes -> {"started", "stopped"}]
  /\ power \in {"stopped", "off", "D0", "leaving", "removed"}
  /\ action \in {"suspend", "purge"}
  /\ lock \in SUBSET Resets
  /\ reset \in [Resets -> [pc : ResetPc, at : 1 .. 3]]
  /\ startedOk \in BOOLEAN
  /\ bulk \in [Dirs -> {"none", "send", "pended", "sent", "completing"}]
  /\ stopped \in [Dirs -> BOOLEAN]
  /\ issued \in [Dirs -> 0 .. MaxTransfers]
  /\ done \in [Dirs -> 0 .. MaxTransfers]

\* OsrFxEvtDeviceAdd has created the queues, the lock and the context.
Init ==
  /\ handle = [p \in Pipes |-> 0]
  /\ nStarts = 0
  /\ target = [p \in Pipes |-> "stopped"]
  /\ power = "stopped"
  /\ action = "suspend"
  /\ lock = {}
  /\ reset = [k \in Resets |-> [pc |-> "new", at |-> 1]]
  /\ startedOk = TRUE
  /\ bulk = [d \in Dirs |-> "none"]
  /\ stopped = [d \in Dirs |-> FALSE]
  /\ issued = [d \in Dirs |-> 0]
  /\ done = [d \in Dirs |-> 0]

-----------------------------------------------------------------------------
(* Start, suspend, stop and remove *)

\* SelectInterfaces with the pipes the configuration has: handles it does not
\* find keep their value, and only a handle that was never set fails the start.
SelectInterfaces(found) ==
  /\ handle' = [p \in Pipes |-> IF p \in found THEN nStarts' ELSE handle[p]]
  /\ power' = IF \E p \in Pipes : handle'[p] = 0 THEN "removed" ELSE "off"

\* OsrFxEvtDevicePrepareHardware; the framework opens the bulk pipes started,
\* and leaves the pipe with the continuous reader to D0Entry.  The pipes of an
\* earlier configuration go, and what they hold is failed.
PrepareHardware ==
  /\ power = "stopped"
  /\ nStarts < MaxStarts
  /\ \/ /\ nStarts' = nStarts + 1
        /\ \/ SelectInterfaces(Pipes)
           \/ /\ "pipes" \in Faults
              /\ \E p \in Pipes : SelectInterfaces(Pipes \ {p})
        /\ target' = [p \in Pipes |-> IF p = "InterruptPipe" THEN "stopped" ELSE "started"]
        /\ startedOk' = TRUE
        /\ bulk' = [d \in Dirs |-> IF bulk[d] \in {"pended", "sent"}
                                   THEN "completing" ELSE bulk[d]]
     \/ /\ "prepare" \in Faults
        /\ power' = "removed"
        /\ UNCHANGED <<nStarts, handle, target, startedOk, bulk>>
  /\ UNCHANGED <<action, lock, reset, stopped, issued, done>>

\* OsrFxEvtDeviceD0Entry; a failure leads to the device being removed.
D0Entry ==
  /\ power = "off"
  /\ \/ /\ target' = [target EXCEPT !["InterruptPipe"] = "started"]
        /\ power' = "D0"
     \/ /\ "start" \in Faults
        /\ power' = "removed"
        /\ UNCHANGED target
  /\ stopped' = [d \in Dirs |-> FALSE]
  /\ UNCHANGED <<handle, nStarts, action, resetVars, bulk, issued, done>>

\* The framework stops the power-managed queues, to suspend or to remove.
LeaveD0 ==
  /\ power = "D0"
  /\ power' = "leaving"
  /\ action' \in {"suspend", "purge"}
  /\ UNCHANGED <<handle, nStarts, target, resetVars, bulkVars>>

\* OsrFxEvtIoStop: a transfer is acknowledged and stays with its pipe, or the
\* driver asks for it to be cancelled, which only a sent request can be.
EvtIoStop(d) ==
  /\ power = "leaving"
  /\ bulk[d] # "none"
  /\ ~stopped[d]
  /\ stopped' = [stopped EXCEPT ![d] = TRUE]
  /\ bulk' = [bulk EXCEPT ![d] =
                IF action = "purge" /\ bulk[d] \in {"pended", "sent"}
                THEN "completing" ELSE bulk[d]]
  /\ UNCHANGED <<pnpVars, target, resetVars, issued, done>>

\* OsrFxEvtDeviceD0Exit, once every transfer is finished or acknowledged.
\* The queue of the IOCTLs has no EvtIoStop: the framework waits for them.
D0Exit ==
  /\ power = "leaving"
  /\ \A d \in Dirs : bulk[d] = "none" \/ (action = "suspend" /\ stopped[d])
  /\ \A k \in Resets : reset[k].pc \in {"new", "done"}
  /\ target' = [target EXCEPT !["InterruptPipe"] = "stopped"]
  /\ \/ action = "suspend" /\ power' \in {"off", "stopped"}
     \/ action = "purge" /\ power' = "removed"
  /\ UNCHANGED <<handle, nStarts, action, resetVars, bulkVars>>

-----------------------------------------------------------------------------
(* Bulk transfers: OsrFxEvtIoRead and OsrFxEvtIoWrite *)

Complete(d) ==
  /\ bulk' = [bulk EXCEPT ![d] = "none"]
  /\ done' = [done EXCEPT ![d] = @ + 1]

\* Dispatch, with the checks of the request; "goto Exit" completes it.
EvtIo(d) ==
  /\ power = "D0"
  /\ bulk[d] = "none"
  /\ issued[d] < MaxTransfers
  /\ issued' = [issued EXCEPT ![d] = @ + 1]
  /\ \/ /\ bulk' = [bulk EXCEPT ![d] = "send"]
        /\ UNCHANGED done
     \/ /\ "request" \in Faults
        /\ Complete(d)
  /\ UNCHANGED <<pnpVars, target, resetVars, stopped>>

\* What WdfRequestSend does: a stopped target keeps the request until it starts.
Sent(d) == IF target[PipeOf[d]] = "started" THEN "sent" ELSE "pended"

\* Faulty variant: the request is completed although it was sent.
EvtIoSend_AlwaysCompletes(d) ==
  /\ bulk[d] = "send"
  /\ bulk' = [bulk EXCEPT ![d] = Sent(d)]
  /\ done' = [done EXCEPT ![d] = @ + 1]
  /\ UNCHANGED <<pnpVars, target, resetVars, stopped, issued>>

EvtIoSend(d) ==
  /\ bulk[d] = "send"
  /\ \/ /\ bulk' = [bulk EXCEPT ![d] = Sent(d)]
        /\ UNCHANGED done
     \/ /\ "send" \in Faults
        /\ Complete(d)
  /\ UNCHANGED <<pnpVars, target, resetVars, stopped, issued>>

\* The USB stack finishes a transfer, or fails it.
TargetCompletes(d) ==
  /\ bulk[d] = "sent"
  /\ bulk' = [bulk EXCEPT ![d] = "completing"]
  /\ UNCHANGED <<pnpVars, target, resetVars, stopped, issued, done>>

\* EvtRequestReadCompletionRoutine, EvtRequestWriteCompletionRoutine
CompletionRoutine(d) ==
  /\ bulk[d] = "completing"
  /\ Complete(d)
  /\ UNCHANGED <<pnpVars, target, resetVars, stopped, issued>>

-----------------------------------------------------------------------------
(* ResetDevice *)

Goto(k, pc, at) == reset' = [reset EXCEPT ![k] = [pc |-> pc, at |-> at]]

\* Faulty variant, used to test the properties: a pipe too many.
GotoNext_OffByOne(k, pc, then) ==
  IF reset[k].at <= 3 THEN Goto(k, pc, reset[k].at + 1) ELSE Goto(k, then, 1)

\* The next pipe of PipeOrder, or on to the next part of ResetDevice.
GotoNext(k, pc, then) ==
  IF reset[k].at < 3 THEN Goto(k, pc, reset[k].at + 1) ELSE Goto(k, then, 1)

Pipe(k) == PipeOrder[reset[k].at]

ResetIoctl(k) ==
  /\ power = "D0"
  /\ reset[k].pc = "new"
  /\ Goto(k, "acquire", 1)
  /\ UNCHANGED <<pnpVars, target, lock, startedOk, bulkVars>>

\* Faulty variant: the lock is not waited for.
ResetAcquire_NoLock(k) ==
  /\ reset[k].pc = "acquire"
  /\ lock' = {k}
  /\ Goto(k, "stop", 1)
  /\ UNCHANGED <<pnpVars, target, startedOk, bulkVars>>

ResetAcquire(k) ==
  /\ reset[k].pc = "acquire"
  /\ lock = {}
  /\ lock' = {k}
  /\ Goto(k, "stop", 1)
  /\ UNCHANGED <<pnpVars, target, startedOk, bulkVars>>

\* The early return.  The wait has no timeout, so that it fails is possible and
\* never assumed: it is no part of ResetStep.
ResetAcquireFails(k) ==
  /\ "lock" \in Faults
  /\ reset[k].pc = "acquire"
  /\ Goto(k, "done", 1)
  /\ UNCHANGED <<pnpVars, target, lock, startedOk, bulkVars>>

\* StopAllPipes: WdfIoTargetStop cancels what was sent to the pipe ...
ResetStop(k) ==
  /\ reset[k].pc = "stop"
  /\ target' = [target EXCEPT ![Pipe(k)] = "stopped"]
  /\ bulk' = [d \in Dirs |-> IF PipeOf[d] = Pipe(k) /\ bulk[d] = "sent"
                             THEN "completing" ELSE bulk[d]]
  /\ Goto(k, "stopping", reset[k].at)
  /\ UNCHANGED <<pnpVars, lock, startedOk, stopped, issued, done>>

\* ... and waits until that is completed.
ResetStopped(k) ==
  /\ reset[k].pc = "stopping"
  /\ \A d \in Dirs : PipeOf[d] = Pipe(k) => bulk[d] # "completing"
  /\ GotoNext(k, "stop", "port")
  /\ UNCHANGED <<pnpVars, target, lock, startedOk, bulkVars>>

\* WdfUsbTargetDeviceResetPortSynchronously; a failure is only traced.
ResetPort(k) ==
  /\ reset[k].pc = "port"
  /\ Goto(k, "start", 1)
  /\ UNCHANGED <<pnpVars, target, lock, startedOk, bulkVars>>

\* Faulty variant: a pipe that does not start is passed over in silence.
ResetStart_IgnoresFailure(k) ==
  /\ reset[k].pc = "start"
  /\ \/ /\ target' = [target EXCEPT ![Pipe(k)] = "started"]
        /\ bulk' = [d \in Dirs |-> IF PipeOf[d] = Pipe(k) /\ bulk[d] = "pended"
                                   THEN "sent" ELSE bulk[d]]
     \/ "start" \in Faults /\ UNCHANGED <<target, bulk>>
  /\ GotoNext(k, "start", "release")
  /\ startedOk' = TRUE
  /\ UNCHANGED <<pnpVars, lock, stopped, issued, done>>

\* StartAllPipes, one pipe: it is started, with what was waiting for it, or
\* the rest is left stopped.
ResetStart(k) ==
  /\ reset[k].pc = "start"
  /\ \/ /\ target' = [target EXCEPT ![Pipe(k)] = "started"]
        /\ bulk' = [d \in Dirs |-> IF PipeOf[d] = Pipe(k) /\ bulk[d] = "pended"
                                   THEN "sent" ELSE bulk[d]]
        /\ GotoNext(k, "start", "release")
        /\ startedOk' = TRUE
     \/ /\ "start" \in Faults
        /\ Goto(k, "release", 1)
        /\ startedOk' = FALSE
        /\ UNCHANGED <<target, bulk>>
  /\ UNCHANGED <<pnpVars, lock, stopped, issued, done>>

\* Faulty variant: a failed start leaves without releasing the lock.
ResetRelease_OnSuccess(k) ==
  /\ reset[k].pc = "release"
  /\ lock' = IF startedOk THEN {} ELSE lock
  /\ Goto(k, "done", 1)
  /\ UNCHANGED <<pnpVars, target, startedOk, bulkVars>>

ResetRelease(k) ==
  /\ reset[k].pc = "release"
  /\ lock' = {}
  /\ Goto(k, "done", 1)
  /\ UNCHANGED <<pnpVars, target, startedOk, bulkVars>>

-----------------------------------------------------------------------------
ResetStep(k) == \/ ResetAcquire(k) \/ ResetStop(k) \/ ResetStopped(k)
                \/ ResetPort(k) \/ ResetStart(k) \/ ResetRelease(k)

Next ==
  \/ PrepareHardware
  \/ D0Entry
  \/ LeaveD0
  \/ D0Exit
  \/ \E d \in Dirs :
        EvtIoStop(d) \/ EvtIo(d) \/ EvtIoSend(d) \/ TargetCompletes(d) \/ CompletionRoutine(d)
  \/ \E k \in Resets : ResetIoctl(k) \/ ResetAcquireFails(k) \/ ResetStep(k)

\* Handlers and completion routines that run finish.  Nothing is assumed of
\* the device: it may keep a transfer forever.  Nor does a reset count on
\* failing to get the lock.
Fairness ==
  /\ \A k \in Resets : WF_vars(ResetStep(k))
  /\ \A d \in Dirs : WF_vars(EvtIoSend(d)) /\ WF_vars(CompletionRoutine(d))

Spec == Init /\ [][Next]_vars /\ Fairness

-----------------------------------------------------------------------------
(* Properties *)

\* While a port is reset no pipe runs and no transfer is on the bus, whatever
\* other resets, transfers and power transitions are under way.
PortResetQuiet ==
  \A k \in Resets :
    reset[k].pc = "port" => /\ \A p \in Pipes : target[p] = "stopped"
                            /\ \A d \in Dirs : bulk[d] # "sent"

\* Every transfer is completed once: by the checks, by a failing send, by its
\* completion routine, after a cancellation, and never by two of them.
TransfersCompletedOnce ==
  \A d \in Dirs : done[d] + (IF bulk[d] = "none" THEN 0 ELSE 1) = issued[d]

\* Unless StartAllPipes reported a failure, a device in D0 that nobody is
\* resetting has its three pipes running, so no transfer waits for a pipe.
RunningUnlessReported ==
  power = "D0" /\ lock = {} /\ startedOk
    => /\ \A p \in Pipes : target[p] = "started"
       /\ \A d \in Dirs : bulk[d] # "pended"

\* Every reset IOCTL returns, also when the device keeps its transfers, when
\* pipes fail to start and when several resets are queued on the lock.
ResetsReturn == \A k \in Resets : reset[k].pc = "acquire" ~> reset[k].pc = "done"
==============================================================================
