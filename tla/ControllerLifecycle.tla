------------------------- MODULE ControllerLifecycle -------------------------
(***************************************************************************)
(* Creation, start, stop and removal of the virtual controller and of the  *)
(* device it emulates (UDEFX2/Driver.c, Device.c, usbdevice.c, and the     *)
(* creation and destruction code of USBCom.c, BackChannel.c and Misc.c).   *)
(*                                                                         *)
(* The framework calls EvtDeviceAdd, D0Entry, D0Exit and the cleanup       *)
(* callback; each is a chain of calls that may fail at every link.  The    *)
(* back channel's queue is not power managed, so its IOCTLs can run beside *)
(* all of them.  The state is which objects exist: a handle that is used   *)
(* when its object does not exist is recorded in "invalid", where Windows  *)
(* would stop with a bug check.                                            *)
(***************************************************************************)
EXTENDS Naturals, Sequences

CONSTANTS
  MaxStarts,            \* bound: how often the device is started
  ControllerFaults      \* which calls may fail, a subset of ControllerFaultKinds

\* add: a call of EvtDeviceAdd;  queue: WdfIoQueueCreate in WRQueueInit;
\* plug: a call of D0Entry;  epqueue: WdfIoQueueCreate in Io_RetrieveEpQueue;
\* plugout: UdecxUsbDevicePlugOutAndDelete
ControllerFaultKinds == {"add", "queue", "plug", "epqueue", "plugout"}

ASSUME StartsAssumption == MaxStarts \in Nat
ASSUME ControllerFaultsAssumption == ControllerFaults \subseteq ControllerFaultKinds

\* The two WRITE_BUFFER_TO_READ_REQUEST_QUEUEs of the controller context.
Missions == {"missionRequest", "missionCompletion"}
qsync == [missionRequest |-> "missionRequest.qsync",
          missionCompletion |-> "missionCompletion.qsync"]
ReadBufferQueue == [missionRequest |-> "missionRequest.ReadBufferQueue",
                    missionCompletion |-> "missionCompletion.ReadBufferQueue"]

\* The calls each function makes; one that makes an object has its name.
ControllerCreateWdfDeviceWithNameAndSymLink == <<"WdfDevice", "WdfDeviceCreateSymbolicLink">>

BackChannelInit ==
  <<qsync.missionRequest, ReadBufferQueue.missionRequest,
    qsync.missionCompletion, ReadBufferQueue.missionCompletion>>

Usb_Initialize ==
  <<"ChildDeviceInit", "DeviceDescriptor", "LanguageDescriptor",
    "ManufacturerString", "ProductString">>

\* UDEFX2CreateDevice
AddCalls ==
  <<"WdfDeviceInitAssignSDDLString", "UdecxInitializeWdfDeviceInit">>
    \o ControllerCreateWdfDeviceWithNameAndSymLink
    \o <<"UsbHostInterface", "BackChannelInterface",
         "UdecxWdfDeviceAddUsbDeviceEmulation">>
    \o BackChannelInit \o <<"DefaultQueue">> \o Usb_Initialize

\* UsbCreateEndpointObj: the queue, which Io_RetrieveEpQueue makes, then the
\* endpoint.
UsbCreateEndpointObj(queue, endpoint) == <<queue, endpoint>>

\* What Io_RetrieveEpQueue makes first for the interrupt endpoint.
Io_CreateDeferredIntrQueue == <<"IntrDeferredQueue", "IntrState.sync">>

\* Usb_ReadDescriptorsAndPlugIn; pComputedConfigDescSet is freed on every path
\* out of it.
PlugCalls ==
  <<"pComputedConfigDescSet", "ConfigurationDescriptor", "ChildDevice",
    "Io_AllocateContext">>
    \o UsbCreateEndpointObj("ControlQueue", "UDEFX2ControlEndpoint")
    \o UsbCreateEndpointObj("BulkOutQueue", "UDEFX2BulkOutEndpoint")
    \o UsbCreateEndpointObj("BulkInQueue", "UDEFX2BulkInEndpoint")
    \o Io_CreateDeferredIntrQueue
    \o UsbCreateEndpointObj("InterruptUrbQueue", "UDEFX2InterruptInEndpoint")
    \o <<"UdecxUsbDevicePlugIn">>

EndpointQueues == {"ControlQueue", "BulkOutQueue", "BulkInQueue", "InterruptUrbQueue"}

\* The objects there is a handle to.
Handles == {"WdfDevice", "DefaultQueue", "ChildDeviceInit", "ChildDevice", "IntrDeferredQueue",
            "IntrState.sync"}
             \cup EndpointQueues
             \cup {qsync[m] : m \in Missions} \cup {ReadBufferQueue[m] : m \in Missions}

VARIABLES
  pnp,        \* which callback the framework runs or has run
  at,         \* the call it is at
  nStarts,    \* starts from D3Final
  obj,        \* each handle: null, alive, or dead (left behind by a deletion)
  AllowOnlyResetInterrupts,
  plugged,    \* the device is plugged in to the emulated hub
  buffers,    \* whether WriteBufferQueue of each mission holds a block
  kept,       \* somebody keeps the back channel open when the device stops
  raise,      \* where a GENERATE_INTERRUPT IOCTL is
  invalid     \* what was done to a handle without an object

controllerVars ==
  <<pnp, at, nStarts, obj, AllowOnlyResetInterrupts, plugged, buffers, kept, raise, invalid>>

ControllerTypeOK ==
  /\ pnp \in {"adding", "stopped", "plugging", "D0", "low", "plugout", "freeing",
              "removing", "gone"}
  /\ at \in 1 .. (IF pnp = "adding" THEN Len(AddCalls) ELSE Len(PlugCalls))
  /\ nStarts \in 0 .. MaxStarts
  /\ obj \in [Handles -> {"null", "alive", "dead"}]
  /\ AllowOnlyResetInterrupts \in BOOLEAN
  /\ plugged \in BOOLEAN
  /\ buffers \in [Missions -> BOOLEAN]
  /\ kept \in BOOLEAN
  /\ raise \in {"idle", "raising"}
  /\ invalid \in SUBSET {"delete", "init", "context", "raise", "assert", "halfway"}

ControllerInit ==
  /\ pnp = "adding"
  /\ at = 1
  /\ nStarts = 0
  /\ obj = [o \in Handles |-> "null"]
  /\ AllowOnlyResetInterrupts = FALSE
  /\ plugged = FALSE
  /\ buffers = [m \in Missions |-> FALSE]
  /\ kept \in BOOLEAN
  /\ raise = "idle"
  /\ invalid = {}

\* An invalid use stops the system.
Running == invalid = {}

Make(call) ==
  IF call \in Handles THEN [obj EXCEPT ![call] = "alive"] ELSE obj

Kind(call, default) ==
  CASE call \in {ReadBufferQueue[m] : m \in Missions} -> "queue"
    [] call \in EndpointQueues -> "epqueue"
    [] OTHER -> default

\* The use "kind" of the handles in "used" when some are not alive.
Misused(used, kind) == IF \E o \in used : obj[o] # "alive" THEN {kind} ELSE {}

-----------------------------------------------------------------------------
(* Mission queues *)

\* Faulty variant, used to test the properties: the blocks are not looked for.
WRQueueDestroy_KeepsBlocks(ms, kind) ==
  LET live == {m \in ms : obj[qsync[m]] # "null"}
  IN  /\ obj' = [o \in Handles |->
                   IF \E m \in live : o \in {qsync[m], ReadBufferQueue[m]}
                   THEN "null" ELSE obj[o]]
      /\ invalid' = invalid \cup Misused({ReadBufferQueue[m] : m \in live}, kind)
      /\ UNCHANGED buffers

\* WRQueueDestroy returns at once if the queue has no lock; otherwise it frees
\* the blocks and deletes the lock and the queue of reads, a use of that "kind".
WRQueueDestroy(ms, kind) ==
  LET live == {m \in ms : obj[qsync[m]] # "null"}
  IN  /\ obj' = [o \in Handles |->
                   IF \E m \in live : o \in {qsync[m], ReadBufferQueue[m]}
                   THEN "null" ELSE obj[o]]
      /\ invalid' = invalid \cup Misused({ReadBufferQueue[m] : m \in live}, kind)
      /\ buffers' = [m \in Missions |-> buffers[m] /\ m \notin live]

\* BackChannelEvtWrite or IoEvtBulkOutUrb leaves a block behind.
BufferWrite(m) ==
  /\ Running
  /\ pnp \in {"D0", "low"}
  /\ ~buffers[m]
  /\ buffers' = [buffers EXCEPT ![m] = TRUE]
  /\ UNCHANGED <<pnp, at, nStarts, obj, AllowOnlyResetInterrupts, plugged, kept, raise, invalid>>

\* A reader takes the last block.
BufferRead(m) ==
  /\ Running
  /\ pnp \in {"D0", "low"}
  /\ buffers[m]
  /\ buffers' = [buffers EXCEPT ![m] = FALSE]
  /\ UNCHANGED <<pnp, at, nStarts, obj, AllowOnlyResetInterrupts, plugged, kept, raise, invalid>>

-----------------------------------------------------------------------------
(* EvtDeviceAdd *)

AddSucceeds ==
  /\ Running
  /\ pnp = "adding"
  /\ obj' = Make(AddCalls[at])
  /\ IF at < Len(AddCalls)
     THEN at' = at + 1 /\ UNCHANGED pnp
     ELSE at' = 1 /\ pnp' = "stopped"
  /\ UNCHANGED <<nStarts, AllowOnlyResetInterrupts, plugged, buffers, kept, raise, invalid>>

\* "WDF will delete the WdfDevice itself if EvtDriverDeviceAdd returns a
\* failure."  WRQueueInit first undoes its own half of a mission queue.
AddFails ==
  /\ Running
  /\ pnp = "adding"
  /\ Kind(AddCalls[at], "add") \in ControllerFaults
  /\ WRQueueDestroy({m \in Missions : AddCalls[at] = ReadBufferQueue[m]}, "halfway")
  /\ pnp' = IF obj["WdfDevice"] = "alive" THEN "removing" ELSE "gone"
  /\ at' = 1
  /\ UNCHANGED <<nStarts, AllowOnlyResetInterrupts, plugged, kept, raise>>

-----------------------------------------------------------------------------
(* D0Entry and D0Exit *)

\* ControllerWdfEvtDeviceD0Entry with PreviousState = WdfPowerDeviceD3Final,
\* as at the first start and after the device was stopped.
D0EntryFinal ==
  /\ Running
  /\ pnp = "stopped"
  /\ nStarts < MaxStarts
  /\ nStarts' = nStarts + 1
  /\ invalid' = IF AllowOnlyResetInterrupts THEN {"assert"} ELSE {}
  /\ AllowOnlyResetInterrupts' = TRUE
  /\ pnp' = "plugging"
  /\ at' = 1
  /\ UNCHANGED <<obj, plugged, buffers, kept, raise>>

\* Faulty variant: the chain does not end with its last call.
PlugSucceeds_GoesOn ==
  /\ Running
  /\ pnp = "plugging"
  /\ obj' = IF PlugCalls[at] = "ChildDevice"
            THEN [obj EXCEPT !["ChildDevice"] = "alive", !["ChildDeviceInit"] = "null"]
            ELSE Make(PlugCalls[at])
  /\ at' = at + 1
  /\ UNCHANGED <<pnp, nStarts, AllowOnlyResetInterrupts, plugged, buffers, kept, raise, invalid>>

\* One call of Usb_ReadDescriptorsAndPlugIn.  UdecxUsbDeviceCreate takes the
\* ChildDeviceInit with it.
PlugSucceeds ==
  /\ Running
  /\ pnp = "plugging"
  /\ obj' = IF PlugCalls[at] = "ChildDevice"
            THEN [obj EXCEPT !["ChildDevice"] = "alive", !["ChildDeviceInit"] = "null"]
            ELSE Make(PlugCalls[at])
  /\ invalid' = IF PlugCalls[at] \in {"ConfigurationDescriptor", "ChildDevice"}
                THEN Misused({"ChildDeviceInit"}, "init") ELSE {}
  /\ IF at < Len(PlugCalls)
     THEN at' = at + 1 /\ UNCHANGED <<pnp, plugged>>
     ELSE at' = 1 /\ pnp' = "D0" /\ plugged' = TRUE
  /\ UNCHANGED <<nStarts, AllowOnlyResetInterrupts, buffers, kept, raise>>

\* Io_RetrieveEpQueue fills in the context of the queue before it looks at the
\* status of its creation.  Nothing made so far is deleted; the framework
\* removes a device whose D0Entry failed without calling D0Exit.
PlugFails ==
  /\ Running
  /\ pnp = "plugging"
  /\ Kind(PlugCalls[at], "plug") \in ControllerFaults
  /\ invalid' = IF PlugCalls[at] \in EndpointQueues THEN {"context"} ELSE {}
  /\ pnp' = "removing"
  /\ at' = 1
  /\ UNCHANGED <<nStarts, obj, AllowOnlyResetInterrupts, plugged, buffers, kept, raise>>

\* D0Exit and D0Entry for other power states do nothing.
LowPower ==
  /\ Running
  /\ \/ pnp = "D0" /\ pnp' = "low"
     \/ pnp = "low" /\ pnp' = "D0"
  /\ UNCHANGED <<at, nStarts, obj, AllowOnlyResetInterrupts, plugged, buffers, kept, raise,
                 invalid>>

\* Faulty variant: the queues go while the device is still plugged in.
D0ExitFinal_FreesFirst ==
  /\ Running
  /\ pnp = "D0"
  /\ raise = "idle"
  /\ obj' = [o \in Handles |-> IF o \in EndpointQueues \cup {"IntrDeferredQueue"}
                               THEN "dead" ELSE obj[o]]
  /\ pnp' = "plugout"
  /\ UNCHANGED <<at, nStarts, AllowOnlyResetInterrupts, plugged, buffers, kept, raise, invalid>>

\* Usb_Disconnect begins with Io_StopDeferredProcessing.  An orderly removal
\* waits until nobody has the back channel open.
D0ExitFinal ==
  /\ Running
  /\ pnp = "D0"
  /\ kept \/ raise = "idle"
  /\ invalid' = Misused({"ChildDevice", "IntrDeferredQueue"}, "delete")
  /\ pnp' = "plugout"
  /\ UNCHANGED <<at, nStarts, obj, AllowOnlyResetInterrupts, plugged, buffers, kept, raise>>

\* UdecxUsbDevicePlugOutAndDelete; on failure the queues are left alone.  The
\* handle in ChildDevice stays.
PlugOut ==
  /\ Running
  /\ pnp = "plugout"
  /\ \/ /\ obj' = [obj EXCEPT !["ChildDevice"] = "dead"]
        /\ plugged' = FALSE
        /\ pnp' = "freeing"
     \/ /\ "plugout" \in ControllerFaults
        /\ pnp' = "stopped"
        /\ UNCHANGED <<obj, plugged>>
  /\ UNCHANGED <<at, nStarts, AllowOnlyResetInterrupts, buffers, kept, raise, invalid>>

\* Faulty variant: the IO_CONTEXT is read where it was, in the deleted device.
Io_FreeEndpointQueues_NoCopy ==
  /\ Running
  /\ pnp = "freeing"
  /\ obj' = [o \in Handles |-> IF o \in EndpointQueues \cup {"IntrDeferredQueue"}
                               THEN "dead" ELSE obj[o]]
  /\ invalid' = Misused({"ChildDevice", "IntrDeferredQueue"} \cup EndpointQueues, "delete")
  /\ pnp' = "stopped"
  /\ UNCHANGED <<at, nStarts, AllowOnlyResetInterrupts, plugged, buffers, kept, raise>>

\* Io_FreeEndpointQueues works on ioContextCopy.  It leaves IntrState.sync.
Io_FreeEndpointQueues ==
  /\ Running
  /\ pnp = "freeing"
  /\ obj' = [o \in Handles |-> IF o \in EndpointQueues \cup {"IntrDeferredQueue"}
                               THEN "dead" ELSE obj[o]]
  /\ invalid' = Misused({"IntrDeferredQueue"} \cup EndpointQueues, "delete")
  /\ pnp' = "stopped"
  /\ UNCHANGED <<at, nStarts, AllowOnlyResetInterrupts, plugged, buffers, kept, raise>>

-----------------------------------------------------------------------------
(* Removal *)

\* The PnP manager removes the device; the framework purges its queues first.
Remove ==
  /\ Running
  /\ pnp = "stopped"
  /\ raise = "idle"
  /\ pnp' = "removing"
  /\ UNCHANGED <<at, nStarts, obj, AllowOnlyResetInterrupts, plugged, buffers, kept, raise,
                 invalid>>

\* ControllerWdfEvtCleanupCallback: Usb_Destroy frees a ChildDeviceInit nobody
\* used ...
Usb_Destroy(o) == IF o = "ChildDeviceInit" THEN "null" ELSE obj[o]

EvtCleanupDestroy ==
  /\ Running
  /\ pnp = "removing"
  /\ at = 1
  /\ raise = "idle"
  /\ obj' = [o \in Handles |-> Usb_Destroy(o)]
  /\ at' = 2
  /\ UNCHANGED <<pnp, nStarts, AllowOnlyResetInterrupts, plugged, buffers, kept, raise, invalid>>

\* ... and BackChannelDestroy both mission queues.
EvtCleanupBackChannel ==
  /\ Running
  /\ pnp = "removing"
  /\ at = 2
  /\ WRQueueDestroy(Missions, "delete")
  /\ pnp' = "gone"
  /\ at' = 1
  /\ UNCHANGED <<nStarts, AllowOnlyResetInterrupts, plugged, kept, raise>>

-----------------------------------------------------------------------------
(* The back channel *)

\* Io_RaiseInterrupt(ChildDevice) reads the device's context and its deferred
\* queue when it starts, and the device again when it asks for a wakeup.
RaiseBegins ==
  /\ Running
  /\ raise = "idle"
  /\ nStarts > 0
  /\ pnp \in {"D0", "low"} \cup
             (IF kept THEN {"plugout", "freeing", "stopped"} ELSE {})
  /\ raise' = "raising"
  /\ invalid' = Misused({"ChildDevice", "IntrDeferredQueue"}, "raise")
  /\ UNCHANGED <<pnp, at, nStarts, obj, AllowOnlyResetInterrupts, plugged, buffers, kept>>

RaiseEnds ==
  /\ Running
  /\ raise = "raising"
  /\ raise' = "idle"
  /\ invalid' = Misused({"ChildDevice"}, "raise")
  /\ UNCHANGED <<pnp, at, nStarts, obj, AllowOnlyResetInterrupts, plugged, buffers, kept>>

-----------------------------------------------------------------------------
ControllerNext ==
  \/ AddSucceeds
  \/ AddFails
  \/ D0EntryFinal
  \/ PlugSucceeds
  \/ PlugFails
  \/ LowPower
  \/ D0ExitFinal
  \/ PlugOut
  \/ Io_FreeEndpointQueues
  \/ Remove
  \/ EvtCleanupDestroy
  \/ EvtCleanupBackChannel
  \/ \E m \in Missions : BufferWrite(m) \/ BufferRead(m)
  \/ RaiseBegins
  \/ RaiseEnds

ControllerSpec == ControllerInit /\ [][ControllerNext]_controllerVars

-----------------------------------------------------------------------------
(* Properties *)

\* Wherever creation or start fails, and through every stop and removal, no
\* handle is used without its object: nothing is deleted twice,
\* Io_FreeEndpointQueues does not read the context that went with the device,
\* and Usb_Destroy frees the ChildDeviceInit only if it is still there.  Four
\* things can go wrong, no others and nowhere else: while the controller is
\* being added, the NULL handle of a queue that could not be made is deleted
\* (Misc.c:85); while it starts, the context of an endpoint's queue that could
\* not be made is filled in (USBCom.c:566); once the device has been deleted,
\* and only if the back channel was kept open, an interrupt IOCTL finds the
\* handle in ChildDevice; and a second start from D3Final meets the assertion
\* of the first (Device.c:419), which stops a build with assertions before the
\* device is made again.
NoInvalidUse ==
  /\ invalid \cap {"delete", "init"} = {}
  /\ "halfway" \in invalid => "queue" \in ControllerFaults /\ nStarts = 0
  /\ "context" \in invalid => "epqueue" \in ControllerFaults /\ nStarts = 1 /\ ~plugged
  /\ "raise" \in invalid => kept /\ obj["ChildDevice"] = "dead"
  /\ "assert" \in invalid => nStarts > 1

\* What was made with no device or queue to go with when that is deleted.
Unparented == {"ChildDeviceInit", "IntrState.sync"} \cup {qsync[m] : m \in Missions}

\* "UdecxUsbDeviceInit will be freed by Usb_Destroy": when the controller is
\* gone, whatever failed, so are the ChildDeviceInit, the locks of both mission
\* queues and the blocks in them.  The one exception is the lock of a device
\* that was started: IntrState.sync (USBCom.c:463) is made without a parent, as
\* they are, and nothing deletes it.
OnlyIntrLockLeaks ==
  pnp = "gone" =>
    /\ \A o \in Unparented : obj[o] # "null" => o = "IntrState.sync" /\ nStarts > 0
    /\ \A m \in Missions : ~buffers[m]

\* The hub can send URBs to a device as long as it is plugged in: until then
\* the queues of its endpoints exist.
PluggedHasQueues ==
  plugged => \A q \in EndpointQueues \cup {"IntrDeferredQueue"} : obj[q] = "alive"

\* NT_ASSERT(!pControllerContext->AllowOnlyResetInterrupts) (Device.c:419)
AssertHolds == "assert" \notin invalid
==============================================================================
