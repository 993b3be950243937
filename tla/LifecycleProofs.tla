--------------------------- MODULE LifecycleProofs ---------------------------
(***************************************************************************)
(* The life cycles of the two drivers that make their objects in a chain   *)
(* of calls any of which may fail, and take them apart again: UDEFX2, with *)
(* its controller and virtual device, and Gadget One on the Pi.            *)
(*                                                                         *)
(* For the controller: no handle is used without its object outside four   *)
(* known mistakes, only the interrupt endpoint's lock stays behind, and the*)
(* hub never has a device without queues, whatever fails and however often *)
(* the device is started.  For Gadget One: what zero_bind and zero_unbind  *)
(* hold, and when the autoresume timer may be armed and with what, for any *)
(* parameters and any number of binds.                                     *)
(***************************************************************************)
EXTENDS GadgetOne, ControllerLifecycle, TLAPS

-----------------------------------------------------------------------------
(* The controller: the calls and the handles *)

\* The calls of EvtDeviceAdd, by their place.
LEMMA AddCallAt ==
  /\ Len(AddCalls) = 17
  /\ AddCalls[1] = "WdfDeviceInitAssignSDDLString"
  /\ AddCalls[2] = "UdecxInitializeWdfDeviceInit"
  /\ AddCalls[3] = "WdfDevice"
  /\ AddCalls[4] = "WdfDeviceCreateSymbolicLink"
  /\ AddCalls[5] = "UsbHostInterface"
  /\ AddCalls[6] = "BackChannelInterface"
  /\ AddCalls[7] = "UdecxWdfDeviceAddUsbDeviceEmulation"
  /\ AddCalls[8] = "missionRequest.qsync"
  /\ AddCalls[9] = "missionRequest.ReadBufferQueue"
  /\ AddCalls[10] = "missionCompletion.qsync"
  /\ AddCalls[11] = "missionCompletion.ReadBufferQueue"
  /\ AddCalls[12] = "DefaultQueue"
  /\ AddCalls[13] = "ChildDeviceInit"
  /\ AddCalls[14] = "DeviceDescriptor"
  /\ AddCalls[15] = "LanguageDescriptor"
  /\ AddCalls[16] = "ManufacturerString"
  /\ AddCalls[17] = "ProductString"
BY DEF AddCalls, ControllerCreateWdfDeviceWithNameAndSymLink, BackChannelInit, Usb_Initialize,
   qsync, ReadBufferQueue

\* The calls of D0Entry, by their place.
LEMMA PlugCallAt ==
  /\ Len(PlugCalls) = 15
  /\ PlugCalls[1] = "pComputedConfigDescSet"
  /\ PlugCalls[2] = "ConfigurationDescriptor"
  /\ PlugCalls[3] = "ChildDevice"
  /\ PlugCalls[4] = "Io_AllocateContext"
  /\ PlugCalls[5] = "ControlQueue"
  /\ PlugCalls[6] = "UDEFX2ControlEndpoint"
  /\ PlugCalls[7] = "BulkOutQueue"
  /\ PlugCalls[8] = "UDEFX2BulkOutEndpoint"
  /\ PlugCalls[9] = "BulkInQueue"
  /\ PlugCalls[10] = "UDEFX2BulkInEndpoint"
  /\ PlugCalls[11] = "IntrDeferredQueue"
  /\ PlugCalls[12] = "IntrState.sync"
  /\ PlugCalls[13] = "InterruptUrbQueue"
  /\ PlugCalls[14] = "UDEFX2InterruptInEndpoint"
  /\ PlugCalls[15] = "UdecxUsbDevicePlugIn"
BY DEF PlugCalls, UsbCreateEndpointObj, Io_CreateDeferredIntrQueue

\* The handles, one by one.
LEMMA HandlesAre ==
  /\ Missions = {"missionRequest", "missionCompletion"}
  /\ qsync["missionRequest"] = "missionRequest.qsync"
  /\ qsync["missionCompletion"] = "missionCompletion.qsync"
  /\ ReadBufferQueue["missionRequest"] = "missionRequest.ReadBufferQueue"
  /\ ReadBufferQueue["missionCompletion"] = "missionCompletion.ReadBufferQueue"
  /\ {ReadBufferQueue[m] : m \in Missions} =
       {"missionRequest.ReadBufferQueue", "missionCompletion.ReadBufferQueue"}
  /\ Handles = {"WdfDevice", "DefaultQueue", "ChildDeviceInit", "ChildDevice",
                "IntrDeferredQueue", "IntrState.sync", "ControlQueue", "BulkOutQueue",
                "BulkInQueue", "InterruptUrbQueue", "missionRequest.qsync",
                "missionCompletion.qsync", "missionRequest.ReadBufferQueue",
                "missionCompletion.ReadBufferQueue"}
BY DEF Missions, qsync, ReadBufferQueue, Handles, EndpointQueues

\* No two calls of EvtDeviceAdd make the same.
LEMMA AddCallsDiffer ==
  ASSUME NEW i \in 1 .. Len(AddCalls), NEW j \in 1 .. Len(AddCalls), AddCalls[i] = AddCalls[j]
  PROVE  i = j
BY AddCallAt

\* The calls of D0Entry have nothing to do with what EvtDeviceAdd made last.
LEMMA PlugCallsApart ==
  ASSUME NEW i \in 1 .. Len(PlugCalls)
  PROVE  /\ PlugCalls[i] # "ChildDeviceInit"
         /\ \A m \in Missions : PlugCalls[i] # qsync[m] /\ PlugCalls[i] # ReadBufferQueue[m]
<1>1. PlugCalls[i] \notin {"ChildDeviceInit", "missionRequest.qsync", "missionCompletion.qsync",
        "missionRequest.ReadBufferQueue", "missionCompletion.ReadBufferQueue"}
  BY PlugCallAt
<1>2. QED
  BY <1>1, HandlesAre

\* What makes or takes away each handle that the invariant is about.
LEMMA AddPlaces ==
  ASSUME NEW i \in 1 .. Len(AddCalls)
  PROVE  /\ AddCalls[i] = "missionRequest.ReadBufferQueue" <=> i = 9
         /\ AddCalls[i] = "missionCompletion.ReadBufferQueue" <=> i = 11
<1>1. i = 9 \/ AddCalls[9] # AddCalls[i]
  BY AddCallAt, AddCallsDiffer
<1>2. i = 11 \/ AddCalls[11] # AddCalls[i]
  BY AddCallAt, AddCallsDiffer
<1>3. QED
  BY <1>1, <1>2, AddCallAt

-----------------------------------------------------------------------------
(* The controller: types *)

LEMMA MakeType ==
  ASSUME ControllerTypeOK, NEW call
  PROVE  Make(call) \in [Handles -> {"null", "alive", "dead"}]
BY DEF ControllerTypeOK, Make

LEMMA ControllerTypeStep ==
  ControllerTypeOK /\ [ControllerNext]_controllerVars => ControllerTypeOK'
<1>1. SUFFICES ASSUME ControllerTypeOK, [ControllerNext]_controllerVars
               PROVE  ControllerTypeOK'
  OBVIOUS
<1> Len(AddCalls) = 17 /\ Len(PlugCalls) = 15
  BY AddCallAt, PlugCallAt
<1> USE <1>1 DEF ControllerTypeOK
<1>2. CASE UNCHANGED controllerVars
  BY <1>2 DEF controllerVars
<1>3. CASE AddSucceeds
  BY <1>3, MakeType DEF AddSucceeds
<1>4. ASSUME NEW ms, NEW kind \in {"halfway", "delete"}, WRQueueDestroy(ms, kind)
      PROVE  /\ obj' \in [Handles -> {"null", "alive", "dead"}]
             /\ buffers' \in [Missions -> BOOLEAN]
             /\ invalid' \in SUBSET {"delete", "init", "context", "raise", "assert", "halfway"}
  BY <1>4 DEF WRQueueDestroy, Misused
<1>5. CASE AddFails
  BY <1>4, <1>5 DEF AddFails
<1>6. CASE D0EntryFinal
  BY <1>6, StartsAssumption DEF D0EntryFinal
<1>7. CASE PlugSucceeds
  <2>1. obj' \in [Handles -> {"null", "alive", "dead"}]
    BY <1>7, MakeType DEF PlugSucceeds
  <2>2. invalid' \in SUBSET {"delete", "init", "context", "raise", "assert", "halfway"}
    BY <1>7 DEF PlugSucceeds, Misused
  <2>3. at \in 1 .. Len(PlugCalls) /\ Len(PlugCalls) \in Nat \ {0} /\ pnp = "plugging"
    BY <1>7 DEF PlugSucceeds
  <2>4. CASE at < Len(PlugCalls)
    BY <1>7, <2>1, <2>2, <2>3, <2>4 DEF PlugSucceeds
  <2>5. CASE ~(at < Len(PlugCalls))
    BY <1>7, <2>1, <2>2, <2>3, <2>5 DEF PlugSucceeds
  <2>6. QED
    BY <2>4, <2>5
<1>8. CASE PlugFails
  BY <1>8 DEF PlugFails
<1>9. CASE LowPower \/ Remove
  <2>1. /\ pnp # "adding"
        /\ pnp' \in {"D0", "low", "removing"}
        /\ UNCHANGED <<at, nStarts, obj, AllowOnlyResetInterrupts, plugged, buffers, kept, raise,
                       invalid>>
    BY <1>9 DEF LowPower, Remove
  <2>2. QED
    BY <2>1
<1>10. CASE D0ExitFinal
  BY <1>10 DEF D0ExitFinal, Misused
<1>11. CASE PlugOut
  BY <1>11 DEF PlugOut
<1>12. CASE Io_FreeEndpointQueues
  BY <1>12 DEF Io_FreeEndpointQueues, Misused
<1>13. CASE EvtCleanupDestroy
  BY <1>13 DEF EvtCleanupDestroy, Usb_Destroy
<1>14. CASE EvtCleanupBackChannel
  BY <1>4, <1>14 DEF EvtCleanupBackChannel
<1>15. ASSUME NEW m \in Missions, BufferWrite(m) \/ BufferRead(m)
       PROVE  ControllerTypeOK'
  <2>1. buffers' \in [Missions -> BOOLEAN]
    BY <1>15 DEF BufferWrite, BufferRead
  <2>2. UNCHANGED <<pnp, at, nStarts, obj, AllowOnlyResetInterrupts, plugged, kept, raise, invalid>>
    BY <1>15 DEF BufferWrite, BufferRead
  <2>3. QED
    BY <2>1, <2>2
<1>16. CASE RaiseBegins \/ RaiseEnds
  BY <1>16 DEF RaiseBegins, RaiseEnds, Misused
<1>17. QED
  BY <1>2, <1>3, <1>5, <1>6, <1>7, <1>8, <1>9, <1>10, <1>11, <1>12, <1>13, <1>14, <1>15, <1>16
     DEF ControllerNext

LEMMA ControllerTypeInit == ControllerInit => ControllerTypeOK
<1>1. SUFFICES ASSUME ControllerInit PROVE ControllerTypeOK
  OBVIOUS
<1>2. nStarts \in 0 .. MaxStarts /\ at \in 1 .. Len(AddCalls)
  BY <1>1, StartsAssumption, AddCallAt DEF ControllerInit
<1>3. obj \in [Handles -> {"null", "alive", "dead"}] /\ buffers \in [Missions -> BOOLEAN]
  BY <1>1 DEF ControllerInit
<1>4. QED
  BY <1>1, <1>2, <1>3 DEF ControllerInit, ControllerTypeOK

\* The life cycle keeps its types; in particular no chain runs past its end.
THEOREM ControllerTypeCorrect == ControllerSpec => []ControllerTypeOK
BY ControllerTypeInit, ControllerTypeStep, PTL DEF ControllerSpec

-----------------------------------------------------------------------------
(* The controller: the invariant *)

StartedQueues == EndpointQueues \cup {"IntrDeferredQueue"}

\* While EvtDeviceAdd runs: what it has made exists, what it has not does not.
Creating ==
  pnp = "adding" =>
    /\ nStarts = 0
    /\ ~plugged
    /\ raise = "idle"
    /\ \A m \in Missions : ~buffers[m]
    /\ \A i \in 1 .. Len(AddCalls) :
         AddCalls[i] \in Handles => obj[AddCalls[i]] = IF i < at THEN "alive" ELSE "null"

\* Only the first start finds the ChildDeviceInit, and takes it.
NotStarted ==
  pnp = "stopped" /\ nStarts = 0 =>
    obj["ChildDeviceInit"] = "alive" /\ ~plugged /\ raise = "idle"

Starting ==
  pnp = "plugging" /\ invalid = {} =>
    /\ nStarts = 1
    /\ ~plugged
    /\ raise = "idle"
    /\ at <= 3 => obj["ChildDeviceInit"] = "alive"
    /\ \A i \in 1 .. Len(PlugCalls) :
         i < at /\ PlugCalls[i] \in Handles => obj[PlugCalls[i]] = "alive"

Started ==
  /\ pnp \in {"D0", "low", "plugout"} => obj["ChildDevice"] = "alive"
  /\ pnp \in {"D0", "low", "plugout", "freeing"} =>
       nStarts = 1 /\ \A q \in StartedQueues : obj[q] = "alive"
  /\ pnp = "freeing" => ~plugged /\ obj["ChildDevice"] = "dead"
  /\ pnp = "stopped" /\ nStarts > 0 /\ obj["ChildDevice"] # "dead" =>
       obj["ChildDevice"] = "alive" /\ obj["IntrDeferredQueue"] = "alive"
  /\ raise = "raising" =>
       nStarts > 0 /\ pnp \in {"D0", "low", "plugout", "freeing", "stopped", "plugging"}

\* Only a start makes the lock that nothing deletes.
NoLockYet == nStarts = 0 => obj["IntrState.sync"] = "null"

\* A mission queue is whole or not there at all, outside its own creation.
WholeQueue(m) ==
  /\ buffers[m] => obj[qsync[m]] = "alive"
  /\ pnp \in {"stopped", "plugging", "D0", "low", "plugout", "freeing"} =>
       obj[qsync[m]] = "alive"
  /\ pnp # "adding" /\ invalid = {} /\ obj[qsync[m]] # "null" =>
       obj[ReadBufferQueue[m]] = "alive"

LifecycleInv ==
  /\ Creating
  /\ NotStarted
  /\ Starting
  /\ Started
  /\ NoLockYet
  /\ \A m \in Missions : WholeQueue(m)
  /\ AllowOnlyResetInterrupts <=> nStarts > 0
  /\ ~kept /\ raise = "raising" => pnp \in {"D0", "low"}
  /\ pnp \in {"stopped", "D0", "low", "plugout", "freeing"} => at = 1
  /\ pnp = "removing" /\ at = 2 => obj["ChildDeviceInit"] = "null"
  /\ OnlyIntrLockLeaks
  /\ NoInvalidUse
  /\ PluggedHasQueues

LEMMA LifecycleInit == ControllerInit => LifecycleInv
<1>1. SUFFICES ASSUME ControllerInit PROVE LifecycleInv
  OBVIOUS
<1>2. \A h \in Handles : obj[h] = "null"
  BY <1>1 DEF ControllerInit
<1>3. Creating
  BY <1>1, <1>2 DEF ControllerInit, Creating
<1>4. \A m \in Missions : WholeQueue(m)
  BY <1>1 DEF ControllerInit, WholeQueue
<1>5. /\ NotStarted
      /\ Starting
      /\ Started
      /\ OnlyIntrLockLeaks
      /\ NoInvalidUse
      /\ PluggedHasQueues
  BY <1>1 DEF ControllerInit, NotStarted, Starting, Started, OnlyIntrLockLeaks, NoInvalidUse,
     PluggedHasQueues
<1>6. ~AllowOnlyResetInterrupts /\ ~(nStarts > 0)
  BY <1>1 DEF ControllerInit
<1>7. raise = "idle" /\ pnp = "adding"
  BY <1>1 DEF ControllerInit
<1>8. NoLockYet
  BY <1>2, HandlesAre DEF NoLockYet
<1>9. QED
  BY <1>3, <1>4, <1>5, <1>6, <1>7, <1>8 DEF LifecycleInv

\* What WRQueueDestroy does to each mission queue.
LEMMA DestroyEffect ==
  ASSUME ControllerTypeOK, NEW ms \in SUBSET Missions, NEW kind, WRQueueDestroy(ms, kind)
  PROVE  /\ \A h \in Handles :
              (\A m \in Missions : h # qsync[m] /\ h # ReadBufferQueue[m]) => obj'[h] = obj[h]
         /\ \A m \in Missions :
              IF m \in ms /\ obj[qsync[m]] # "null"
              THEN obj'[qsync[m]] = "null" /\ ~buffers'[m]
              ELSE /\ obj'[qsync[m]] = obj[qsync[m]]
                   /\ obj'[ReadBufferQueue[m]] = obj[ReadBufferQueue[m]]
                   /\ buffers'[m] = buffers[m]
         /\ invalid' \subseteq invalid \cup {kind}
         /\ (\A m \in ms : obj[qsync[m]] # "null" => obj[ReadBufferQueue[m]] = "alive")
              => invalid' = invalid
<1>1. \A m \in Missions : qsync[m] \in Handles /\ ReadBufferQueue[m] \in Handles
  BY HandlesAre
<1>2. \A m, n \in Missions :
        /\ qsync[m] # ReadBufferQueue[n]
        /\ m # n => qsync[m] # qsync[n] /\ ReadBufferQueue[m] # ReadBufferQueue[n]
  BY HandlesAre
<1> DEFINE there == {m \in ms : obj[qsync[m]] # "null"}
<1>3. /\ obj' = [o \in Handles |->
                   IF \E m \in there : o \in {qsync[m], ReadBufferQueue[m]} THEN "null" ELSE obj[o]]
      /\ buffers' = [m \in Missions |-> buffers[m] /\ m \notin there]
      /\ invalid' = invalid \cup Misused({ReadBufferQueue[m] : m \in there}, kind)
      /\ there \subseteq Missions
  BY DEF WRQueueDestroy
<1>4. \A m \in Missions : m \in there <=> m \in ms /\ obj[qsync[m]] # "null"
  OBVIOUS
<1> HIDE DEF there
<1>5. ASSUME NEW h \in Handles, \A m \in Missions : h # qsync[m] /\ h # ReadBufferQueue[m]
      PROVE  obj'[h] = obj[h]
  BY <1>3, <1>5
<1>6. ASSUME NEW m \in Missions, m \in there
      PROVE  obj'[qsync[m]] = "null" /\ ~buffers'[m]
  BY <1>1, <1>3, <1>6
<1>7. ASSUME NEW m \in Missions, m \notin there
      PROVE  /\ obj'[qsync[m]] = obj[qsync[m]]
             /\ obj'[ReadBufferQueue[m]] = obj[ReadBufferQueue[m]]
             /\ buffers'[m] = buffers[m]
  BY <1>1, <1>2, <1>3, <1>7 DEF ControllerTypeOK
<1>8. invalid' \subseteq invalid \cup {kind}
  BY <1>3 DEF Misused
<1>9. ASSUME \A m \in ms : obj[qsync[m]] # "null" => obj[ReadBufferQueue[m]] = "alive"
      PROVE  invalid' = invalid
  BY <1>3, <1>4, <1>9 DEF Misused
<1>10. QED
  BY <1>4, <1>5, <1>6, <1>7, <1>8, <1>9

\* What a call that makes an object does to the handles.
LEMMA MakeEffect ==
  ASSUME ControllerTypeOK, NEW call, obj' = Make(call)
  PROVE  \A h \in Handles : obj'[h] = IF h = call THEN "alive" ELSE obj[h]
BY DEF ControllerTypeOK, Make

LEMMA AddSucceedsInv ==
  ASSUME ControllerTypeOK, LifecycleInv, AddSucceeds
  PROVE  LifecycleInv'
<1>1. /\ at \in 1 .. Len(AddCalls)
      /\ pnp = "adding"
      /\ nStarts = 0
      /\ ~plugged
      /\ raise = "idle"
      /\ invalid = {}
      /\ \A m \in Missions : ~buffers[m]
      /\ UNCHANGED <<nStarts, AllowOnlyResetInterrupts, plugged, buffers, kept, raise, invalid>>
  BY DEF ControllerTypeOK, LifecycleInv, Creating, AddSucceeds, Running
<1>2. \A i \in 1 .. Len(AddCalls) :
        AddCalls[i] \in Handles => obj'[AddCalls[i]] = IF i < at + 1 THEN "alive" ELSE "null"
  <2>1. \A h \in Handles : obj'[h] = IF h = AddCalls[at] THEN "alive" ELSE obj[h]
    BY MakeEffect DEF AddSucceeds
  <2>2. \A i \in 1 .. Len(AddCalls) :
          AddCalls[i] \in Handles => obj[AddCalls[i]] = IF i < at THEN "alive" ELSE "null"
    BY <1>1 DEF LifecycleInv, Creating
  <2>3. \A i \in 1 .. Len(AddCalls) : AddCalls[i] = AddCalls[at] => i = at
    BY <1>1, AddCallsDiffer
  <2>4. QED
    BY <1>1, <2>1, <2>2, <2>3, AddCallAt
<1>3. Creating'
  <2>1. CASE at < Len(AddCalls)
    BY <1>1, <1>2, <2>1 DEF Creating, AddSucceeds
  <2>2. CASE ~(at < Len(AddCalls))
    BY <2>2 DEF Creating, AddSucceeds
  <2>3. QED
    BY <2>1, <2>2
<1>4. NoLockYet'
  <2>1. AddCalls[at] # "IntrState.sync"
    BY <1>1, AddCallAt
  <2>2. QED
    BY <1>1, <2>1, MakeEffect, HandlesAre DEF AddSucceeds, LifecycleInv, NoLockYet
<1>5. CASE at < Len(AddCalls)
  <2>1. pnp' = "adding"
    BY <1>1, <1>5 DEF AddSucceeds
  <2>2. QED
    BY <1>1, <1>3, <1>4, <2>1 DEF LifecycleInv, NotStarted, Starting, Started, WholeQueue,
       OnlyIntrLockLeaks, NoInvalidUse, PluggedHasQueues
<1>6. CASE ~(at < Len(AddCalls))
  <2>1. at = 17 /\ at' = 1 /\ pnp' = "stopped"
    BY <1>1, <1>6, AddCallAt DEF AddSucceeds
  <2>2. /\ obj'["ChildDeviceInit"] = "alive"
        /\ \A m \in Missions : obj'[qsync[m]] = "alive" /\ obj'[ReadBufferQueue[m]] = "alive"
    BY <1>2, <2>1, AddCallAt, HandlesAre
  <2>3. QED
    BY <1>1, <1>3, <1>4, <2>1, <2>2 DEF LifecycleInv, NotStarted, Starting, Started, WholeQueue,
       OnlyIntrLockLeaks, NoInvalidUse, PluggedHasQueues
<1>7. QED
  BY <1>5, <1>6

LEMMA AddFailsInv ==
  ASSUME ControllerTypeOK, LifecycleInv, AddFails
  PROVE  LifecycleInv'
<1> DEFINE ms == {m \in Missions : AddCalls[at] = ReadBufferQueue[m]}
<1>1. /\ at \in 1 .. Len(AddCalls)
      /\ pnp = "adding"
      /\ nStarts = 0
      /\ ~plugged
      /\ raise = "idle"
      /\ invalid = {}
      /\ \A m \in Missions : ~buffers[m]
      /\ UNCHANGED <<nStarts, AllowOnlyResetInterrupts, plugged, kept, raise>>
      /\ pnp' = IF obj["WdfDevice"] = "alive" THEN "removing" ELSE "gone"
      /\ at' = 1
  BY DEF ControllerTypeOK, LifecycleInv, Creating, AddFails, Running
<1>2. \A i \in 1 .. Len(AddCalls) :
        AddCalls[i] \in Handles => obj[AddCalls[i]] = IF i < at THEN "alive" ELSE "null"
  BY <1>1 DEF LifecycleInv, Creating
<1>3. WRQueueDestroy(ms, "halfway") /\ ms \in SUBSET Missions
  BY DEF AddFails
<1>4. ms = {} \/ "queue" \in ControllerFaults
  <2>1. CASE AddCalls[at] \in {ReadBufferQueue[m] : m \in Missions}
    <3>1. Kind(AddCalls[at], "add") = "queue"
      BY <2>1, AddCallAt, HandlesAre DEF Kind, EndpointQueues
    <3>2. QED
      BY <3>1 DEF AddFails
  <2>2. CASE AddCalls[at] \notin {ReadBufferQueue[m] : m \in Missions}
    BY <2>2
  <2>3. QED
    BY <2>1, <2>2
<1> HIDE DEF ms
<1>5. /\ invalid' \subseteq {"halfway"}
      /\ ms = {} => invalid' = {}
      /\ obj'["ChildDeviceInit"] = obj["ChildDeviceInit"]
      /\ obj'["IntrState.sync"] = obj["IntrState.sync"]
      /\ \A m \in Missions :
           /\ ~buffers'[m]
           /\ IF m \in ms /\ obj[qsync[m]] # "null"
              THEN obj'[qsync[m]] = "null"
              ELSE /\ obj'[qsync[m]] = obj[qsync[m]]
                   /\ obj'[ReadBufferQueue[m]] = obj[ReadBufferQueue[m]]
  <2>1. /\ invalid' \subseteq invalid \cup {"halfway"}
        /\ (\A m \in ms : obj[qsync[m]] # "null" => obj[ReadBufferQueue[m]] = "alive")
             => invalid' = invalid
        /\ \A h \in Handles :
             (\A m \in Missions : h # qsync[m] /\ h # ReadBufferQueue[m]) => obj'[h] = obj[h]
        /\ \A m \in Missions :
             IF m \in ms /\ obj[qsync[m]] # "null"
             THEN obj'[qsync[m]] = "null" /\ ~buffers'[m]
             ELSE /\ obj'[qsync[m]] = obj[qsync[m]]
                  /\ obj'[ReadBufferQueue[m]] = obj[ReadBufferQueue[m]]
                  /\ buffers'[m] = buffers[m]
    BY <1>3, DestroyEffect
  <2>2. \A h \in {"ChildDeviceInit", "IntrState.sync"} :
          h \in Handles /\ \A m \in Missions : h # qsync[m] /\ h # ReadBufferQueue[m]
    BY HandlesAre
  <2>3. QED
    BY <1>1, <2>1, <2>2
<1>6. ASSUME NEW m \in Missions
      PROVE  WholeQueue(m)'
  <2>1. m \notin ms /\ obj[qsync[m]] # "null" => obj[ReadBufferQueue[m]] = "alive"
    BY <1>1, <1>2, AddCallAt, AddPlaces, HandlesAre DEF ms
  <2>2. QED
    BY <1>1, <1>5, <2>1 DEF WholeQueue
<1>7. OnlyIntrLockLeaks' /\ NoLockYet'
  <2> NoLockYet' /\ obj["IntrState.sync"] = "null"
    BY <1>1, <1>5 DEF LifecycleInv, NoLockYet
  <2>1. CASE obj["WdfDevice"] = "alive"
    BY <1>1, <2>1 DEF OnlyIntrLockLeaks
  <2>2. CASE obj["WdfDevice"] # "alive"
    <3>1. at <= 3
      BY <1>1, <1>2, <2>2, AddCallAt, HandlesAre
    <3>2. obj["ChildDeviceInit"] = "null" /\ \A m \in Missions : obj[qsync[m]] = "null"
      BY <1>1, <1>2, <3>1, AddCallAt, HandlesAre
    <3>3. QED
      BY <1>5, <3>2 DEF OnlyIntrLockLeaks, Unparented
  <2>3. QED
    BY <2>1, <2>2
<1>8. NoInvalidUse'
  BY <1>1, <1>4, <1>5 DEF NoInvalidUse
<1>9. QED
  BY <1>1, <1>6, <1>7, <1>8 DEF LifecycleInv, Creating, NotStarted, Starting, Started,
     PluggedHasQueues

LEMMA D0EntryFinalInv ==
  ASSUME ControllerTypeOK, LifecycleInv, D0EntryFinal
  PROVE  LifecycleInv'
<1>1. /\ pnp = "stopped"
      /\ pnp' = "plugging"
      /\ at' = 1
      /\ nStarts' = nStarts + 1
      /\ AllowOnlyResetInterrupts'
      /\ invalid = {}
      /\ UNCHANGED <<obj, plugged, buffers, kept, raise>>
  BY DEF D0EntryFinal, Running
<1>2. /\ nStarts \in Nat
      /\ nStarts > 0 => invalid' = {"assert"}
      /\ ~(nStarts > 0) => nStarts = 0 /\ invalid' = {}
  BY DEF D0EntryFinal, ControllerTypeOK, LifecycleInv
<1>3. Starting'
  BY <1>1, <1>2, PlugCallAt DEF LifecycleInv, NotStarted, Starting
<1>4. \A m \in Missions : WholeQueue(m)'
  BY <1>1 DEF LifecycleInv, WholeQueue
<1>5. NoInvalidUse'
  BY <1>1, <1>2 DEF NoInvalidUse
<1>6. ~kept => raise = "idle"
  BY <1>1 DEF LifecycleInv, ControllerTypeOK
<1>7. PluggedHasQueues'
  BY <1>1 DEF LifecycleInv, PluggedHasQueues
<1>8. nStarts' > 0
  BY <1>1, <1>2
<1>9. Started'
  BY <1>1, <1>2, <1>8 DEF LifecycleInv, NotStarted, Started
<1>10. QED
  BY <1>1, <1>3, <1>4, <1>5, <1>6, <1>7, <1>8, <1>9 DEF LifecycleInv, Creating, NotStarted,
     NoLockYet, OnlyIntrLockLeaks

LEMMA PlugSucceedsInv ==
  ASSUME ControllerTypeOK, LifecycleInv, PlugSucceeds
  PROVE  LifecycleInv'
<1>1. /\ at \in 1 .. 15
      /\ pnp = "plugging"
      /\ invalid = {}
      /\ nStarts = 1
      /\ ~plugged
      /\ raise = "idle"
      /\ at <= 3 => obj["ChildDeviceInit"] = "alive"
      /\ \A i \in 1 .. Len(PlugCalls) :
           i < at /\ PlugCalls[i] \in Handles => obj[PlugCalls[i]] = "alive"
      /\ UNCHANGED <<nStarts, AllowOnlyResetInterrupts, buffers, kept, raise>>
  BY PlugCallAt DEF ControllerTypeOK, LifecycleInv, Starting, PlugSucceeds, Running
<1>2. \A h \in Handles :
        h # "ChildDeviceInit" => obj'[h] = IF h = PlugCalls[at] THEN "alive" ELSE obj[h]
  <2>1. CASE PlugCalls[at] = "ChildDevice"
    BY <2>1 DEF PlugSucceeds, ControllerTypeOK
  <2>2. CASE PlugCalls[at] # "ChildDevice"
    BY <2>2, MakeEffect DEF PlugSucceeds
  <2>3. QED
    BY <2>1, <2>2
<1>3. at < 3 => obj'["ChildDeviceInit"] = "alive"
  <2>1. SUFFICES ASSUME at < 3 PROVE obj'["ChildDeviceInit"] = "alive"
    OBVIOUS
  <2>2. PlugCalls[at] # "ChildDevice" /\ PlugCalls[at] # "ChildDeviceInit"
    BY <1>1, <2>1, PlugCallAt
  <2>3. QED
    BY <1>1, <2>1, <2>2, MakeEffect, HandlesAre DEF PlugSucceeds
<1>4. \A m \in Missions :
        /\ obj'[qsync[m]] = obj[qsync[m]]
        /\ obj'[ReadBufferQueue[m]] = obj[ReadBufferQueue[m]]
  BY <1>1, <1>2, PlugCallAt, PlugCallsApart, HandlesAre
<1>5. \A m \in Missions : WholeQueue(m)'
  BY <1>1, <1>4 DEF LifecycleInv, WholeQueue
<1>6. invalid' = {}
  <2>1. PlugCalls[at] \in {"ConfigurationDescriptor", "ChildDevice"} => at <= 3
    BY <1>1, PlugCallAt
  <2>2. QED
    BY <1>1, <2>1 DEF PlugSucceeds, Misused
<1>7. \A i \in 1 .. Len(PlugCalls) :
        i < at + 1 /\ PlugCalls[i] \in Handles => obj'[PlugCalls[i]] = "alive"
  BY <1>1, <1>2, PlugCallAt, PlugCallsApart
<1>8. AllowOnlyResetInterrupts
  BY <1>1 DEF LifecycleInv
<1>9. NoInvalidUse'
  BY <1>6 DEF NoInvalidUse
<1>10. CASE at < Len(PlugCalls)
  <2>1. at' = at + 1 /\ pnp' = "plugging" /\ ~plugged'
    BY <1>1, <1>10 DEF PlugSucceeds
  <2>2. Starting'
    BY <1>1, <1>3, <1>6, <1>7, <2>1 DEF Starting
  <2>3. QED
    BY <1>1, <1>5, <1>8, <1>9, <2>1, <2>2 DEF LifecycleInv, Creating, NotStarted, Started,
       NoLockYet, OnlyIntrLockLeaks, PluggedHasQueues
<1>11. CASE ~(at < Len(PlugCalls))
  <2>1. at = 15 /\ at' = 1 /\ pnp' = "D0"
    BY <1>1, <1>11, PlugCallAt DEF PlugSucceeds
  <2>2. obj'["ChildDevice"] = "alive" /\ \A q \in StartedQueues : obj'[q] = "alive"
    BY <1>7, <2>1, PlugCallAt, HandlesAre DEF StartedQueues, EndpointQueues
  <2>3. QED
    BY <1>1, <1>5, <1>8, <1>9, <2>1, <2>2 DEF LifecycleInv, Creating, NotStarted, Starting, Started,
       NoLockYet, OnlyIntrLockLeaks, PluggedHasQueues, StartedQueues
<1>12. QED
  BY <1>10, <1>11

LEMMA PlugFailsInv ==
  ASSUME ControllerTypeOK, LifecycleInv, PlugFails
  PROVE  LifecycleInv'
<1>1. /\ at \in 1 .. Len(PlugCalls)
      /\ pnp = "plugging"
      /\ pnp' = "removing"
      /\ at' = 1
      /\ invalid = {}
      /\ ~plugged
      /\ raise = "idle"
      /\ nStarts = 1
      /\ UNCHANGED <<nStarts, obj, AllowOnlyResetInterrupts, plugged, buffers, kept, raise>>
  BY DEF ControllerTypeOK, LifecycleInv, Starting, PlugFails, Running
<1>2. NoInvalidUse'
  <2>1. CASE PlugCalls[at] \in EndpointQueues
    <3>1. Kind(PlugCalls[at], "plug") = "epqueue"
      BY <2>1, HandlesAre DEF Kind, EndpointQueues
    <3>2. "epqueue" \in ControllerFaults /\ invalid' = {"context"}
      BY <2>1, <3>1 DEF PlugFails
    <3>3. QED
      BY <1>1, <3>2 DEF NoInvalidUse
  <2>2. CASE PlugCalls[at] \notin EndpointQueues
    BY <2>2 DEF PlugFails, NoInvalidUse
  <2>3. QED
    BY <2>1, <2>2
<1>3. \A m \in Missions : WholeQueue(m)'
  BY <1>1 DEF LifecycleInv, WholeQueue
<1>4. QED
  BY <1>1, <1>2, <1>3 DEF LifecycleInv, Creating, NotStarted, Starting, Started, NoLockYet,
     OnlyIntrLockLeaks, PluggedHasQueues

LEMMA LowPowerInv ==
  ASSUME LifecycleInv, LowPower
  PROVE  LifecycleInv'
<1>1. /\ pnp \in {"D0", "low"}
      /\ pnp' \in {"D0", "low"}
      /\ UNCHANGED <<at, nStarts, obj, AllowOnlyResetInterrupts, plugged, buffers, kept, raise,
                     invalid>>
  BY DEF LowPower
<1>2. \A m \in Missions : WholeQueue(m)'
  BY <1>1 DEF LifecycleInv, WholeQueue
<1>3. Started'
  BY <1>1 DEF LifecycleInv, Started
<1>4. NoInvalidUse' /\ PluggedHasQueues'
  BY <1>1 DEF LifecycleInv, NoInvalidUse, PluggedHasQueues
<1>5. QED
  BY <1>1, <1>2, <1>3, <1>4 DEF LifecycleInv, Creating, NotStarted, Starting, NoLockYet,
     OnlyIntrLockLeaks

LEMMA D0ExitFinalInv ==
  ASSUME ControllerTypeOK, LifecycleInv, D0ExitFinal
  PROVE  LifecycleInv'
<1>1. /\ pnp = "D0"
      /\ pnp' = "plugout"
      /\ invalid = {}
      /\ kept \/ raise = "idle"
      /\ UNCHANGED <<at, nStarts, obj, AllowOnlyResetInterrupts, plugged, buffers, kept, raise>>
  BY DEF D0ExitFinal, Running
<1>2. /\ nStarts = 1
      /\ obj["ChildDevice"] = "alive"
      /\ \A q \in StartedQueues : obj[q] = "alive"
  BY <1>1 DEF LifecycleInv, Started
<1>3. invalid' = {}
  BY <1>2 DEF D0ExitFinal, Misused, StartedQueues
<1>4. \A m \in Missions : WholeQueue(m)'
  BY <1>1, <1>3 DEF LifecycleInv, WholeQueue
<1>5. Started'
  BY <1>1, <1>2 DEF Started
<1>6. NoInvalidUse' /\ PluggedHasQueues'
  BY <1>1, <1>3 DEF LifecycleInv, NoInvalidUse, PluggedHasQueues
<1>7. QED
  BY <1>1, <1>4, <1>5, <1>6 DEF LifecycleInv, Creating, NotStarted, Starting, NoLockYet,
     OnlyIntrLockLeaks

LEMMA PlugOutInv ==
  ASSUME ControllerTypeOK, LifecycleInv, PlugOut
  PROVE  LifecycleInv'
<1>1. /\ pnp = "plugout"
      /\ pnp' \in {"freeing", "stopped"}
      /\ invalid = {}
      /\ UNCHANGED <<at, nStarts, AllowOnlyResetInterrupts, buffers, kept, raise, invalid>>
  BY DEF PlugOut, Running
<1>2. \A h \in Handles : h # "ChildDevice" => obj'[h] = obj[h]
  BY DEF PlugOut, ControllerTypeOK
<1>3. \A m \in Missions :
        /\ obj'[qsync[m]] = obj[qsync[m]]
        /\ obj'[ReadBufferQueue[m]] = obj[ReadBufferQueue[m]]
  BY <1>2, HandlesAre
<1>4. \A m \in Missions : WholeQueue(m)'
  BY <1>1, <1>3 DEF LifecycleInv, WholeQueue
<1>5. \A q \in StartedQueues : obj'[q] = "alive"
  <2>1. \A q \in StartedQueues : q \in Handles /\ q # "ChildDevice"
    BY HandlesAre DEF StartedQueues, EndpointQueues
  <2>2. QED
    BY <1>1, <1>2, <2>1 DEF LifecycleInv, Started
<1>6. nStarts = 1
  BY <1>1 DEF LifecycleInv, Started
<1>7. Started' /\ PluggedHasQueues' /\ NoLockYet'
  <2>1. pnp' = "freeing" => obj'["ChildDevice"] = "dead" /\ ~plugged'
    BY <1>1, HandlesAre DEF PlugOut, ControllerTypeOK
  <2>2. pnp' = "stopped" => obj' = obj
    BY <1>1 DEF PlugOut
  <2>3. QED
    BY <1>1, <1>5, <1>6, <2>1, <2>2 DEF LifecycleInv, Started, StartedQueues, PluggedHasQueues,
       NoLockYet
<1>8. kept \/ raise = "idle"
  BY <1>1 DEF LifecycleInv, ControllerTypeOK
<1>9. QED
  BY <1>1, <1>4, <1>6, <1>7, <1>8 DEF LifecycleInv, Creating, NotStarted, Starting,
     OnlyIntrLockLeaks, NoInvalidUse

LEMMA FreeQueuesInv ==
  ASSUME ControllerTypeOK, LifecycleInv, Io_FreeEndpointQueues
  PROVE  LifecycleInv'
<1>1. /\ pnp = "freeing"
      /\ pnp' = "stopped"
      /\ invalid = {}
      /\ UNCHANGED <<at, nStarts, AllowOnlyResetInterrupts, plugged, buffers, kept, raise>>
  BY DEF Io_FreeEndpointQueues, Running
<1>2. /\ nStarts = 1
      /\ ~plugged
      /\ \A q \in StartedQueues : obj[q] = "alive"
  BY <1>1 DEF LifecycleInv, Started
<1>3. invalid' = {}
  BY <1>2 DEF Io_FreeEndpointQueues, Misused, StartedQueues
<1>4. \A m \in Missions :
        /\ obj'[qsync[m]] = obj[qsync[m]]
        /\ obj'[ReadBufferQueue[m]] = obj[ReadBufferQueue[m]]
  BY HandlesAre DEF Io_FreeEndpointQueues, EndpointQueues
<1>5. \A m \in Missions : WholeQueue(m)'
  BY <1>1, <1>3, <1>4 DEF LifecycleInv, WholeQueue
<1>6. kept \/ raise = "idle"
  BY <1>1 DEF LifecycleInv, ControllerTypeOK
<1>7. obj'["ChildDevice"] = "dead"
  BY <1>1, HandlesAre DEF Io_FreeEndpointQueues, EndpointQueues, LifecycleInv, Started
<1>8. QED
  BY <1>1, <1>2, <1>3, <1>5, <1>6, <1>7 DEF LifecycleInv, Creating, NotStarted, Starting, Started,
     NoLockYet, OnlyIntrLockLeaks, NoInvalidUse, PluggedHasQueues

LEMMA RemovalInv ==
  ASSUME ControllerTypeOK, LifecycleInv, Remove \/ EvtCleanupDestroy
  PROVE  LifecycleInv'
<1>1. /\ pnp \in {"stopped", "removing"}
      /\ pnp' = "removing"
      /\ raise = "idle"
      /\ UNCHANGED <<nStarts, AllowOnlyResetInterrupts, plugged, buffers, kept, raise, invalid>>
  BY DEF Remove, EvtCleanupDestroy
<1>2. \A h \in Handles : h # "ChildDeviceInit" => obj'[h] = obj[h]
  BY DEF Remove, EvtCleanupDestroy, Usb_Destroy
<1>3. pnp' = "removing" /\ at' = 2 => obj'["ChildDeviceInit"] = "null"
  BY HandlesAre DEF LifecycleInv, Remove, EvtCleanupDestroy, Usb_Destroy
<1>4. \A m \in Missions :
        /\ obj'[qsync[m]] = obj[qsync[m]]
        /\ obj'[ReadBufferQueue[m]] = obj[ReadBufferQueue[m]]
  BY <1>2, HandlesAre
<1>5. \A m \in Missions : WholeQueue(m)'
  BY <1>1, <1>4 DEF LifecycleInv, WholeQueue
<1>6. PluggedHasQueues'
  <2>1. \A q \in StartedQueues : q \in Handles /\ q # "ChildDeviceInit"
    BY HandlesAre DEF StartedQueues, EndpointQueues
  <2>2. QED
    BY <1>1, <1>2, <2>1 DEF LifecycleInv, PluggedHasQueues, StartedQueues
<1>7. \A h \in {"ChildDevice", "IntrState.sync"} : obj'[h] = obj[h]
  BY <1>2, HandlesAre
<1>8. NoInvalidUse' /\ NoLockYet'
  BY <1>1, <1>7 DEF LifecycleInv, NoInvalidUse, NoLockYet
<1>9. QED
  BY <1>1, <1>3, <1>5, <1>6, <1>8 DEF LifecycleInv, Creating, NotStarted, Starting, Started,
     OnlyIntrLockLeaks

LEMMA CleanupBackChannelInv ==
  ASSUME ControllerTypeOK, LifecycleInv, EvtCleanupBackChannel
  PROVE  LifecycleInv'
<1>1. /\ pnp = "removing"
      /\ at = 2
      /\ pnp' = "gone"
      /\ invalid = {}
      /\ UNCHANGED <<nStarts, AllowOnlyResetInterrupts, plugged, kept, raise>>
      /\ WRQueueDestroy(Missions, "delete")
  BY DEF EvtCleanupBackChannel, Running
<1>2. \A m \in Missions : WholeQueue(m)
  BY DEF LifecycleInv
<1>3. \A m \in Missions : obj[qsync[m]] # "null" => obj[ReadBufferQueue[m]] = "alive"
  BY <1>1, <1>2 DEF WholeQueue
<1>4. /\ invalid' = {}
      /\ \A m \in Missions :
           IF obj[qsync[m]] # "null"
           THEN obj'[qsync[m]] = "null" /\ ~buffers'[m]
           ELSE obj'[qsync[m]] = obj[qsync[m]] /\ buffers'[m] = buffers[m]
      /\ \A h \in Handles :
           (\A m \in Missions : h # qsync[m] /\ h # ReadBufferQueue[m]) => obj'[h] = obj[h]
  BY <1>1, <1>3, DestroyEffect
<1>5. \A m \in Missions : obj'[qsync[m]] = "null" /\ ~buffers'[m]
  BY <1>2, <1>4 DEF WholeQueue
<1>6. \A h \in StartedQueues \cup {"ChildDeviceInit", "IntrState.sync"} : obj'[h] = obj[h]
  <2>1. \A h \in StartedQueues \cup {"ChildDeviceInit", "IntrState.sync"} :
          h \in Handles /\ \A m \in Missions : h # qsync[m] /\ h # ReadBufferQueue[m]
    BY HandlesAre DEF StartedQueues, EndpointQueues
  <2>2. QED
    BY <1>4, <2>1
<1>7. OnlyIntrLockLeaks' /\ NoLockYet'
  <2>1. NoLockYet' /\ (obj'["IntrState.sync"] # "null" => nStarts' > 0)
    BY <1>1, <1>6 DEF LifecycleInv, NoLockYet, ControllerTypeOK
  <2>2. obj'["ChildDeviceInit"] = "null"
    BY <1>1, <1>6 DEF LifecycleInv
  <2>3. QED
    BY <1>5, <2>1, <2>2 DEF OnlyIntrLockLeaks, Unparented
<1>8. PluggedHasQueues'
  BY <1>1, <1>6 DEF LifecycleInv, PluggedHasQueues, StartedQueues
<1>9. \A m \in Missions : WholeQueue(m)'
  BY <1>1, <1>5 DEF WholeQueue
<1>10. ~kept => raise = "idle"
  BY <1>1 DEF LifecycleInv, ControllerTypeOK
<1>11. QED
  BY <1>1, <1>4, <1>7, <1>8, <1>9, <1>10 DEF LifecycleInv, Creating, NotStarted, Starting, Started,
     NoInvalidUse

LEMMA BuffersInv ==
  ASSUME ControllerTypeOK, LifecycleInv, NEW m \in Missions, BufferWrite(m) \/ BufferRead(m)
  PROVE  LifecycleInv'
<1>1. /\ pnp \in {"D0", "low"}
      /\ UNCHANGED <<at, nStarts, obj, AllowOnlyResetInterrupts, plugged, kept, raise, invalid>>
      /\ pnp' = pnp
  BY DEF BufferWrite, BufferRead
<1>2. \A n \in Missions : WholeQueue(n)'
  BY <1>1 DEF LifecycleInv, WholeQueue
<1>3. QED
  BY <1>1, <1>2 DEF LifecycleInv, Creating, NotStarted, Starting, Started, NoLockYet,
     OnlyIntrLockLeaks, NoInvalidUse, PluggedHasQueues

LEMMA RaiseInv ==
  ASSUME ControllerTypeOK, LifecycleInv, RaiseBegins \/ RaiseEnds
  PROVE  LifecycleInv'
<1>1. /\ invalid = {}
      /\ UNCHANGED <<pnp, at, nStarts, obj, AllowOnlyResetInterrupts, plugged, buffers, kept>>
      /\ raise # raise'
      /\ raise = "idle" => /\ nStarts > 0
                           /\ pnp \in {"D0", "low", "plugout", "freeing", "stopped"}
                           /\ ~kept => pnp \in {"D0", "low"}
      /\ invalid' \subseteq {"raise"}
      /\ obj["ChildDevice"] = "alive" /\ obj["IntrDeferredQueue"] = "alive" => invalid' = {}
  BY DEF RaiseBegins, RaiseEnds, Running, Misused
<1>2. raise \in {"idle", "raising"} /\ nStarts \in Nat
  BY DEF ControllerTypeOK
<1>3. ~kept => pnp \in {"D0", "low"}
  BY <1>1, <1>2 DEF LifecycleInv
<1>4. ~kept => invalid' = {}
  BY <1>1, <1>3 DEF LifecycleInv, Started, StartedQueues
<1>5. /\ nStarts > 0
      /\ pnp \in {"D0", "low", "plugout", "freeing", "stopped"}
  BY <1>1, <1>2 DEF LifecycleInv, Starting, Started
<1>6. obj["ChildDevice"] # "dead" => invalid' = {}
  BY <1>1, <1>5 DEF LifecycleInv, Started, StartedQueues
<1>7. NoInvalidUse'
  BY <1>1, <1>4, <1>6 DEF NoInvalidUse
<1>8. NotStarted'
  BY <1>1, <1>2 DEF LifecycleInv, NotStarted
<1>9. \A m \in Missions : WholeQueue(m)'
  BY <1>1 DEF LifecycleInv, WholeQueue
<1>10. QED
  BY <1>1, <1>3, <1>5, <1>7, <1>8, <1>9 DEF LifecycleInv, Creating, Starting, Started, NoLockYet,
     OnlyIntrLockLeaks, PluggedHasQueues

LEMMA LifecycleStutter ==
  ASSUME LifecycleInv, UNCHANGED controllerVars
  PROVE  LifecycleInv'
<1>1. \A m \in Missions : WholeQueue(m)'
  BY DEF LifecycleInv, WholeQueue, controllerVars
<1>2. QED
  BY <1>1 DEF LifecycleInv, controllerVars, Creating, NotStarted, Starting, Started,
     NoLockYet, OnlyIntrLockLeaks, NoInvalidUse, PluggedHasQueues

LEMMA LifecycleStep ==
  ControllerTypeOK /\ LifecycleInv /\ [ControllerNext]_controllerVars => LifecycleInv'
BY AddSucceedsInv, AddFailsInv, D0EntryFinalInv, PlugSucceedsInv, PlugFailsInv, LowPowerInv,
   D0ExitFinalInv, PlugOutInv, FreeQueuesInv, RemovalInv, CleanupBackChannelInv, BuffersInv,
   RaiseInv, LifecycleStutter
   DEF ControllerNext

LEMMA LifecycleHolds == ControllerSpec => []LifecycleInv
BY LifecycleInit, LifecycleStep, ControllerTypeCorrect, PTL DEF ControllerSpec

\* No handle is used without its object, but in the four cases the code does
\* not exclude, each only in the phase of the life cycle it belongs to.
THEOREM HandlesAreUsedAlive == ControllerSpec => []NoInvalidUse
<1>1. LifecycleInv => NoInvalidUse
  BY DEF LifecycleInv
<1>2. QED
  BY <1>1, LifecycleHolds, PTL

\* Whichever call failed, the removed controller has left nothing behind but the
\* lock that its start made and nothing deletes.
THEOREM RemovalIsComplete == ControllerSpec => []OnlyIntrLockLeaks
<1>1. LifecycleInv => OnlyIntrLockLeaks
  BY DEF LifecycleInv
<1>2. QED
  BY <1>1, LifecycleHolds, PTL

\* A device the hub can send URBs to has the queues they go to.
THEOREM QueuesOutlastPlug == ControllerSpec => []PluggedHasQueues
<1>1. LifecycleInv => PluggedHasQueues
  BY DEF LifecycleInv
<1>2. QED
  BY <1>1, LifecycleHolds, PTL

-----------------------------------------------------------------------------
(* Gadget One: numbers *)

ParamType ==
  /\ param.autoresume \in Unsigned
  /\ param.max_autoresume \in Unsigned
  /\ param.autoresume_interval_ms \in Unsigned

LEMMA ParamsAreNumbers == TypeOK => ParamType
BY ParamsAssumption DEF TypeOK, ParamType

\* Unsigned arithmetic stays in range, and is exact below the modulus.
LEMMA Wraps == \A n \in Nat : n % UINT \in Unsigned
BY UintAssumption DEF Unsigned

LEMMA Exact == \A n \in Unsigned : n % UINT = n
BY UintAssumption DEF Unsigned

LEMMA MsIsUnsigned == ASSUME NEW n \in Unsigned PROVE Ms(n) \in Unsigned
<1>1. n * 1000 \in Nat
  BY UintAssumption DEF Unsigned
<1>2. QED
  BY <1>1, Wraps DEF Ms

LEMMA StepIsNumber == TypeOK => StepMs \in Unsigned
<1>1. SUFFICES ASSUME TypeOK PROVE StepMs \in Unsigned
  OBVIOUS
<1>2. Ms(param.autoresume) \in Unsigned
  BY <1>1, ParamsAreNumbers, MsIsUnsigned DEF ParamType
<1>3. QED
  BY <1>1, <1>2 DEF TypeOK, StepMs

-----------------------------------------------------------------------------
(* Gadget One: types *)

LEMMA TypeInit == Init => TypeOK
<1>1. SUFFICES ASSUME Init PROVE TypeOK
  OBVIOUS
<1>2. 0 \in Unsigned /\ 0 \in 0 .. MaxBinds
  BY BoundsAssumption, UintAssumption DEF Unsigned
<1>3. "NULL" \in Handle
  BY DEF Handle
<1>4. autoresume_timer \in SUBSET Unsigned /\ \A a, b \in autoresume_timer : a = b
  BY <1>1 DEF Init
<1>5. QED
  BY <1>1, <1>2, <1>3, <1>4 DEF Init, TypeOK

\* What is released, and what is found missing, are objects.
LEMMA ReleaseType ==
  ASSUME TypeOK, NEW objects \in SUBSET Objects, NEW needs \in SUBSET Objects,
         Release(objects, needs)
  PROVE  live' \in SUBSET Objects /\ misused' \in SUBSET Objects
BY DEF TypeOK, Release

LEMMA TypeBind == TypeOK /\ Bind => TypeOK'
<1>1. SUFFICES ASSUME TypeOK, Bind PROVE TypeOK'
  OBVIOUS
<1>2. CASE BindStrings
  <2>1. driver' \in {"instance", "undefined", "unbound"}
    BY <1>2 DEF BindStrings
  <2>2. nBinds' \in 0 .. MaxBinds
    BY <1>1, <1>2, BoundsAssumption DEF TypeOK, BindStrings
  <2>3. overtaken' \in BOOLEAN
    BY <1>1, <1>2 DEF TypeOK, BindStrings
  <2>4. UNCHANGED <<param, gadget_is_otg, live, func_inst_lb, func_lb, otg_desc, misused,
                    timerVars, busVars>>
    BY <1>2 DEF BindStrings
  <2>5. QED
    BY <1>1, <2>1, <2>2, <2>3, <2>4 DEF TypeOK, timerVars, busVars
<1>3. CASE BindInstance
  <2>1. live' \in SUBSET Objects
    BY <1>1, <1>3 DEF TypeOK, BindInstance, Objects
  <2>2. driver' \in {"function", "unbound"} /\ func_inst_lb' \in Handle
    BY <1>3 DEF BindInstance, Handle
  <2>3. UNCHANGED <<param, gadget_is_otg, func_lb, otg_desc, misused, overtaken, nBinds,
                    timerVars, busVars>>
    BY <1>3 DEF BindInstance
  <2>4. QED
    BY <1>1, <2>1, <2>2, <2>3 DEF TypeOK, timerVars, busVars
<1>4. CASE BindFunction
  <2>1. autoresume_step_ms' \in Unsigned
    <3>1. Ms(param.autoresume) \in Unsigned
      BY <1>1, ParamsAreNumbers, MsIsUnsigned DEF ParamType
    <3>2. QED
      BY <1>1, <1>4, <3>1 DEF TypeOK, BindFunction
  <2>2. live' \in SUBSET Objects
    BY <1>1, <1>4 DEF TypeOK, BindFunction, Objects
  <2>3. driver' \in {"descriptor", "err_put_func_inst_lb"} /\ func_lb' \in Handle
    BY <1>4 DEF BindFunction, Handle
  <2>4. UNCHANGED <<param, gadget_is_otg, func_inst_lb, otg_desc, misused, overtaken, nBinds,
                    autoresume_timer, callback, busVars>>
    BY <1>4 DEF BindFunction
  <2>5. QED
    BY <1>1, <2>1, <2>2, <2>3, <2>4 DEF TypeOK, busVars
<1>5. CASE BindDescriptor
  <2>1. live' \in SUBSET Objects /\ otg_desc' \in Handle
    BY <1>1, <1>5 DEF TypeOK, BindDescriptor, Objects, Handle
  <2>2. driver' \in {"add", "err_conf_flb"}
    BY <1>5 DEF BindDescriptor
  <2>3. UNCHANGED <<param, gadget_is_otg, func_inst_lb, func_lb, misused, overtaken, nBinds,
                    timerVars, busVars>>
    BY <1>5 DEF BindDescriptor
  <2>4. QED
    BY <1>1, <2>1, <2>2, <2>3 DEF TypeOK, timerVars, busVars
<1>6. CASE BindAdd
  <2>1. driver' \in {"bound", "err_free_otg_desc"}
    BY <1>6 DEF BindAdd
  <2>2. UNCHANGED <<param, gadget_is_otg, live, func_inst_lb, func_lb, otg_desc, misused,
                    overtaken, nBinds, timerVars, busVars>>
    BY <1>6 DEF BindAdd
  <2>3. QED
    BY <1>1, <2>1, <2>2 DEF TypeOK, timerVars, busVars
<1>7. QED
  BY <1>1, <1>2, <1>3, <1>4, <1>5, <1>6 DEF Bind

LEMMA TypeUndo == TypeOK /\ Undo => TypeOK'
<1>1. SUFFICES ASSUME TypeOK, Undo PROVE TypeOK'
  OBVIOUS
<1>2. live' \in SUBSET Objects /\ misused' \in SUBSET Objects
  <2>1. \/ Release(Descriptor, {})
        \/ Release({"function"}, {"instance"})
        \/ Release({"instance"}, {})
    BY <1>1 DEF Undo, ErrFreeOtgDesc, ErrConfFlb, ErrPutFuncInst
  <2>2. Descriptor \in SUBSET Objects
    BY DEF Descriptor, Objects
  <2>3. QED
    BY <1>1, <2>1, <2>2, ReleaseType DEF Objects
<1>3. /\ driver' \in {"err_conf_flb", "err_put_func_inst_lb", "unbound"}
      /\ func_inst_lb' \in Handle
      /\ func_lb' \in Handle
      /\ otg_desc' \in Handle
  BY <1>1 DEF TypeOK, Undo, ErrFreeOtgDesc, ErrConfFlb, ErrPutFuncInst, Handle
<1>4. UNCHANGED <<param, gadget_is_otg, overtaken, nBinds, timerVars, busVars>>
  BY <1>1 DEF Undo, ErrFreeOtgDesc, ErrConfFlb, ErrPutFuncInst
<1>5. QED
  BY <1>1, <1>2, <1>3, <1>4 DEF TypeOK, timerVars, busVars

LEMMA TypeUnbind ==
  TypeOK /\ (Unbind \/ UnbindTimer \/ UnbindFunction \/ UnbindInstance) => TypeOK'
<1>1. SUFFICES ASSUME TypeOK, Unbind \/ UnbindTimer \/ UnbindFunction \/ UnbindInstance
               PROVE  TypeOK'
  OBVIOUS
<1>2. CASE Unbind
  BY <1>1, <1>2 DEF TypeOK, Unbind, Handle, timerVars
<1>3. CASE UnbindTimer
  BY <1>1, <1>3 DEF TypeOK, UnbindTimer, busVars
<1>4. CASE UnbindFunction
  <2>1. live' \in SUBSET Objects /\ misused' \in SUBSET Objects
    BY <1>1, <1>4, ReleaseType DEF TypeOK, UnbindFunction, Objects
  <2>2. QED
    BY <1>1, <1>4, <2>1 DEF TypeOK, UnbindFunction, timerVars, busVars
<1>5. CASE UnbindInstance
  <2>1. {"instance"} \cup Descriptor \in SUBSET Objects
    BY DEF Descriptor, Objects
  <2>2. live' \in SUBSET Objects /\ misused' \in SUBSET Objects
    BY <1>1, <1>5, <2>1, ReleaseType DEF UnbindInstance
  <2>3. QED
    BY <1>1, <1>5, <2>2 DEF TypeOK, UnbindInstance, Handle, timerVars, busVars
<1>6. QED
  BY <1>1, <1>2, <1>3, <1>4, <1>5

LEMMA ArmType ==
  ASSUME TypeOK, Arm
  PROVE  /\ autoresume_step_ms' \in Unsigned
         /\ autoresume_timer' \in SUBSET Unsigned
         /\ \A a, b \in autoresume_timer' : a = b
<1>1. CASE UNCHANGED <<autoresume_timer, autoresume_step_ms>>
  BY <1>1 DEF TypeOK
<1>2. CASE /\ autoresume_timer' = {StepMs}
           /\ autoresume_step_ms' = (StepMs + param.autoresume_interval_ms) % UINT
  <2>1. StepMs \in Unsigned /\ param.autoresume_interval_ms \in Unsigned
    BY ParamsAreNumbers, StepIsNumber DEF ParamType
  <2>2. (StepMs + param.autoresume_interval_ms) % UINT \in Unsigned
    BY <2>1, UintAssumption, Wraps DEF Unsigned
  <2>3. QED
    BY <1>2, <2>1, <2>2
<1>3. QED
  BY <1>1, <1>2 DEF Arm

LEMMA TypeBus == TypeOK /\ Bus => TypeOK'
<1>1. SUFFICES ASSUME TypeOK, Bus PROVE TypeOK'
  OBVIOUS
<1>2. CASE Connect \/ SetConfig \/ Disconnect
  BY <1>1, <1>2 DEF TypeOK, Connect, SetConfig, Disconnect, Handle, bindVars, timerVars
<1>3. CASE Suspend
  BY <1>1, <1>3 DEF TypeOK, Suspend, bindVars, timerVars
<1>4. CASE SuspendArm
  <2>1. /\ autoresume_step_ms' \in Unsigned
        /\ autoresume_timer' \in SUBSET Unsigned
        /\ \A a, b \in autoresume_timer' : a = b
    BY <1>1, <1>4, ArmType DEF SuspendArm
  <2>2. QED
    BY <1>1, <1>4, <2>1 DEF TypeOK, SuspendArm, bindVars
<1>5. CASE Resume
  BY <1>1, <1>5 DEF TypeOK, Resume, bindVars
<1>6. QED
  BY <1>1, <1>2, <1>3, <1>4, <1>5 DEF Bus

LEMMA TypeTimer == TypeOK /\ (Expire \/ Callback) => TypeOK'
<1>1. SUFFICES ASSUME TypeOK, Expire \/ Callback PROVE TypeOK'
  OBVIOUS
<1>2. CASE Expire
  BY <1>1, <1>2 DEF TypeOK, Expire, bindVars, busVars
<1>3. CASE CallbackConfig
  BY <1>1, <1>3 DEF TypeOK, CallbackConfig, busVars
<1>4. CASE CallbackWakeup
  BY <1>1, <1>4 DEF TypeOK, CallbackWakeup, bindVars
<1>5. QED
  BY <1>1, <1>2, <1>3, <1>4 DEF Callback

LEMMA TypeStep == TypeOK /\ [Next]_vars => TypeOK'
<1>1. TypeOK /\ UNCHANGED vars => TypeOK'
  BY DEF TypeOK, vars, bindVars, timerVars, busVars
<1>2. QED
  BY <1>1, TypeBind, TypeUndo, TypeUnbind, TypeBus, TypeTimer DEF Next

\* The module keeps its types, with never more than one timer pending.
THEOREM TypeCorrect == Spec => []TypeOK
BY TypeInit, TypeStep, PTL DEF Spec

-----------------------------------------------------------------------------
(* Gadget One: the timer *)

\* The bus is connected only while the driver is bound, so a suspension that
\* is reported later finds the speed unknown; one that is about to arm the timer
\* found it known, and del_timer_sync has not been called since or saw it.
QuietUnbound ==
  /\ TimerWithinBind
  /\ speed # "unknown" => driver = "bound"
  /\ suspend = "arm" => Bound \/ overtaken

LEMMA QuietStep == QuietUnbound /\ [Next]_vars => QuietUnbound'
<1>1. SUFFICES ASSUME QuietUnbound, [Next]_vars PROVE QuietUnbound'
  OBVIOUS
<1> USE <1>1 DEF QuietUnbound, TimerWithinBind, TimerIdle, Bound
<1>2. CASE UNCHANGED vars
  BY <1>2 DEF vars, bindVars, timerVars, busVars
<1>3. CASE BindStrings
  <2>1. UNCHANGED <<autoresume_timer, callback, speed, suspend>> /\ driver = "unbound"
    BY <1>3 DEF BindStrings, timerVars, busVars
  <2>2. suspend = "idle" /\ speed = "unknown"
    BY <1>3, <2>1 DEF BindStrings
  <2>3. CASE TimerIdle
    BY <1>3, <2>1, <2>2, <2>3 DEF BindStrings
  <2>4. CASE ~TimerIdle
    <3>1. overtaken
      BY <2>1, <2>4
    <3>2. overtaken' /\ suspend' = "idle" /\ speed' = "unknown"
      BY <1>3, <2>1, <2>2, <2>4, <3>1 DEF BindStrings
    <3>3. QED
      BY <3>2
  <2>5. QED
    BY <2>3, <2>4
<1>4. CASE BindInstance \/ BindFunction
  BY <1>4 DEF BindInstance, BindFunction, timerVars, busVars
<1>5. CASE BindDescriptor \/ BindAdd
  BY <1>5 DEF BindDescriptor, BindAdd, timerVars, busVars
<1>6. CASE Undo
  BY <1>6 DEF Undo, ErrFreeOtgDesc, ErrConfFlb, ErrPutFuncInst, timerVars, busVars
<1>7. CASE Connect \/ SetConfig \/ Disconnect
  BY <1>7 DEF Connect, SetConfig, Disconnect, bindVars, timerVars
<1>8. CASE Suspend
  BY <1>8 DEF Suspend, SpeedKnown, bindVars, timerVars
<1>9. CASE SuspendArm
  BY <1>9 DEF SuspendArm, bindVars
<1>10. CASE Resume
  BY <1>10 DEF Resume, bindVars
<1>11. CASE Expire
  BY <1>11 DEF Expire, bindVars, busVars
<1>12. CASE CallbackConfig
  BY <1>12 DEF CallbackConfig, HasDevice, busVars
<1>13. CASE CallbackWakeup
  BY <1>13 DEF CallbackWakeup, bindVars
<1>14. CASE Unbind
  BY <1>14 DEF Unbind, timerVars
<1>15. CASE UnbindTimer
  BY <1>15 DEF UnbindTimer, busVars
<1>16. CASE UnbindFunction \/ UnbindInstance
  BY <1>16 DEF UnbindFunction, UnbindInstance, timerVars, busVars
<1>17. QED
  BY <1>2, <1>3, <1>4, <1>5, <1>6, <1>7, <1>8, <1>9, <1>10, <1>11, <1>12, <1>13, <1>14, <1>15,
     <1>16 DEF Next, Bind, Bus, Callback

\* The timer and its callback outlive the composite device only behind a
\* suspension that had passed its test of the speed when zero_unbind deleted the
\* timer, for any parameters and any number of binds; nothing else arms it again.
THEOREM TimerIsSafe == Spec => []TimerWithinBind
<1>1. Init => QuietUnbound
  BY DEF Init, QuietUnbound, TimerWithinBind, TimerIdle
<1>2. QuietUnbound => TimerWithinBind
  BY DEF QuietUnbound
<1>3. QED
  BY <1>1, <1>2, QuietStep, PTL DEF Spec

-----------------------------------------------------------------------------
(* Gadget One: the objects *)

\* What exists at each point of zero_bind and zero_unbind, exactly.
HoldsExactly ==
  /\ misused = {}
  /\ driver \in {"unbound", "instance"} => live = {} /\ otg_desc = "NULL"
  /\ driver \in {"function", "err_put_func_inst_lb"} => live = {"instance"} /\ otg_desc = "NULL"
  /\ driver \in {"descriptor", "err_conf_flb"} =>
       live = {"instance", "function"} /\ otg_desc = "NULL"
  /\ driver \in {"add", "err_free_otg_desc", "bound", "del_timer", "put_function"} =>
       live = {"instance", "function"} \cup Descriptor
  /\ driver \in {"descriptor", "add", "bound", "del_timer", "put_function"} => func_lb = "valid"
  /\ driver = "put_instance" => live = {"instance"} \cup Descriptor

LEMMA HoldsStep == TypeOK /\ HoldsExactly /\ [Next]_vars => HoldsExactly'
<1>1. SUFFICES ASSUME TypeOK, HoldsExactly, [Next]_vars PROVE HoldsExactly'
  OBVIOUS
<1> USE <1>1 DEF HoldsExactly, Descriptor
<1>2. CASE UNCHANGED vars
  BY <1>2 DEF vars, bindVars
<1>3. CASE BindStrings \/ BindInstance
  BY <1>3 DEF BindStrings, BindInstance
<1>4. CASE BindFunction
  BY <1>4 DEF BindFunction
<1>5. CASE BindDescriptor
  BY <1>5 DEF BindDescriptor
<1>6. CASE BindAdd
  BY <1>6 DEF BindAdd
<1>7. CASE ErrFreeOtgDesc
  BY <1>7 DEF ErrFreeOtgDesc, Release
<1>8. CASE ErrConfFlb \/ ErrPutFuncInst
  BY <1>8 DEF ErrConfFlb, ErrPutFuncInst, Release
<1>9. CASE Bus \/ Expire \/ CallbackWakeup
  BY <1>9 DEF Bus, Connect, SetConfig, Disconnect, Suspend, SuspendArm, Resume, Expire,
     CallbackWakeup, bindVars
<1>10. CASE CallbackConfig
  BY <1>10 DEF CallbackConfig
<1>11. CASE Unbind \/ UnbindTimer
  BY <1>11 DEF Unbind, UnbindTimer
<1>12. CASE UnbindFunction
  BY <1>12 DEF UnbindFunction, Release
<1>13. CASE UnbindInstance
  BY <1>13 DEF UnbindInstance, Release
<1>14. QED
  BY <1>2, <1>3, <1>4, <1>5, <1>6, <1>7, <1>8, <1>9, <1>10, <1>11, <1>12, <1>13
     DEF Next, Bind, Undo, Callback

\* No failure of zero_bind leaks, releases twice or in the wrong order, through
\* whichever of its error labels it goes, and neither does unbinding.
THEOREM BindIsUndone == Spec => []NothingHeldUnbound
<1>1. Init => HoldsExactly
  BY DEF Init, HoldsExactly
<1>2. HoldsExactly => NothingHeldUnbound
  BY DEF HoldsExactly, NothingHeldUnbound
<1>3. QED
  BY <1>1, <1>2, HoldsStep, TypeCorrect, PTL DEF Spec

-----------------------------------------------------------------------------
(* Gadget One: the delay *)

\* While the timer may be armed the next delay is not below the first one.
MayArm == driver \in {"descriptor", "add", "bound"} \/ suspend = "arm"

DelayFloor ==
  /\ DelayWithinParams
  /\ NoWrap /\ param.autoresume # 0 /\ MayArm => param.autoresume * 1000 <= autoresume_step_ms

LEMMA SecondsExact ==
  ASSUME TypeOK, NoWrap
  PROVE  /\ Ms(param.autoresume) = param.autoresume * 1000
         /\ Ms(param.max_autoresume) = param.max_autoresume * 1000
<1>1. ParamType
  BY ParamsAreNumbers
<1>2. param.autoresume * 1000 \in Unsigned /\ param.max_autoresume * 1000 \in Unsigned
  BY <1>1, UintAssumption DEF ParamType, NoWrap, Unsigned
<1>3. QED
  BY <1>2, Exact DEF Ms

LEMMA ArmedWithin ==
  ASSUME TypeOK, DelayFloor, NoWrap, param.autoresume # 0, MayArm
  PROVE  /\ param.autoresume * 1000 <= StepMs
         /\ param.autoresume <= param.max_autoresume => StepMs <= param.max_autoresume * 1000
         /\ (StepMs + param.autoresume_interval_ms) % UINT = StepMs + param.autoresume_interval_ms
<1>1. /\ param.autoresume * 1000 <= StepMs
      /\ param.autoresume <= param.max_autoresume => StepMs <= param.max_autoresume * 1000
      /\ StepMs <= param.max_autoresume * 1000 \/ StepMs = param.autoresume * 1000
  BY ParamsAreNumbers, SecondsExact, UintAssumption
     DEF TypeOK, ParamType, DelayFloor, StepMs, Unsigned, NoWrap
<1>2. StepMs + param.autoresume_interval_ms \in Unsigned
  BY <1>1, ParamsAreNumbers, StepIsNumber, UintAssumption DEF ParamType, Unsigned, NoWrap
<1>3. QED
  BY <1>1, <1>2, Exact

\* What arming the timer does to the two.
LEMMA ArmStep == ASSUME TypeOK, DelayFloor, SuspendArm PROVE DelayFloor'
<1>1. param' = param /\ MayArm
  BY DEF SuspendArm, MayArm
<1>2. CASE ~NoWrap
  BY <1>1, <1>2 DEF DelayFloor, DelayWithinParams, NoWrap
<1>3. CASE NoWrap /\ param.autoresume # 0
  <2>1. /\ autoresume_timer' = {StepMs}
        /\ autoresume_step_ms' = (StepMs + param.autoresume_interval_ms) % UINT
    BY <1>3 DEF SuspendArm, Arm
  <2>2. /\ param.autoresume * 1000 <= StepMs
        /\ param.autoresume <= param.max_autoresume => StepMs <= param.max_autoresume * 1000
        /\ autoresume_step_ms' = StepMs + param.autoresume_interval_ms
    BY <1>1, <1>3, <2>1, ArmedWithin
  <2>3. DelayWithinParams'
    BY <1>1, <2>1, <2>2 DEF DelayWithinParams
  <2>4. param.autoresume * 1000 <= autoresume_step_ms'
    BY <2>2, ParamsAreNumbers, StepIsNumber, UintAssumption DEF ParamType, Unsigned
  <2>5. QED
    BY <1>1, <2>3, <2>4 DEF DelayFloor
<1>4. CASE param.autoresume = 0
  <2>1. UNCHANGED autoresume_timer
    BY <1>4 DEF SuspendArm, Arm
  <2>2. QED
    BY <1>1, <1>4, <2>1 DEF DelayFloor, DelayWithinParams, NoWrap
<1>5. QED
  BY <1>2, <1>3, <1>4

LEMMA DelayStep == TypeOK /\ QuietUnbound /\ DelayFloor /\ [Next]_vars => DelayFloor'
<1>1. SUFFICES ASSUME TypeOK, QuietUnbound, DelayFloor, [Next]_vars PROVE DelayFloor'
  OBVIOUS
<1>2. CASE SuspendArm
  BY <1>1, <1>2, ArmStep
<1>3. CASE BindFunction
  <2>1. NoWrap => Ms(param.autoresume) = param.autoresume * 1000
    BY <1>1, SecondsExact
  <2>2. param.autoresume * 1000 \in Nat
    BY <1>1, ParamsAreNumbers, UintAssumption DEF ParamType, Unsigned
  <2>3. UNCHANGED <<param, autoresume_timer, suspend>>
    BY <1>3 DEF BindFunction, busVars
  <2>4. CASE driver' = "descriptor"
    <3>1. NoWrap /\ param.autoresume # 0 => autoresume_step_ms' = param.autoresume * 1000
      BY <1>3, <2>1, <2>4 DEF BindFunction
    <3>2. QED
      BY <1>1, <2>2, <2>3, <3>1 DEF DelayFloor, DelayWithinParams, NoWrap
  <2>5. CASE driver' = "err_put_func_inst_lb"
    <3>1. UNCHANGED autoresume_step_ms
      BY <1>3, <2>5 DEF BindFunction
    <3>2. QED
      BY <1>1, <2>3, <2>5, <3>1 DEF DelayFloor, DelayWithinParams, NoWrap, MayArm
  <2>6. QED
    BY <1>3, <2>4, <2>5 DEF BindFunction
\* Every other step leaves the next delay alone, arms nothing, and comes to where
\* the timer may be armed only from where it may be.
<1>4. CASE ~(SuspendArm \/ BindFunction)
  <2>1. UNCHANGED <<param, autoresume_step_ms>> /\ autoresume_timer' \subseteq autoresume_timer
    BY <1>1, <1>4 DEF Next, Bind, Undo, Bus, Callback, vars, bindVars, timerVars, BindStrings,
       BindInstance, BindDescriptor, BindAdd, ErrFreeOtgDesc, ErrConfFlb, ErrPutFuncInst, Connect,
       SetConfig, Disconnect, Suspend, Resume, Expire, CallbackConfig, CallbackWakeup, Unbind,
       UnbindTimer, UnbindFunction, UnbindInstance
  <2>2. MayArm' => MayArm
    <3>1. CASE UNCHANGED vars
      BY <3>1 DEF MayArm, vars, bindVars, busVars
    <3>2. CASE Bind \/ Undo
      BY <1>4, <3>2 DEF MayArm, Bind, BindStrings, BindInstance, BindDescriptor, BindAdd, Undo,
         ErrFreeOtgDesc, ErrConfFlb, ErrPutFuncInst, busVars
    <3>3. CASE Suspend
      BY <1>1, <3>3 DEF MayArm, Suspend, SpeedKnown, QuietUnbound, bindVars
    <3>4. CASE Connect \/ SetConfig \/ Disconnect \/ Resume
      BY <3>4 DEF MayArm, Connect, SetConfig, Disconnect, Resume, bindVars
    <3>5. CASE Expire \/ Callback
      BY <3>5 DEF MayArm, Expire, Callback, CallbackConfig, CallbackWakeup, bindVars, busVars
    <3>6. CASE Unbind \/ UnbindTimer \/ UnbindFunction \/ UnbindInstance
      BY <3>6 DEF MayArm, Unbind, UnbindTimer, UnbindFunction, UnbindInstance, busVars
    <3>7. QED
      BY <1>1, <1>4, <3>1, <3>2, <3>3, <3>4, <3>5, <3>6 DEF Next, Bus
  <2>3. QED
    BY <1>1, <2>1, <2>2 DEF DelayFloor, DelayWithinParams, NoWrap
<1>5. QED
  BY <1>2, <1>3, <1>4

\* Every wakeup delay lies between the two module parameters, unless there is
\* no maximum or unsigned arithmetic wraps on the way.
THEOREM DelayIsBounded == Spec => []DelayWithinParams
<1>1. Init => QuietUnbound /\ DelayFloor
  BY DEF Init, QuietUnbound, TimerWithinBind, TimerIdle, DelayFloor, DelayWithinParams, MayArm
<1>2. TypeOK /\ QuietUnbound /\ DelayFloor /\ [Next]_vars => (QuietUnbound /\ DelayFloor)'
  BY QuietStep, DelayStep
<1>3. DelayFloor => DelayWithinParams
  BY DEF DelayFloor
<1>4. QED
  BY <1>1, <1>2, <1>3, TypeCorrect, PTL DEF Spec
==============================================================================
