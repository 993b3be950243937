------------------------------ MODULE GadgetOne ------------------------------
(***************************************************************************)
(* Gadget One (rpi/source/simplegadget/one.c): the composite driver that   *)
(* puts the loopback function into a configuration of its own and, with    *)
(* the parameter autoresume, wakes the host some time after a suspension.  *)
(*                                                                         *)
(* The composite core calls zero_bind and zero_unbind in turn.  While the  *)
(* driver is bound the bus is connected, configured, suspended and resumed *)
(* in any order, and the timer's callback runs beside all of it on another *)
(* processor.  zero_suspend takes no lock: zero_unbind can run between its *)
(* test of the speed and the timer it arms.  zero_bind makes its objects   *)
(* one by one and undoes them when a later call fails.                     *)
(*                                                                         *)
(* A timer that is left pending looks at a composite device that is gone,  *)
(* or is set up again by the next zero_bind while it is pending.  What the *)
(* kernel does then is undefined, and the model stops there.               *)
(***************************************************************************)
EXTENDS Naturals

CONSTANTS
  MaxBinds,  \* bound: how often the driver is bound
  UINT,      \* unsigned arithmetic is modulo this: 2^32 in the code
  Params,    \* the module parameters that are tried
  Faults     \* which calls may fail, a subset of FaultKinds

Unsigned == 0 .. UINT - 1

\* strings: usb_string_ids_tab;  instance: usb_get_function_instance;
\* function: usb_get_function;  descriptor: usb_otg_descriptor_alloc;
\* add: usb_add_function, that is loopback_bind
FaultKinds == {"strings", "instance", "function", "descriptor", "add"}

ASSUME BoundsAssumption == MaxBinds \in Nat
ASSUME UintAssumption == UINT \in Nat \ {0}
ASSUME ParamsAssumption ==
  Params \subseteq [autoresume : Unsigned, max_autoresume : Unsigned,
                    autoresume_interval_ms : Unsigned]
ASSUME FaultsAssumption == Faults \subseteq FaultKinds

VARIABLES
  param,               \* the module parameters
  gadget_is_otg,       \* what the hardware is
  driver,              \* where zero_bind or zero_unbind is
  live,                \* the objects that exist
  func_inst_lb, func_lb, otg_desc,  \* the driver's handles to them
  misused,             \* objects released or needed that did not exist
  autoresume_step_ms,  \* the delay of the next wakeup
  autoresume_timer,    \* the delay the timer is armed with, if it is pending
  callback,            \* where zero_autoresume is
  speed,               \* gadget->speed: is a host there
  config,              \* cdev->config: has it selected the configuration
  bus,                 \* active, suspended, or suspended and asked to wake up
  suspend,             \* where zero_suspend is: idle, or about to arm the timer
  overtaken,           \* the last del_timer_sync met a suspension about to do so
  nBinds

timerVars == <<autoresume_step_ms, autoresume_timer, callback>>
busVars   == <<speed, config, bus, suspend>>
bindVars  == <<driver, live, func_inst_lb, func_lb, otg_desc, misused, overtaken, nBinds>>
vars == <<param, gadget_is_otg, bindVars, timerVars, busVars>>

Objects == {"instance", "function", "descriptor"}
Handle  == {"NULL", "ERR", "valid"}

\* The timer and the composite device exist, and so may be used.
Bound == driver \in {"bound", "del_timer"}

\* The core has a composite device, whose suspensions it reports.
HasDevice == driver \in {"bound", "del_timer", "put_function", "put_instance"}

TypeOK ==
  /\ param \in Params
  /\ gadget_is_otg \in BOOLEAN
  /\ driver \in {"unbound", "instance", "function", "descriptor", "add", "err_free_otg_desc",
                 "err_conf_flb", "err_put_func_inst_lb", "bound", "del_timer", "put_function",
                 "put_instance", "undefined"}
  /\ live \in SUBSET Objects
  /\ func_inst_lb \in Handle
  /\ func_lb \in Handle
  /\ otg_desc \in Handle
  /\ misused \in SUBSET Objects
  /\ autoresume_step_ms \in Unsigned
  /\ autoresume_timer \in SUBSET Unsigned
  /\ \A a, b \in autoresume_timer : a = b
  /\ callback \in {"idle", "config", "speed"}
  /\ speed \in {"unknown", "known"}
  /\ config \in Handle
  /\ bus \in {"active", "suspended", "woken"}
  /\ suspend \in {"idle", "arm"}
  /\ overtaken \in BOOLEAN
  /\ nBinds \in 0 .. MaxBinds

\* The module is loaded: static data is zero.
Init ==
  /\ param \in Params
  /\ gadget_is_otg \in BOOLEAN
  /\ driver = "unbound"
  /\ live = {}
  /\ func_inst_lb = "NULL"
  /\ func_lb = "NULL"
  /\ otg_desc = "NULL"
  /\ misused = {}
  /\ autoresume_step_ms = 0
  /\ autoresume_timer = {}
  /\ callback = "idle"
  /\ speed = "unknown"
  /\ config = "NULL"
  /\ bus = "active"
  /\ suspend = "idle"
  /\ overtaken = FALSE
  /\ nBinds = 0

Fails(fault) == fault \in Faults

\* Seconds in milliseconds, as the code computes them.
Ms(seconds) == (seconds * 1000) % UINT

\* Releases objects in the order given, each of which needs those in "needs".
Release(objects, needs) ==
  /\ live' = live \ objects
  /\ misused' = misused \cup ((objects \cup needs) \ live)

-----------------------------------------------------------------------------
(* zero_bind *)

TimerIdle == autoresume_timer = {} /\ callback = "idle"

\* The strings get their numbers and the timer its callback, which must not be
\* in use.  The core has stopped the controller since the last unbind, so no
\* suspension is still being handled.
BindStrings ==
  /\ driver = "unbound"
  /\ suspend = "idle"
  /\ nBinds < MaxBinds
  /\ nBinds' = nBinds + 1
  /\ \/ /\ driver' = IF TimerIdle THEN "instance" ELSE "undefined"
        /\ overtaken' = (overtaken /\ ~TimerIdle)
     \/ /\ Fails("strings")
        /\ UNCHANGED <<driver, overtaken>>
  /\ UNCHANGED <<param, gadget_is_otg, live, func_inst_lb, func_lb, otg_desc, misused,
                 timerVars, busVars>>

\* "nothing to undo in this case"
BindInstance ==
  /\ driver = "instance"
  /\ \/ /\ func_inst_lb' = "valid"
        /\ live' = live \cup {"instance"}
        /\ driver' = "function"
     \/ /\ Fails("instance")
        /\ func_inst_lb' = "ERR"
        /\ driver' = "unbound"
        /\ UNCHANGED live
  /\ UNCHANGED <<param, gadget_is_otg, func_lb, otg_desc, misused, overtaken, nBinds, timerVars,
                 busVars>>

\* With the function made, the delays begin again from the parameter.
BindFunction ==
  /\ driver = "function"
  /\ \/ /\ func_lb' = "valid"
        /\ live' = live \cup {"function"}
        /\ driver' = "descriptor"
        /\ autoresume_step_ms' = IF param.autoresume # 0 THEN Ms(param.autoresume)
                                 ELSE autoresume_step_ms
     \/ /\ Fails("function")
        /\ func_lb' = "ERR"
        /\ driver' = "err_put_func_inst_lb"
        /\ UNCHANGED <<live, autoresume_step_ms>>
  /\ UNCHANGED <<param, gadget_is_otg, func_inst_lb, otg_desc, misused, overtaken, nBinds,
                 autoresume_timer, callback, busVars>>

\* The descriptor is made on OTG hardware, unless it is there already.
BindDescriptor ==
  /\ driver = "descriptor"
  /\ \/ /\ driver' = "add"
        /\ IF gadget_is_otg /\ otg_desc = "NULL"
           THEN otg_desc' = "valid" /\ live' = live \cup {"descriptor"}
           ELSE UNCHANGED <<otg_desc, live>>
     \/ /\ Fails("descriptor")
        /\ gadget_is_otg
        /\ otg_desc = "NULL"
        /\ driver' = "err_conf_flb"
        /\ UNCHANGED <<otg_desc, live>>
  /\ UNCHANGED <<param, gadget_is_otg, func_inst_lb, func_lb, misused, overtaken, nBinds, timerVars,
                 busVars>>

\* Faulty variant, used to test the properties: a failure goes to the label of
\* the call before.
BindAdd_WrongLabel ==
  /\ driver = "add"
  /\ \/ driver' = "bound"
     \/ Fails("add") /\ driver' = "err_conf_flb"
  /\ UNCHANGED <<param, gadget_is_otg, live, func_inst_lb, func_lb, otg_desc, misused, overtaken,
                 nBinds, timerVars, busVars>>

\* The function is added to the configuration.
BindAdd ==
  /\ driver = "add"
  /\ \/ driver' = "bound"
     \/ Fails("add") /\ driver' = "err_free_otg_desc"
  /\ UNCHANGED <<param, gadget_is_otg, live, func_inst_lb, func_lb, otg_desc, misused, overtaken,
                 nBinds, timerVars, busVars>>

\* kfree takes a NULL descriptor.
Descriptor == IF otg_desc = "valid" THEN {"descriptor"} ELSE {}

ErrFreeOtgDesc ==
  /\ driver = "err_free_otg_desc"
  /\ Release(Descriptor, {})
  /\ otg_desc' = "NULL"
  /\ driver' = "err_conf_flb"
  /\ UNCHANGED <<param, gadget_is_otg, func_inst_lb, func_lb, overtaken, nBinds, timerVars,
                 busVars>>

\* lb_free_func counts the function out in its instance, which must exist.
ErrConfFlb ==
  /\ driver = "err_conf_flb"
  /\ Release({"function"}, {"instance"})
  /\ func_lb' = "NULL"
  /\ driver' = "err_put_func_inst_lb"
  /\ UNCHANGED <<param, gadget_is_otg, func_inst_lb, otg_desc, overtaken, nBinds, timerVars,
                 busVars>>

ErrPutFuncInst ==
  /\ driver = "err_put_func_inst_lb"
  /\ Release({"instance"}, {})
  /\ func_inst_lb' = "NULL"
  /\ driver' = "unbound"
  /\ UNCHANGED <<param, gadget_is_otg, func_lb, otg_desc, overtaken, nBinds, timerVars, busVars>>

-----------------------------------------------------------------------------
(* The bus, as the core and the controller report it, one event at a time *)

Connect ==
  /\ driver = "bound"
  /\ suspend = "idle"
  /\ speed = "unknown"
  /\ speed' = "known"
  /\ UNCHANGED <<param, gadget_is_otg, bindVars, timerVars, config, bus, suspend>>

SetConfig ==
  /\ suspend = "idle"
  /\ speed = "known"
  /\ bus = "active"
  /\ config = "NULL"
  /\ config' = "valid"
  /\ UNCHANGED <<param, gadget_is_otg, bindVars, timerVars, speed, bus, suspend>>

\* The host takes the configuration back, or goes away altogether; the timer
\* is left alone.
Disconnect ==
  /\ driver = "bound"
  /\ suspend = "idle"
  /\ speed = "known"
  /\ speed' \in {"unknown", "known"}
  /\ config' = "NULL"
  /\ bus' = "active"
  /\ UNCHANGED <<param, gadget_is_otg, bindVars, timerVars, suspend>>

\* Faulty variant: the delay grows before it is used.
StepMs_AddsFirst ==
  IF /\ param.max_autoresume # 0
     /\ autoresume_step_ms > Ms(param.max_autoresume)
  THEN Ms(param.autoresume)
  ELSE (autoresume_step_ms + param.autoresume_interval_ms) % UINT

\* The delay of this suspension: back to the first one above the maximum.
StepMs ==
  IF /\ param.max_autoresume # 0
     /\ autoresume_step_ms > Ms(param.max_autoresume)
  THEN Ms(param.autoresume)
  ELSE autoresume_step_ms

\* Faulty variants: a delay above the maximum is given up; a pending timer is
\* not moved but joined by another.
Arm_GivesUp == IF param.autoresume # 0 /\ StepMs = autoresume_step_ms
               THEN /\ autoresume_timer' = {StepMs}
                    /\ autoresume_step_ms' = (StepMs + param.autoresume_interval_ms) % UINT
               ELSE UNCHANGED <<autoresume_timer, autoresume_step_ms>>

Arm_AddTimer == IF param.autoresume # 0
                THEN /\ autoresume_timer' = autoresume_timer \cup {StepMs}
                     /\ autoresume_step_ms' = (StepMs + param.autoresume_interval_ms) % UINT
                ELSE UNCHANGED <<autoresume_timer, autoresume_step_ms>>

Arm == IF param.autoresume # 0
       THEN /\ autoresume_timer' = {StepMs}
            /\ autoresume_step_ms' = (StepMs + param.autoresume_interval_ms) % UINT
       ELSE UNCHANGED <<autoresume_timer, autoresume_step_ms>>

\* gadget->speed # USB_SPEED_UNKNOWN, as zero_suspend tests it
SpeedKnown == speed # "unknown"

\* zero_suspend looks at the speed...
Suspend ==
  /\ HasDevice
  /\ suspend = "idle"
  /\ bus = "active"
  /\ bus' = IF speed = "known" THEN "suspended" ELSE bus
  /\ suspend' = IF SpeedKnown THEN "arm" ELSE "idle"
  /\ UNCHANGED <<param, gadget_is_otg, bindVars, timerVars, speed, config>>

\* ... and then arms the timer, whatever has happened meanwhile: mod_timer moves
\* a pending timer to the new delay and makes one pending that was deleted.
SuspendArm ==
  /\ suspend = "arm"
  /\ suspend' = "idle"
  /\ Arm
  /\ UNCHANGED <<param, gadget_is_otg, bindVars, callback, speed, config, bus>>

\* zero_resume: del_timer does not wait for a callback that runs already.
Resume ==
  /\ suspend = "idle"
  /\ bus # "active"
  /\ bus' = "active"
  /\ autoresume_timer' = {}
  /\ UNCHANGED <<param, gadget_is_otg, bindVars, autoresume_step_ms, callback, speed, config,
                 suspend>>

-----------------------------------------------------------------------------
(* The timer *)

\* It expires, and zero_autoresume begins; it never runs beside itself.
Expire ==
  /\ driver # "undefined"
  /\ autoresume_timer # {}
  /\ callback = "idle"
  /\ autoresume_timer' = {}
  /\ callback' = "config"
  /\ UNCHANGED <<param, gadget_is_otg, bindVars, autoresume_step_ms, busVars>>

\* "unconfigured devices can't issue wakeups": it looks at the configuration of
\* the composite device, if that is still there.
CallbackConfig ==
  /\ callback = "config"
  /\ IF HasDevice
     THEN callback' = (IF config # "NULL" THEN "speed" ELSE "idle") /\ UNCHANGED driver
     ELSE driver' = "undefined" /\ UNCHANGED callback
  /\ UNCHANGED <<param, gadget_is_otg, live, func_inst_lb, func_lb, otg_desc, misused, overtaken,
                 nBinds, autoresume_step_ms, autoresume_timer, busVars>>

\* usb_gadget_wakeup fails unless the bus is suspended.
CallbackWakeup ==
  /\ callback = "speed"
  /\ callback' = "idle"
  /\ bus' = IF SpeedKnown /\ bus = "suspended" THEN "woken" ELSE bus
  /\ UNCHANGED <<param, gadget_is_otg, bindVars, autoresume_step_ms, autoresume_timer,
                 speed, config, suspend>>

-----------------------------------------------------------------------------
(* zero_unbind *)

\* The core has disconnected the bus and dropped the configuration; a suspension
\* reported before may still be in zero_suspend.
Unbind ==
  /\ driver = "bound"
  /\ driver' = "del_timer"
  /\ speed' = "unknown"
  /\ config' = "NULL"
  /\ bus' = "active"
  /\ UNCHANGED <<param, gadget_is_otg, live, func_inst_lb, func_lb, otg_desc, misused, overtaken,
                 nBinds, timerVars, suspend>>

\* Faulty variant: del_timer, which does not wait.
UnbindTimer_NoSync ==
  /\ driver = "del_timer"
  /\ autoresume_timer' = {}
  /\ driver' = "put_function"
  /\ overtaken' = (suspend = "arm")
  /\ UNCHANGED <<param, gadget_is_otg, live, func_inst_lb, func_lb, otg_desc, misused, nBinds,
                 autoresume_step_ms, callback, busVars>>

\* del_timer_sync waits for the callback.
UnbindTimer ==
  /\ driver = "del_timer"
  /\ callback = "idle"
  /\ autoresume_timer' = {}
  /\ driver' = "put_function"
  /\ overtaken' = (suspend = "arm")
  /\ UNCHANGED <<param, gadget_is_otg, live, func_inst_lb, func_lb, otg_desc, misused, nBinds,
                 autoresume_step_ms, callback, busVars>>

UnbindFunction ==
  /\ driver = "put_function"
  /\ IF func_lb = "valid" THEN Release({"function"}, {"instance"})
     ELSE UNCHANGED <<live, misused>>
  /\ driver' = "put_instance"
  /\ UNCHANGED <<param, gadget_is_otg, func_inst_lb, func_lb, otg_desc, overtaken, nBinds,
                 timerVars, busVars>>

UnbindInstance ==
  /\ driver = "put_instance"
  /\ Release({"instance"} \cup Descriptor, {})
  /\ otg_desc' = "NULL"
  /\ driver' = "unbound"
  /\ UNCHANGED <<param, gadget_is_otg, func_inst_lb, func_lb, overtaken, nBinds, timerVars,
                 busVars>>

-----------------------------------------------------------------------------
Bind   == BindStrings \/ BindInstance \/ BindFunction \/ BindDescriptor \/ BindAdd
Undo   == ErrFreeOtgDesc \/ ErrConfFlb \/ ErrPutFuncInst
Bus    == Connect \/ SetConfig \/ Disconnect \/ Suspend \/ SuspendArm \/ Resume
Callback == CallbackConfig \/ CallbackWakeup

Next ==
  \/ Bind
  \/ Undo
  \/ Bus
  \/ Expire
  \/ Callback
  \/ Unbind
  \/ UnbindTimer
  \/ UnbindFunction
  \/ UnbindInstance

\* A pending timer expires, and its callback and zero_suspend run to their end.
Fairness == WF_vars(Expire) /\ WF_vars(Callback) /\ WF_vars(SuspendArm)

Spec == Init /\ [][Next]_vars /\ Fairness

-----------------------------------------------------------------------------
(* Properties *)

\* The timer is pending, and its callback runs, only while there is a composite
\* device for it to look at; the core frees it after zero_unbind.  Nothing that
\* is reported after del_timer_sync arms the timer again.  What does is a
\* suspension that had found the speed known before zero_unbind began: it alone
\* leaves the timer pending behind it, and leads to what is undefined.
TimerWithinBind ==
  /\ ~TimerIdle => Bound \/ overtaken
  /\ driver = "undefined" => overtaken

\* Whichever call of zero_bind fails, and after zero_unbind, everything made
\* has been released, nothing twice, and no function after its instance.
NothingHeldUnbound == misused = {} /\ (driver = "unbound" => live = {} /\ otg_desc = "NULL")

\* There is a maximum, and no delay on the way to it wraps around.
NoWrap ==
  /\ param.max_autoresume # 0
  /\ param.autoresume * 1000 + param.autoresume_interval_ms < UINT
  /\ param.max_autoresume * 1000 + param.autoresume_interval_ms < UINT

\* "maximum seconds before remote wakeup": however many suspensions there were,
\* and however the driver was bound between them, the delay lies between the two
\* parameters if they are in order.  Without a maximum it grows until it wraps.
DelayWithinParams ==
  NoWrap => \A ms \in autoresume_timer :
    /\ param.autoresume * 1000 <= ms
    /\ param.autoresume <= param.max_autoresume => ms <= param.max_autoresume * 1000

\* A suspended, configured gadget with autoresume wakes the host, unless it is
\* resumed or taken away first; a callback still running from an earlier
\* suspension does not get in the way.
WakesHost ==
  bus = "suspended" /\ config # "NULL" /\ param.autoresume # 0 ~> bus # "suspended"
==============================================================================
