--------------------------- MODULE LoopbackFunction ---------------------------
(***************************************************************************)
(* The loopback function of the Raspberry Pi gadget (rpi/source/simpleufn/ *)
(* f_one.c): its requests, from set_alt to disable.                        *)
(*                                                                         *)
(* Requests come in pairs, an OUT request with a buffer and an IN request  *)
(* that borrows it.  A pair waits on the OUT endpoint for data, moves to   *)
(* the IN endpoint with it, and goes back when the host has read it.  The  *)
(* completion routine moves pairs, and frees them when it cannot; nothing  *)
(* else records them.  Endpoints are enabled and disabled one after the    *)
(* other while the other one may complete requests.                        *)
(*                                                                         *)
(* Pairs and messages are numbered in the order they are made and sent.    *)
(* The function is one of those that LoopbackOptions makes, and its queue  *)
(* length is the one it took from the options.                             *)
(***************************************************************************)
EXTENDS LoopbackOptions, Sequences, SequencesExt

CONSTANTS
  Used,         \* the function that is part of a configuration
  MaxMessages,  \* bound: messages the host ever writes
  MaxEnables,   \* bound: how often the host selects the interface
  Faults        \* which calls may fail, a subset of FaultKinds

\* in_req, out_req: the allocations;  queue: usb_ep_queue;  enable: an
\* endpoint's activation;  status: a request completed with an error
FaultKinds == {"in_req", "out_req", "queue", "enable", "status"}

ASSUME UsedAssumption   == Used \in Functions
ASSUME BoundsAssumption == MaxMessages \in Nat /\ MaxEnables \in Nat
ASSUME FaultsAssumption == Faults \subseteq FaultKinds

\* loop->qlen
qlen == loop[Used]["qlen"]

Messages == 1 .. MaxMessages
Pairs    == Nat \ {0}

VARIABLES
  phase,             \* what the composite core is doing to the function
  again,             \* set_alt: enable after disabling
  in_on, out_on,     \* endpoints enabled
  i,                 \* the loop counter of alloc_requests
  nPairs, nEnables,  \* pairs made; interfaces selected
  outQueue,          \* pairs queued on out_ep
  inQueue,           \* [pair, msg] queued on in_ep
  alive,             \* allocated requests and buffers, as <<pair, part>>
  nSent,             \* messages written by the host
  received,          \* messages read by the host
  lost,              \* messages freed with their pair
  overfreed          \* something was freed that was not allocated

epVars   == <<phase, again, in_on, out_on, i, nPairs, nEnables>>
dataVars == <<nSent, received, lost>>
reqVars == <<outQueue, inQueue, alive, dataVars, overfreed>>
vars == <<optVars, epVars, reqVars>>

Parts == {"in_req", "out_req", "buf"}

TypeOK ==
  /\ OptionsTypeOK
  /\ phase \in {"off", "on", "disable_in", "disable_out", "enable_in", "enable_out",
                "alloc", "fail_out", "fail_in"}
  /\ again \in BOOLEAN
  /\ in_on \in BOOLEAN
  /\ out_on \in BOOLEAN
  /\ i \in Nat
  /\ phase = "alloc" => i <= qlen
  /\ nPairs \in Nat
  /\ nEnables \in 0 .. MaxEnables
  /\ outQueue \in Seq(Pairs)
  /\ inQueue \in Seq([pair : Pairs, msg : Messages])
  /\ alive \in SUBSET (Pairs \X Parts)
  /\ nSent \in 0 .. MaxMessages
  /\ received \in Seq(Messages)
  /\ lost \in SUBSET Messages
  /\ overfreed \in BOOLEAN

\* loopback_bind has found both endpoints.
Init ==
  /\ OptionsInit
  /\ phase = "off"
  /\ again = FALSE
  /\ in_on = FALSE
  /\ out_on = FALSE
  /\ i = 0
  /\ nPairs = 0
  /\ nEnables = 0
  /\ outQueue = << >>
  /\ inQueue = << >>
  /\ alive = {}
  /\ nSent = 0
  /\ received = << >>
  /\ lost = {}
  /\ overfreed = FALSE

InPairs == {inQueue[k].pair : k \in DOMAIN inQueue}
InMsgs  == {inQueue[k].msg : k \in DOMAIN inQueue}

\* Frees "things", which had better be there.
Free(things) ==
  /\ alive' = alive \ things
  /\ overfreed' = (overfreed \/ ~(things \subseteq alive))

\* free_req: the other request of the pair, then this one with the buffer.
FreePairs(ps) == Free(ps \X Parts)

-----------------------------------------------------------------------------
(* loopback_complete *)

\* Whether usb_ep_queue takes a request: never on a disabled endpoint.
QueueOutcomes(on) ==
  (IF on THEN {TRUE} ELSE {}) \cup (IF ~on \/ "queue" \in Faults THEN {FALSE} ELSE {})

\* Faulty variant, used to test the properties: the pair is queued in front of
\* the others.
ToIn_Front(entry) == <<entry>> \o inQueue

ToIn(entry) == Append(inQueue, entry)

\* The host writes a message: "queue it so host can read" it, or free the pair.
OutComplete ==
  /\ out_on
  /\ outQueue # << >>
  /\ nSent < MaxMessages
  /\ nSent' = nSent + 1
  /\ outQueue' = Tail(outQueue)
  /\ \E queued \in QueueOutcomes(in_on) :
       IF queued
       THEN /\ inQueue' = ToIn([pair |-> Head(outQueue), msg |-> nSent + 1])
            /\ UNCHANGED <<alive, lost, overfreed>>
       ELSE /\ FreePairs({Head(outQueue)})
            /\ lost' = lost \cup {nSent + 1}
            /\ UNCHANGED inQueue
  /\ UNCHANGED <<optVars, epVars, received>>

\* The host has read a message: "wait for some more data", or free the pair.
InComplete ==
  /\ in_on
  /\ inQueue # << >>
  /\ received' = Append(received, Head(inQueue).msg)
  /\ inQueue' = Tail(inQueue)
  /\ \E queued \in QueueOutcomes(out_on) :
       IF queued
       THEN /\ outQueue' = Append(outQueue, Head(inQueue).pair)
            /\ UNCHANGED <<alive, overfreed>>
       ELSE /\ FreePairs({Head(inQueue).pair})
            /\ UNCHANGED outQueue
  /\ UNCHANGED <<optVars, epVars, nSent, lost>>

\* A request on either endpoint is completed with another status.
OutFails ==
  /\ "status" \in Faults
  /\ out_on
  /\ outQueue # << >>
  /\ outQueue' = Tail(outQueue)
  /\ FreePairs({Head(outQueue)})
  /\ UNCHANGED <<optVars, epVars, inQueue, dataVars>>

InFails ==
  /\ "status" \in Faults
  /\ in_on
  /\ inQueue # << >>
  /\ inQueue' = Tail(inQueue)
  /\ FreePairs({Head(inQueue).pair})
  /\ lost' = lost \cup {Head(inQueue).msg}
  /\ UNCHANGED <<optVars, epVars, outQueue, nSent, received>>

-----------------------------------------------------------------------------
(* Endpoints *)

\* Faulty variant: the requests are dropped without being completed.
DisableIn_Drops ==
  /\ in_on' = FALSE
  /\ inQueue' = << >>
  /\ lost' = lost \cup InMsgs
  /\ UNCHANGED <<optVars, alive, overfreed>>

\* usb_ep_disable: everything queued on the endpoint is completed with
\* -ESHUTDOWN, and so freed.
DisableIn ==
  /\ in_on' = FALSE
  /\ inQueue' = << >>
  /\ lost' = lost \cup InMsgs
  /\ FreePairs(InPairs)

DisableOut ==
  /\ out_on' = FALSE
  /\ outQueue' = << >>
  /\ FreePairs(Range(outQueue))

\* Faulty variant: a change of setting enables without disabling first.
SetAlt_NoDisable ==
  /\ phase \in {"off", "on"}
  /\ funcPc[Used] = "live"
  /\ nEnables < MaxEnables
  /\ nEnables' = nEnables + 1
  /\ again' = TRUE
  /\ phase' = "enable_in"
  /\ UNCHANGED <<optVars, in_on, out_on, i, nPairs, outQueue, inQueue, alive, dataVars, overfreed>>

\* loopback_set_alt and loopback_disable both begin with disable_loopback.
SetAlt ==
  /\ phase \in {"off", "on"}
  /\ funcPc[Used] = "live"
  /\ nEnables < MaxEnables
  /\ nEnables' = nEnables + 1
  /\ again' = TRUE
  /\ phase' = "disable_in"
  /\ UNCHANGED <<optVars, in_on, out_on, i, nPairs, outQueue, inQueue, alive, dataVars, overfreed>>

Disable ==
  /\ phase = "on"
  /\ again' = FALSE
  /\ phase' = "disable_in"
  /\ UNCHANGED <<optVars, in_on, out_on, i, nPairs, nEnables, outQueue, inQueue, alive,
                 dataVars, overfreed>>

\* lbfn_disable_endpoints
LbfnDisableIn ==
  /\ phase = "disable_in"
  /\ DisableIn
  /\ phase' = "disable_out"
  /\ UNCHANGED <<optVars, again, out_on, i, nPairs, nEnables, outQueue, nSent, received>>

LbfnDisableOut ==
  /\ phase = "disable_out"
  /\ DisableOut
  /\ phase' = IF again THEN "enable_in" ELSE "off"
  /\ UNCHANGED <<optVars, again, in_on, i, nPairs, nEnables, inQueue, dataVars>>

\* enable_loopback: in_ep ...
EnableIn ==
  /\ phase = "enable_in"
  /\ \/ /\ in_on' = TRUE
        /\ phase' = "enable_out"
     \/ /\ "enable" \in Faults
        /\ phase' = "off"
        /\ UNCHANGED in_on
  /\ UNCHANGED <<optVars, again, out_on, i, nPairs, nEnables, outQueue, inQueue, alive,
                 dataVars, overfreed>>

\* ... then out_ep ...
EnableOut ==
  /\ phase = "enable_out"
  /\ \/ /\ out_on' = TRUE
        /\ i' = 0
        /\ phase' = "alloc"
     \/ /\ "enable" \in Faults
        /\ phase' = "fail_in"
        /\ UNCHANGED <<out_on, i>>
  /\ UNCHANGED <<optVars, again, in_on, nPairs, nEnables, outQueue, inQueue, alive,
                 dataVars, overfreed>>

\* Faulty variant: the loop runs once too often.
AllocDone_OffByOne == i > qlen

AllocDone == i >= qlen

\* ... then alloc_requests, one turn of its loop: a pair is made and queued.
AllocPair ==
  /\ phase = "alloc"
  /\ ~AllocDone
  /\ i' = i + 1
  /\ nPairs' = nPairs + 1
  /\ alive' = alive \cup ({nPairs + 1} \X Parts)
  /\ outQueue' = Append(outQueue, nPairs + 1)
  /\ UNCHANGED <<optVars, phase, again, in_on, out_on, nEnables, inQueue, dataVars, overfreed>>

\* fail_out, fail_in, fail: the turn undoes what it made, and enable_loopback
\* takes the endpoints down again.
AllocFails ==
  /\ phase = "alloc"
  /\ ~AllocDone
  /\ {"in_req", "out_req", "queue"} \cap Faults # {}
  /\ phase' = "fail_out"
  /\ UNCHANGED <<optVars, again, in_on, out_on, i, nPairs, nEnables, outQueue, inQueue,
                 alive, dataVars, overfreed>>

AllocReturns ==
  /\ phase = "alloc"
  /\ AllocDone
  /\ phase' = "on"
  /\ UNCHANGED <<optVars, again, in_on, out_on, i, nPairs, nEnables, outQueue, inQueue,
                 alive, dataVars, overfreed>>

\* disable_out:
FailOut ==
  /\ phase = "fail_out"
  /\ DisableOut
  /\ phase' = "fail_in"
  /\ UNCHANGED <<optVars, again, in_on, i, nPairs, nEnables, inQueue, dataVars>>

\* disable_in:
FailIn ==
  /\ phase = "fail_in"
  /\ DisableIn
  /\ phase' = "off"
  /\ UNCHANGED <<optVars, again, out_on, i, nPairs, nEnables, outQueue, nSent, received>>

-----------------------------------------------------------------------------
SetupStep == \/ LbfnDisableIn \/ LbfnDisableOut \/ EnableIn \/ EnableOut
             \/ AllocPair \/ AllocFails \/ AllocReturns \/ FailOut \/ FailIn

\* Attributes are written, and functions made and freed, beside all this.  The
\* function in use is not freed before the core has disabled it.
OptionsStep ==
  /\ OptionsNext
  /\ phase # "off" => funcPc'[Used] = "live"
  /\ UNCHANGED <<epVars, reqVars>>

Next ==
  \/ OptionsStep
  \/ SetAlt
  \/ Disable
  \/ SetupStep
  \/ OutComplete
  \/ InComplete
  \/ OutFails
  \/ InFails

Spec == Init /\ [][Next]_vars

-----------------------------------------------------------------------------
(* Properties *)

\* Every request and buffer that exists belongs to a pair on one of the two
\* queues, every such pair is complete, and nothing is freed twice: "we rely
\* on the hardware driver to clean up", and that is enough, at every point of
\* set_alt and disable.
PairsAccounted ==
  /\ alive = (Range(outQueue) \cup InPairs) \X Parts
  /\ Range(outQueue) \cap InPairs = {}
  /\ IsInjective(outQueue)
  /\ \A j, k \in DOMAIN inQueue : j # k => inQueue[j].pair # inQueue[k].pair
  /\ ~overfreed

\* "we buffer at most 'qlen' transfers": the qlen that the attribute shows at
\* that moment, also across a change of setting that meets pairs still in
\* circulation and attributes written while the function is made.
AtMostQlen == Len(outQueue) + Len(inQueue) <= Qlen(opts["qlen"])

\* The host reads back what it wrote, in the order it wrote it; a message is
\* missing only if its pair was freed.
LoopsInOrder ==
  LET back == received \o [k \in DOMAIN inQueue |-> inQueue[k].msg]
  IN  /\ \A j, k \in DOMAIN back : j < k => back[j] < back[k]
      /\ Range(back) \cup lost = 1 .. nSent
      /\ Range(back) \cap lost = {}
===============================================================================
