------------------------ MODULE DeviceInterruptProofs ------------------------
(***************************************************************************)
(* Proofs about the interrupt endpoint, for any number of interrupts and   *)
(* URBs, any limit of the cache and any failing calls.                     *)
(***************************************************************************)
EXTENDS DeviceInterrupt, FiniteSetTheorems, QueueLemmas

-----------------------------------------------------------------------------
(* Types *)

LEMMA InitTypeOK == Init => TypeOK
<1>1. << >> \in Seq(Urbs) /\ << >> \in Seq(Raises)
  BY EmptySeq
<1>2. Init => ust \in [Urbs -> UrbStatus]
  BY DEF Init, UrbStatus
<1>3. 0 \in 0 .. MaxRaises /\ 0 \in 0 .. INTR_STATE_MAX_CACHED_UPDATES
  BY RaisesAssumption, CacheAssumption
<1>4. Init => IntrDeferredQueue \in Seq(Urbs) /\ delivered \in Seq(Raises)
  BY <1>1 DEF Init
<1>5. QED
  BY <1>2, <1>3, <1>4 DEF Init, TypeOK

LEMMA CountedInRange ==
  ASSUME NEW n \in 0 .. INTR_STATE_MAX_CACHED_UPDATES
  PROVE  Counted(n) \in 1 .. INTR_STATE_MAX_CACHED_UPDATES
BY CacheAssumption DEF Counted

LEMMA CompletionTypes ==
  ASSUME TypeOK, NEW u \in Urbs, NEW v \in Raises, IoCompletePendingRequest(u, v)
  PROVE  /\ ust' \in [Urbs -> UrbStatus]
         /\ delivered' \in Seq(Raises)
         /\ dropped' \in SUBSET Raises
<1>1. ust' \in [Urbs -> UrbStatus]
  BY DEF TypeOK, IoCompletePendingRequest, UrbStatus
<1>2. Append(delivered, v) \in Seq(Raises)
  BY AppendProperties DEF TypeOK
<1>3. QED
  BY <1>1, <1>2 DEF TypeOK, IoCompletePendingRequest

\* What UrbForward does with its URB.
UrbForwards(u) ==
  \/ /\ accepting
     /\ IntrDeferredQueue' = Append(IntrDeferredQueue, u)
     /\ ust' = [ust EXCEPT ![u] = ParkedAs]
  \/ /\ ~accepting \/ "forward" \in Faults
     /\ ust' = [ust EXCEPT ![u] = "host"]
     /\ UNCHANGED IntrDeferredQueue

LEMMA TypeRaise == TypeOK /\ (BackChannelIoctl \/ RaiseStep) => TypeOK'
<1>1. SUFFICES ASSUME TypeOK, BackChannelIoctl \/ RaiseStep PROVE TypeOK'
  OBVIOUS
<1>2. CASE BackChannelIoctl
  BY <1>1, <1>2, RaisesAssumption DEF TypeOK, BackChannelIoctl, linkVars, urbVars
<1>3. CASE RaiseRetrieve
  <2>1. IntrDeferredQueue # << >> =>
          Head(IntrDeferredQueue) \in Urbs /\ Tail(IntrDeferredQueue) \in Seq(Urbs)
    BY <1>1, HeadTailProperties DEF TypeOK
  <2>2. IntrDeferredQueue' \in Seq(Urbs) /\ taken' \in SUBSET Urbs
    BY <1>1, <1>3, <2>1 DEF TypeOK, RaiseRetrieve
  <2>3. ust' \in [Urbs -> UrbStatus] /\ raisePc' \in {"save", "complete"}
    BY <1>1, <1>3, <2>1 DEF TypeOK, RaiseRetrieve, UrbStatus
  <2>4. QED
    BY <1>1, <1>3, <2>2, <2>3 DEF TypeOK, RaiseRetrieve, linkVars, urbVars
<1>4. CASE RaiseSave
  <2>1. /\ numUnreadUpdates' \in 1 .. INTR_STATE_MAX_CACHED_UPDATES
        /\ latestStatus' = nRaise
    BY <1>1, <1>4, CountedInRange DEF TypeOK, RaiseSave
  <2>2. nRaise \in Raises
    BY <1>1, <1>4, RaisesAssumption DEF TypeOK, RaiseSave, Raises
  <2>3. latestStatus' \in Raises /\ latestStatus' # 0 /\ numUnreadUpdates' # 0
    BY <2>1, <2>2, RaisesAssumption DEF Raises
  <2>4. QED
    BY <1>1, <1>4, <2>1, <2>3, CacheAssumption DEF TypeOK, RaiseSave, linkVars, urbVars
<1>5. CASE RaiseWake
  BY <1>1, <1>5 DEF TypeOK, RaiseWake, SignalWake, urbVars
<1>6. CASE RaiseComplete
  <2>1. nRaise \in Raises
    BY <1>1, <1>6, RaisesAssumption DEF TypeOK, RaiseComplete, Raises
  <2>2. PICK u \in taken : IoCompletePendingRequest(u, nRaise)
    BY <1>6 DEF RaiseComplete
  <2>3. u \in Urbs
    BY <1>1 DEF TypeOK
  <2>4. /\ ust' \in [Urbs -> UrbStatus]
        /\ delivered' \in Seq(Raises)
        /\ dropped' \in SUBSET Raises
    BY <1>1, <2>1, <2>2, <2>3, CompletionTypes
  <2>5. QED
    BY <1>1, <1>6, <2>4 DEF TypeOK, RaiseComplete, linkVars, urbVars
<1>7. QED
  BY <1>1, <1>2, <1>3, <1>4, <1>5, <1>6 DEF RaiseStep

LEMMA TypeUrb == TypeOK /\ ((\E u \in Urbs : UrbArrives(u)) \/ UrbStep) => TypeOK'
<1>1. SUFFICES ASSUME TypeOK, (\E u \in Urbs : UrbArrives(u)) \/ UrbStep PROVE TypeOK'
  OBVIOUS
<1>2. ASSUME NEW u \in Urbs, UrbArrives(u) PROVE TypeOK'
  <2>1. ust' \in [Urbs -> UrbStatus]
    BY <1>1, <1>2 DEF TypeOK, UrbArrives, UrbStatus
  <2>2. QED
    BY <1>1, <1>2, <2>1 DEF TypeOK, UrbArrives, linkVars, raiseVars
<1>3. CASE UrbGate
  BY <1>1, <1>3, CacheAssumption DEF TypeOK, UrbGate, linkVars, raiseVars
<1>4. CASE UrbComplete
  <2>1. PICK u \in urb : IoCompletePendingRequest(u, found)
    BY <1>4 DEF UrbComplete
  <2>2. found \in Raises
    BY <1>1, <1>4 DEF TypeOK, UrbComplete
  <2>3. u \in Urbs
    BY <1>1 DEF TypeOK
  <2>4. /\ ust' \in [Urbs -> UrbStatus]
        /\ delivered' \in Seq(Raises)
        /\ dropped' \in SUBSET Raises
    BY <1>1, <2>1, <2>2, <2>3, CompletionTypes
  <2>5. QED
    BY <1>1, <1>4, <2>4 DEF TypeOK, UrbComplete, linkVars, raiseVars
<1>5. CASE UrbForward
  <2>1. PICK u \in urb : UrbForwards(u)
    BY <1>5 DEF UrbForward, UrbForwards
  <2>2. IntrDeferredQueue' \in Seq(Urbs)
    <3>1. u \in Urbs /\ IntrDeferredQueue \in Seq(Urbs)
      BY <1>1 DEF TypeOK
    <3>2. Append(IntrDeferredQueue, u) \in Seq(Urbs)
      BY <3>1, AppendProperties
    <3>3. QED
      BY <2>1, <3>1, <3>2 DEF UrbForwards
  <2>3. ust' \in [Urbs -> UrbStatus]
    BY <1>1, <2>1 DEF TypeOK, UrbForwards, UrbStatus, ParkedAs
  <2>4. QED
    BY <1>1, <1>5, <2>2, <2>3 DEF TypeOK, UrbForward, linkVars, raiseVars
<1>6. QED
  BY <1>1, <1>2, <1>3, <1>4, <1>5 DEF UrbStep

LEMMA TypeLink ==
  TypeOK /\ (LinkPowerStep \/ \E i \in DOMAIN IntrDeferredQueue : CancelUrb(i)) => TypeOK'
<1>1. SUFFICES ASSUME TypeOK,
                      LinkPowerStep \/ \E i \in DOMAIN IntrDeferredQueue : CancelUrb(i)
               PROVE  TypeOK'
  OBVIOUS
<1>2. CASE LinkPowerExit \/ Io_DeviceWokeUp \/ LinkPowerEntry
  <2>1. CASE LinkPowerExit
    BY <1>1, <2>1 DEF TypeOK, LinkPowerExit, raiseVars, urbVars
  <2>2. CASE Io_DeviceWokeUp
    BY <1>1, <2>2 DEF TypeOK, Io_DeviceWokeUp, raiseVars, urbVars
  <2>3. CASE LinkPowerEntry
    BY <1>1, <2>3 DEF TypeOK, LinkPowerEntry, raiseVars, urbVars
  <2>4. QED
    BY <1>2, <2>1, <2>2, <2>3
<1>3. CASE Io_DeviceSlept
  <2>1. ust' \in [Urbs -> UrbStatus]
    BY <1>1, <1>3 DEF TypeOK, Io_DeviceSlept, PurgedAs, UrbStatus
  <2>2. QED
    BY <1>1, <1>3, <2>1 DEF TypeOK, Io_DeviceSlept, raiseVars, urbVars
<1>4. ASSUME NEW i \in DOMAIN IntrDeferredQueue, CancelUrb(i) PROVE TypeOK'
  <2>1. IntrDeferredQueue' \in Seq(Urbs)
    BY <1>1, <1>4, RemoveAtProperties DEF TypeOK, CancelUrb
  <2>2. ust' \in [Urbs -> UrbStatus]
    BY <1>1, <1>4 DEF TypeOK, CancelUrb, UrbStatus
  <2>3. QED
    BY <1>1, <1>4, <2>1, <2>2 DEF TypeOK, CancelUrb, linkVars, raiseVars, urbVars
<1>5. QED
  BY <1>1, <1>2, <1>3, <1>4 DEF LinkPowerStep

LEMMA TypeStep == TypeOK /\ [Next]_vars => TypeOK'
<1>1. TypeOK /\ UNCHANGED vars => TypeOK'
  BY DEF TypeOK, vars, raiseVars, urbVars, linkVars
<1>2. QED
  BY <1>1, TypeRaise, TypeUrb, TypeLink DEF Next

\* The endpoint keeps its types; the count of unread updates never wraps, and
\* it is zero exactly when there is nothing cached.
THEOREM TypeCorrect == Spec => []TypeOK
BY InitTypeOK, TypeStep, PTL DEF Spec

-----------------------------------------------------------------------------
(* Who owns a URB *)

\* A handler holds one URB, between its first step and its last.
HandsInv ==
  /\ \A a, b \in urb : a = b
  /\ \A a, b \in taken : a = b
  /\ urbPc = "idle" => urb = {}
  /\ raisePc # "complete" => taken = {}

Owned == UrbsOwnedOnce /\ HandsInv

LEMMA InitOwned == Init => Owned
BY DEF Init, Owned, UrbsOwnedOnce, HandsInv, IsInjective, Range

\* Nothing changes hands.
LEMMA SameHands ==
  Owned /\ UNCHANGED <<IntrDeferredQueue, ust, urb, urbPc, taken, raisePc>> => Owned'
BY DEF Owned, UrbsOwnedOnce, HandsInv

LEMMA OwnedRaise == TypeOK /\ Owned /\ (BackChannelIoctl \/ RaiseStep) => Owned'
<1>1. SUFFICES ASSUME TypeOK, Owned, BackChannelIoctl \/ RaiseStep PROVE Owned'
  OBVIOUS
<1>2. CASE BackChannelIoctl
  BY <1>1, <1>2 DEF Owned, UrbsOwnedOnce, HandsInv, BackChannelIoctl, urbVars
<1>3. CASE RaiseRetrieve
  <2>1. CASE IntrDeferredQueue = << >>
    BY <1>1, <1>3, <2>1 DEF Owned, UrbsOwnedOnce, HandsInv, RaiseRetrieve, urbVars
  <2>2. CASE IntrDeferredQueue # << >>
    <3>1. /\ Head(IntrDeferredQueue) \in Range(IntrDeferredQueue)
          /\ Range(Tail(IntrDeferredQueue)) =
               Range(IntrDeferredQueue) \ {Head(IntrDeferredQueue)}
          /\ IsInjective(Tail(IntrDeferredQueue))
      BY <1>1, <2>2, TailRange DEF TypeOK, Owned, UrbsOwnedOnce
    <3>2. Head(IntrDeferredQueue) \in Urbs
      BY <1>1, <2>2, HeadTailProperties DEF TypeOK
    <3>3. /\ IntrDeferredQueue' = Tail(IntrDeferredQueue)
          /\ taken' = {Head(IntrDeferredQueue)}
          /\ ust' = [ust EXCEPT ![Head(IntrDeferredQueue)] = "taken"]
          /\ raisePc = "retrieve" /\ raisePc' = "complete"
          /\ UNCHANGED <<urb, urbPc>>
      BY <1>3, <2>2 DEF RaiseRetrieve, urbVars
    <3>4. QED
      BY <1>1, <3>1, <3>2, <3>3 DEF TypeOK, Owned, UrbsOwnedOnce, HandsInv
  <2>3. QED
    BY <2>1, <2>2
<1>4. CASE RaiseSave \/ RaiseWake
  BY <1>1, <1>4 DEF Owned, UrbsOwnedOnce, HandsInv, RaiseSave, RaiseWake, urbVars
<1>5. CASE RaiseComplete
  <2>1. PICK u \in taken : ust' = [ust EXCEPT ![u] = "host"]
    BY <1>5 DEF RaiseComplete, IoCompletePendingRequest
  <2>2. u \in Urbs /\ ust[u] = "taken" /\ taken = {u}
    BY <1>1 DEF TypeOK, Owned, UrbsOwnedOnce, HandsInv
  <2>3. QED
    BY <1>1, <1>5, <2>1, <2>2 DEF TypeOK, Owned, UrbsOwnedOnce, HandsInv, RaiseComplete, urbVars
<1>6. QED
  BY <1>1, <1>2, <1>3, <1>4, <1>5 DEF RaiseStep

LEMMA OwnedUrb == TypeOK /\ Owned /\ ((\E u \in Urbs : UrbArrives(u)) \/ UrbStep) => Owned'
<1>1. SUFFICES ASSUME TypeOK, Owned, (\E u \in Urbs : UrbArrives(u)) \/ UrbStep PROVE Owned'
  OBVIOUS
<1>2. ASSUME NEW u \in Urbs, UrbArrives(u) PROVE Owned'
  BY <1>1, <1>2 DEF TypeOK, Owned, UrbsOwnedOnce, HandsInv, UrbArrives, raiseVars
<1>3. CASE UrbGate
  BY <1>1, <1>3 DEF Owned, UrbsOwnedOnce, HandsInv, UrbGate, raiseVars
<1>4. CASE UrbComplete
  <2>1. PICK u \in urb : ust' = [ust EXCEPT ![u] = "host"]
    BY <1>4 DEF UrbComplete, IoCompletePendingRequest
  <2>2. u \in Urbs /\ ust[u] \in {"handling", "leaked"} /\ urb = {u}
    BY <1>1 DEF TypeOK, Owned, UrbsOwnedOnce, HandsInv
  <2>3. QED
    BY <1>1, <1>4, <2>1, <2>2 DEF TypeOK, Owned, UrbsOwnedOnce, HandsInv, UrbComplete, raiseVars
<1>5. CASE UrbForward
  <2>1. PICK u \in urb : UrbForwards(u)
    BY <1>5 DEF UrbForward, UrbForwards
  <2>2. u \in Urbs /\ ust[u] \in {"handling", "leaked"} /\ urb = {u}
    BY <1>1 DEF TypeOK, Owned, UrbsOwnedOnce, HandsInv
  <2>3. /\ Range(Append(IntrDeferredQueue, u)) = Range(IntrDeferredQueue) \cup {u}
        /\ IsInjective(Append(IntrDeferredQueue, u))
    <3>1. u \notin Range(IntrDeferredQueue) /\ IsInjective(IntrDeferredQueue)
      BY <1>1, <2>2 DEF Owned, UrbsOwnedOnce
    <3>2. QED
      BY <1>1, <2>2, <3>1, AppendRange DEF TypeOK
  <2>4. urb' = {} /\ urbPc' = "idle" /\ UNCHANGED <<taken, raisePc>>
    BY <1>5 DEF UrbForward, raiseVars
  <2>5. CASE /\ IntrDeferredQueue' = Append(IntrDeferredQueue, u)
             /\ ust' = [ust EXCEPT ![u] = "parked"]
    BY <1>1, <2>2, <2>3, <2>4, <2>5 DEF TypeOK, Owned, UrbsOwnedOnce, HandsInv
  <2>6. CASE UNCHANGED IntrDeferredQueue /\ ust' = [ust EXCEPT ![u] = "host"]
    BY <1>1, <2>2, <2>4, <2>6 DEF TypeOK, Owned, UrbsOwnedOnce, HandsInv
  <2>7. QED
    BY <2>1, <2>5, <2>6 DEF UrbForwards, ParkedAs
<1>6. QED
  BY <1>1, <1>2, <1>3, <1>4, <1>5 DEF UrbStep

LEMMA OwnedLink ==
  TypeOK /\ Owned
    /\ (LinkPowerStep \/ \E i \in DOMAIN IntrDeferredQueue : CancelUrb(i))
    => Owned'
<1>1. SUFFICES ASSUME TypeOK, Owned,
                      LinkPowerStep \/ \E i \in DOMAIN IntrDeferredQueue : CancelUrb(i)
               PROVE  Owned'
  OBVIOUS
<1>2. CASE LinkPowerExit \/ Io_DeviceWokeUp \/ LinkPowerEntry
  <2>1. UNCHANGED <<IntrDeferredQueue, ust, urb, urbPc, taken, raisePc>>
    BY <1>2 DEF LinkPowerExit, Io_DeviceWokeUp, LinkPowerEntry, raiseVars, urbVars
  <2>2. QED
    BY <1>1, <2>1, SameHands
<1>3. CASE Io_DeviceSlept
  <2>1. /\ ust' = [u \in Urbs |-> IF ust[u] = "parked" THEN "purged" ELSE ust[u]]
        /\ UNCHANGED <<IntrDeferredQueue, urb, urbPc, taken, raisePc>>
    BY <1>3 DEF Io_DeviceSlept, PurgedAs, raiseVars, urbVars
  <2>2. QED
    BY <1>1, <2>1 DEF TypeOK, Owned, UrbsOwnedOnce, HandsInv
<1>4. ASSUME NEW i \in DOMAIN IntrDeferredQueue, CancelUrb(i) PROVE Owned'
  <2>1. /\ Range(RemoveAt(IntrDeferredQueue, i)) =
             Range(IntrDeferredQueue) \ {IntrDeferredQueue[i]}
        /\ IsInjective(RemoveAt(IntrDeferredQueue, i))
    BY <1>1, RemoveAtRange DEF TypeOK, Owned, UrbsOwnedOnce
  <2>2. IntrDeferredQueue[i] \in Urbs /\ IntrDeferredQueue[i] \in Range(IntrDeferredQueue)
    BY <1>1, ElementOfSeq DEF TypeOK, Range
  <2>3. /\ IntrDeferredQueue' = RemoveAt(IntrDeferredQueue, i)
        /\ ust' = [ust EXCEPT ![IntrDeferredQueue[i]] = "host"]
        /\ UNCHANGED <<urb, urbPc, taken, raisePc>>
    BY <1>4 DEF CancelUrb, raiseVars, urbVars
  <2>4. QED
    BY <1>1, <2>1, <2>2, <2>3 DEF TypeOK, Owned, UrbsOwnedOnce, HandsInv
<1>5. QED
  BY <1>1, <1>2, <1>3, <1>4 DEF LinkPowerStep

LEMMA OwnedStep == TypeOK /\ Owned /\ [Next]_vars => Owned'
<1>1. Owned /\ UNCHANGED vars => Owned'
  BY SameHands DEF vars, raiseVars, urbVars
<1>2. QED
  BY <1>1, OwnedRaise, OwnedUrb, OwnedLink DEF Next

\* A URB is parked once or in one hand, however interrupts, cancellations and
\* the purge compete for it.
THEOREM OneOwner == Spec => []UrbsOwnedOnce
<1>1. Owned => UrbsOwnedOnce
  BY DEF Owned
<1>2. QED
  BY <1>1, InitTypeOK, TypeStep, InitOwned, OwnedStep, PTL DEF Spec

-----------------------------------------------------------------------------
(* Nothing stays parked once the device sleeps *)

\* The deferred queue takes URBs only while the device is awake or a link-power
\* callback runs, and outside those every parked URB has met the purge.
Quiet ==
  /\ accepting => IsAwake \/ linkPc # "idle"
  /\ ~IsAwake /\ linkPc = "idle" => \A u \in Urbs : ust[u] # "parked"

\* A step that lets no URB be parked.
LEMMA StaysQuiet ==
  ASSUME Quiet, UNCHANGED <<accepting, IsAwake, linkPc>>,
         \A u \in Urbs : ust'[u] = "parked" => ust[u] = "parked"
  PROVE  Quiet'
BY DEF Quiet

LEMMA QuietStep == TypeOK /\ Quiet /\ [Next]_vars => Quiet'
<1>1. SUFFICES ASSUME TypeOK, Quiet, [Next]_vars PROVE Quiet'
  OBVIOUS
<1>2. CASE UNCHANGED vars
  BY <1>1, <1>2, StaysQuiet DEF vars, linkVars
<1>3. CASE BackChannelIoctl \/ RaiseSave \/ RaiseWake
  BY <1>1, <1>3, StaysQuiet DEF BackChannelIoctl, RaiseSave, RaiseWake, linkVars
<1>4. CASE RaiseRetrieve \/ RaiseComplete
  BY <1>1, <1>4, StaysQuiet DEF TypeOK, RaiseRetrieve, RaiseComplete, IoCompletePendingRequest,
     linkVars
<1>5. CASE (\E u \in Urbs : UrbArrives(u)) \/ UrbGate \/ UrbComplete
  BY <1>1, <1>5, StaysQuiet DEF TypeOK, UrbArrives, UrbGate, UrbComplete,
     IoCompletePendingRequest, linkVars
<1>6. CASE UrbForward
  <2>1. UNCHANGED <<accepting, IsAwake, linkPc>>
    BY <1>6 DEF UrbForward, linkVars
  <2>2. CASE accepting
    BY <1>1, <2>1, <2>2 DEF Quiet
  <2>3. CASE ~accepting
    BY <1>1, <1>6, <2>1, <2>3, StaysQuiet DEF TypeOK, UrbForward
  <2>4. QED
    BY <2>2, <2>3
<1>7. ASSUME NEW i \in DOMAIN IntrDeferredQueue, CancelUrb(i) PROVE Quiet'
  BY <1>1, <1>7, StaysQuiet DEF TypeOK, CancelUrb, linkVars
<1>8. CASE LinkPowerStep
  BY <1>1, <1>8 DEF TypeOK, Quiet, LinkPowerStep, LinkPowerExit, Io_DeviceSlept, PurgedAs,
     Io_DeviceWokeUp, LinkPowerEntry
<1>9. QED
  BY <1>1, <1>2, <1>3, <1>4, <1>5, <1>6, <1>7, <1>8 DEF Next, RaiseStep, UrbStep

\* Once LinkPowerExit has returned, the purge has every URB that was parked, and
\* none is parked after it, though IsAwake changes before the purge and after
\* the restart.
THEOREM NothingSleeps == Spec => []NothingParkedAsleep
<1>1. Init => Quiet
  BY DEF Init, Quiet
<1>2. TypeOK /\ Owned /\ Quiet => NothingParkedAsleep
  <2>1. TypeOK => \A u \in Range(IntrDeferredQueue) : u \in Urbs
    BY ElementOfSeq DEF TypeOK, Range
  <2>2. QED
    BY <2>1 DEF Owned, UrbsOwnedOnce, Quiet, NothingParkedAsleep
<1>3. QED
  BY <1>1, <1>2, InitTypeOK, TypeStep, InitOwned, OwnedStep, QuietStep, PTL DEF Spec

-----------------------------------------------------------------------------
(* The endpoint implements the abstract channel *)

Pending == BeingRaised \cup Cached \cup Found

\* The interrupts in different hands are different, and none is from the future.
Apart ==
  /\ latestStatus <= nRaise
  /\ found <= nRaise
  /\ BeingRaised \cap (Cached \cup Found) = {}
  /\ Cached \cap Found = {}

LEMMA InitApart == Init => Apart /\ Channel!ChannelInit
BY DEF Init, Apart, BeingRaised, Cached, Found, Channel!ChannelInit

\* An action that leaves the interrupts where they are.
LEMMA Invisible ==
  ASSUME TypeOK, Apart, nRaise' = nRaise, latestStatus' = latestStatus, found' = found,
         BeingRaised' = BeingRaised, delivered' = delivered, dropped' = dropped
  PROVE  Apart' /\ UNCHANGED Channel!channelVars
BY DEF Apart, Cached, Found, Channel!channelVars

LEMMA ChannelRaise ==
  TypeOK /\ Apart /\ (BackChannelIoctl \/ RaiseStep)
    => Apart' /\ [Channel!ChannelNext]_(Channel!channelVars)
<1>1. SUFFICES ASSUME TypeOK, Apart, BackChannelIoctl \/ RaiseStep
               PROVE  Apart' /\ [Channel!ChannelNext]_(Channel!channelVars)
  OBVIOUS
<1>2. nRaise \in Nat /\ latestStatus \in Nat /\ found \in Nat
  BY <1>1, RaisesAssumption DEF TypeOK, Raises
<1>3. CASE BackChannelIoctl
  <2>1. CASE UNCHANGED <<nRaise, raisePc>>
    BY <1>1, <1>3, <2>1, Invisible DEF BackChannelIoctl, BeingRaised, urbVars
  <2>2. CASE nRaise' = nRaise + 1 /\ raisePc' = "retrieve"
    <3>1. raisePc = "idle" /\ UNCHANGED <<latestStatus, found, delivered, dropped>>
      BY <1>3 DEF BackChannelIoctl, urbVars
    <3>2. BeingRaised = {} /\ BeingRaised' = {nRaise + 1}
      BY <2>2, <3>1 DEF BeingRaised
    <3>3. Cached' = Cached /\ Found' = Found
      BY <3>1 DEF Cached, Found
    <3>4. Apart'
      BY <1>1, <1>2, <2>2, <3>1, <3>2, <3>3 DEF Apart, Cached, Found
    <3>5. Channel!Raise
      BY <2>2, <3>1, <3>2, <3>3 DEF Channel!Raise
    <3>6. QED
      BY <3>4, <3>5 DEF Channel!ChannelNext
  <2>3. QED
    BY <1>3, <2>1, <2>2 DEF BackChannelIoctl
<1>4. CASE RaiseRetrieve
  BY <1>1, <1>4, Invisible DEF RaiseRetrieve, BeingRaised, urbVars
<1>5. CASE RaiseSave
  <2>1. /\ latestStatus' = nRaise
        /\ UNCHANGED <<nRaise, found, delivered, dropped>>
        /\ nRaise # 0
    BY <1>1, <1>5 DEF TypeOK, RaiseSave, urbVars
  <2>2. /\ BeingRaised = {nRaise} /\ BeingRaised' = {}
        /\ Cached' = {nRaise} /\ Found' = Found
    BY <1>5, <2>1 DEF RaiseSave, BeingRaised, Cached, Found
  <2>3. Apart'
    BY <1>1, <1>2, <2>1, <2>2 DEF Apart
  <2>4. CASE latestStatus = 0
    <3>1. Cached = {}
      BY <2>4 DEF Cached
    <3>2. UNCHANGED Channel!channelVars
      BY <2>1, <2>2, <3>1 DEF Channel!channelVars
    <3>3. QED
      BY <2>3, <3>2
  <2>5. CASE latestStatus # 0
    <3>1. Cached = {latestStatus}
      BY <2>5 DEF Cached
    <3>2. latestStatus < nRaise
      BY <1>1, <1>2, <2>2, <3>1 DEF Apart
    <3>3. Pending' = Pending \ {latestStatus}
      BY <1>1, <1>2, <2>2, <3>1, <3>2 DEF Pending, Apart
    <3>4. Channel!Replace(latestStatus)
      BY <2>1, <2>2, <3>2, <3>3 DEF Channel!Replace, Pending
    <3>5. latestStatus \in Pending
      BY <3>1 DEF Pending
    <3>6. QED
      BY <2>3, <3>4, <3>5 DEF Channel!ChannelNext, Pending
  <2>6. QED
    BY <2>4, <2>5
<1>6. CASE RaiseWake
  BY <1>1, <1>6, Invisible DEF RaiseWake, BeingRaised, urbVars
<1>7. CASE RaiseComplete
  <2>1. /\ raisePc = "complete" /\ raisePc' = "idle"
        /\ UNCHANGED <<nRaise, latestStatus, found>>
    BY <1>7 DEF RaiseComplete, urbVars
  <2>2. /\ BeingRaised = {nRaise} /\ BeingRaised' = {}
        /\ Cached' = Cached /\ Found' = Found
    BY <2>1 DEF BeingRaised, Cached, Found
  <2>3. Apart'
    BY <1>1, <2>1, <2>2 DEF Apart
  <2>4. Pending' = Pending \ {nRaise} /\ nRaise \in Pending
    BY <1>1, <2>2 DEF Pending, Apart
  <2>5. Channel!Deliver(nRaise) \/ Channel!Lose(nRaise)
    BY <1>7, <2>1, <2>4 DEF RaiseComplete, IoCompletePendingRequest, Channel!Deliver,
       Channel!Lose, Pending
  <2>6. QED
    BY <2>3, <2>4, <2>5 DEF Channel!ChannelNext, Pending
<1>8. QED
  BY <1>1, <1>3, <1>4, <1>5, <1>6, <1>7 DEF RaiseStep

LEMMA ChannelUrb ==
  TypeOK /\ Apart /\ ((\E u \in Urbs : UrbArrives(u)) \/ UrbStep)
    => Apart' /\ [Channel!ChannelNext]_(Channel!channelVars)
<1>1. SUFFICES ASSUME TypeOK, Apart, (\E u \in Urbs : UrbArrives(u)) \/ UrbStep
               PROVE  Apart' /\ [Channel!ChannelNext]_(Channel!channelVars)
  OBVIOUS
<1>2. nRaise \in Nat /\ latestStatus \in Nat /\ found \in Nat
  BY <1>1, RaisesAssumption DEF TypeOK, Raises
<1>3. ASSUME NEW u \in Urbs, UrbArrives(u)
      PROVE  Apart' /\ [Channel!ChannelNext]_(Channel!channelVars)
  BY <1>1, <1>3, Invisible DEF UrbArrives, BeingRaised, raiseVars
<1>4. CASE UrbGate
  <2>1. /\ found = 0 /\ found' = latestStatus /\ latestStatus' = 0
        /\ UNCHANGED <<nRaise, raisePc, delivered, dropped>>
    BY <1>1, <1>4 DEF TypeOK, UrbGate, raiseVars
  <2>2. /\ Found = {} /\ Found' = Cached
        /\ Cached' = {} /\ BeingRaised' = BeingRaised
    BY <2>1 DEF Found, Cached, BeingRaised
  <2>3. Apart'
    BY <1>1, <1>2, <2>1, <2>2 DEF Apart
  <2>4. UNCHANGED Channel!channelVars
    BY <2>1, <2>2 DEF Channel!channelVars
  <2>5. QED
    BY <2>3, <2>4
<1>5. CASE UrbComplete
  <2>1. /\ found # 0 /\ found' = 0
        /\ UNCHANGED <<nRaise, raisePc, latestStatus>>
    BY <1>1, <1>5 DEF TypeOK, UrbComplete, raiseVars
  <2>2. /\ Found = {found} /\ Found' = {}
        /\ Cached' = Cached /\ BeingRaised' = BeingRaised
    BY <2>1 DEF Found, Cached, BeingRaised
  <2>3. Apart'
    BY <1>1, <1>2, <2>1, <2>2 DEF Apart
  <2>4. Pending' = Pending \ {found} /\ found \in Pending
    BY <1>1, <2>2 DEF Pending, Apart
  <2>5. Channel!Deliver(found) \/ Channel!Lose(found)
    BY <1>5, <2>1, <2>4 DEF UrbComplete, IoCompletePendingRequest, Channel!Deliver,
       Channel!Lose, Pending
  <2>6. QED
    BY <2>3, <2>4, <2>5 DEF Channel!ChannelNext, Pending
<1>6. CASE UrbForward
  BY <1>1, <1>6, Invisible DEF UrbForward, BeingRaised, raiseVars
<1>7. QED
  BY <1>1, <1>3, <1>4, <1>5, <1>6 DEF UrbStep

LEMMA ChannelStep ==
  TypeOK /\ Apart /\ [Next]_vars => Apart' /\ [Channel!ChannelNext]_(Channel!channelVars)
<1>1. SUFFICES ASSUME TypeOK, Apart, [Next]_vars
               PROVE  Apart' /\ [Channel!ChannelNext]_(Channel!channelVars)
  OBVIOUS
<1>2. CASE UNCHANGED vars
  BY <1>1, <1>2, Invisible DEF vars, BeingRaised, raiseVars, urbVars
<1>3. CASE LinkPowerStep
  BY <1>1, <1>3, Invisible DEF LinkPowerStep, LinkPowerExit, Io_DeviceSlept, Io_DeviceWokeUp,
     LinkPowerEntry, BeingRaised, raiseVars, urbVars
<1>4. ASSUME NEW i \in DOMAIN IntrDeferredQueue, CancelUrb(i)
      PROVE  Apart' /\ [Channel!ChannelNext]_(Channel!channelVars)
  BY <1>1, <1>4, Invisible DEF CancelUrb, BeingRaised, raiseVars, urbVars
<1>5. QED
  BY <1>1, <1>2, <1>3, <1>4, ChannelRaise, ChannelUrb DEF Next

\* Whatever handlers, cancellations and the link do, an interrupt is received
\* once, or replaced by a newer one that is still there, or lost with a URB.
THEOREM ImplementsInterruptChannel == Spec => IsAnInterruptChannel
BY InitTypeOK, TypeStep, InitApart, ChannelStep, PTL
   DEF Spec, IsAnInterruptChannel, Channel!ChannelSpec

-----------------------------------------------------------------------------
(* How many newer interrupts can pass an older one *)

\* The interrupts newer than v that the host has received already ...
Later(v) == {i \in DOMAIN delivered : delivered[i] > v}

\* ... and the URBs that may carry another: those that are parked or were,
MayCarry(u) == ust[u] \in {"parked", "purged", "taken"}

\* and the one whose handler looked at the cache when it was empty.
Ahead == {u \in Urbs : MayCarry(u)}
           \cup (IF urbPc = "forward" THEN urb ELSE {})

Overtaken ==
  /\ \A i \in DOMAIN delivered : delivered[i] <= nRaise
  /\ found # 0 /\ latestStatus # 0 => found < latestStatus
  /\ \A v \in Cached \cup Found :
       Cardinality(Later(v)) + Cardinality(Ahead) <= Cardinality(Urbs)

LEMMA AheadFinite ==
  ASSUME TypeOK
  PROVE  /\ Ahead \subseteq Urbs
         /\ IsFiniteSet(Ahead)
         /\ Cardinality(Ahead) \in Nat
         /\ Cardinality(Urbs) \in Nat
         /\ Cardinality(Ahead) <= Cardinality(Urbs)
<1>1. Ahead \subseteq Urbs
  BY DEF TypeOK, Ahead, MayCarry
<1>2. IsFiniteSet(Ahead) /\ Cardinality(Ahead) <= Cardinality(Urbs)
  BY <1>1, UrbsAssumption, FS_Subset
<1>3. QED
  BY <1>1, <1>2, UrbsAssumption, FS_CardinalityType

LEMMA LaterFinite ==
  ASSUME TypeOK, NEW v
  PROVE  IsFiniteSet(Later(v)) /\ Cardinality(Later(v)) \in Nat
<1>1. Len(delivered) \in Nat /\ DOMAIN delivered = 1 .. Len(delivered)
  BY LenProperties DEF TypeOK
<1>2. IsFiniteSet(1 .. Len(delivered))
  BY <1>1, FS_Interval
<1>3. Later(v) \in SUBSET (1 .. Len(delivered))
  BY <1>1 DEF Later
<1>4. IsFiniteSet(Later(v))
  BY <1>2, <1>3, FS_Subset
<1>5. QED
  BY <1>4, FS_CardinalityType

\* Receiving x passes every older interrupt once more, and no newer one.
LEMMA LaterAppend ==
  ASSUME TypeOK, NEW x \in Raises, NEW v \in Raises, delivered' = Append(delivered, x)
  PROVE  /\ x <= v => Later(v)' = Later(v)
         /\ Cardinality(Later(v)') \in Nat
         /\ Cardinality(Later(v)') <= Cardinality(Later(v)) + 1
<1>1. /\ Len(delivered) \in Nat
      /\ DOMAIN delivered = 1 .. Len(delivered)
      /\ DOMAIN delivered' = 1 .. Len(delivered) + 1
      /\ \A i \in 1 .. Len(delivered) : delivered'[i] = delivered[i]
      /\ delivered'[Len(delivered) + 1] = x
  BY LenProperties, AppendProperties DEF TypeOK
<1>2. x \in Nat /\ v \in Nat
  BY RaisesAssumption DEF Raises
<1>3. CASE x <= v
  <2>1. Later(v)' = Later(v)
    BY <1>1, <1>2, <1>3 DEF Later
  <2>2. QED
    BY <2>1, LaterFinite
<1>4. CASE ~(x <= v)
  <2>1. Later(v)' = Later(v) \cup {Len(delivered) + 1}
    BY <1>1, <1>2, <1>4 DEF Later
  <2>2. IsFiniteSet(Later(v)) /\ Cardinality(Later(v)) \in Nat
    BY LaterFinite
  <2>3. Cardinality(Later(v) \cup {Len(delivered) + 1}) \in
          {Cardinality(Later(v)), Cardinality(Later(v)) + 1}
    BY <2>2, FS_AddElement
  <2>4. QED
    BY <1>4, <2>1, <2>2, <2>3
<1>5. QED
  BY <1>3, <1>4

\* A step that neither delivers nor lets a URB get ahead.
LEMMA NotOvertaking ==
  ASSUME TypeOK, TypeOK', Overtaken,
         delivered' = delivered,
         Ahead' \subseteq Ahead,
         Cached' \cup Found' \subseteq Cached \cup Found
  PROVE  \A v \in Cached' \cup Found' :
           Cardinality(Later(v)') + Cardinality(Ahead') <= Cardinality(Urbs)
<1>1. /\ Cardinality(Ahead) \in Nat /\ Cardinality(Ahead') \in Nat
      /\ Cardinality(Ahead') <= Cardinality(Ahead)
      /\ Cardinality(Urbs) \in Nat
  BY AheadFinite, UrbsAssumption, FS_Subset, FS_CardinalityType
<1>2. \A v : Later(v)' = Later(v) /\ Cardinality(Later(v)) \in Nat
  BY LaterFinite DEF Later
<1>3. QED
  BY <1>1, <1>2 DEF Overtaken

LEMMA OvertakenRaise ==
  TypeOK /\ TypeOK' /\ Owned /\ Apart /\ Overtaken /\ (BackChannelIoctl \/ RaiseStep) => Overtaken'
<1>1. SUFFICES ASSUME TypeOK, TypeOK', Owned, Apart, Overtaken, BackChannelIoctl \/ RaiseStep
               PROVE  Overtaken'
  OBVIOUS
<1>2. /\ nRaise \in Nat /\ latestStatus \in Nat /\ found \in Nat
      /\ \A i \in DOMAIN delivered : delivered[i] \in Nat /\ delivered[i] <= nRaise
  BY <1>1, RaisesAssumption, ElementOfSeq, LenProperties DEF TypeOK, Raises, Overtaken
<1>3. CASE BackChannelIoctl
  <2>1. /\ UNCHANGED <<latestStatus, found, ust, urb, urbPc, delivered>>
        /\ nRaise' \in {nRaise, nRaise + 1}
    BY <1>3 DEF BackChannelIoctl, urbVars
  <2>2. Ahead' = Ahead /\ Cached' = Cached /\ Found' = Found
    BY <2>1 DEF Ahead, MayCarry, Cached, Found
  <2>3. \A i \in DOMAIN delivered' : delivered'[i] <= nRaise'
    BY <1>2, <2>1
  <2>4. QED
    BY <1>1, <2>1, <2>2, <2>3, NotOvertaking DEF Overtaken
<1>4. CASE RaiseRetrieve
  <2>1. UNCHANGED <<latestStatus, found, urb, urbPc, delivered, nRaise>>
    BY <1>4 DEF RaiseRetrieve, urbVars
  <2>2. \A u \in Urbs : MayCarry(u)' => MayCarry(u)
    <3>1. CASE IntrDeferredQueue = << >>
      BY <1>4, <3>1 DEF RaiseRetrieve, MayCarry
    <3>2. CASE IntrDeferredQueue # << >>
      <4>1. Head(IntrDeferredQueue) \in Urbs
            /\ Head(IntrDeferredQueue) \in Range(IntrDeferredQueue)
        BY <1>1, <3>2, HeadTailProperties, TailRange DEF TypeOK, Owned, UrbsOwnedOnce
      <4>2. ust[Head(IntrDeferredQueue)] \in {"parked", "purged"}
        BY <1>1, <4>1 DEF Owned, UrbsOwnedOnce
      <4>3. ust' = [ust EXCEPT ![Head(IntrDeferredQueue)] = "taken"]
        BY <1>4, <3>2 DEF RaiseRetrieve
      <4>4. QED
        BY <1>1, <4>1, <4>2, <4>3 DEF TypeOK, MayCarry
    <3>3. QED
      BY <3>1, <3>2
  <2>3. Ahead' \subseteq Ahead /\ Cached' = Cached /\ Found' = Found
    BY <2>1, <2>2 DEF Ahead, MayCarry, Cached, Found
  <2>4. QED
    BY <1>1, <2>1, <2>3, NotOvertaking DEF Overtaken
<1>5. CASE RaiseSave
  <2>1. /\ latestStatus' = nRaise
        /\ nRaise # 0
        /\ UNCHANGED <<nRaise, found, ust, urb, urbPc, delivered>>
    BY <1>1, <1>5 DEF TypeOK, RaiseSave, urbVars
  <2>2. Ahead' = Ahead /\ Cached' = {nRaise} /\ Found' = Found
    BY <2>1 DEF Ahead, MayCarry, Cached, Found
  <2>3. found # 0 => found < nRaise
    <3>1. BeingRaised = {nRaise}
      BY <1>5 DEF RaiseSave, BeingRaised
    <3>2. found # nRaise \/ found = 0
      BY <1>1, <3>1 DEF Apart, Found
    <3>3. QED
      BY <1>1, <1>2, <3>2 DEF Apart
  <2>4. Later(nRaise)' = {}
    BY <1>2, <2>1 DEF Later
  <2>5. Cardinality(Later(nRaise)') + Cardinality(Ahead') <= Cardinality(Urbs)
    BY <1>1, <2>2, <2>4, AheadFinite, FS_EmptySet
  <2>6. \A v \in Found' : Cardinality(Later(v)') + Cardinality(Ahead') <= Cardinality(Urbs)
    BY <1>1, <2>1, <2>2 DEF Overtaken, Later
  <2>7. QED
    BY <1>1, <2>1, <2>2, <2>3, <2>5, <2>6 DEF Overtaken
<1>6. CASE RaiseWake
  <2>1. UNCHANGED <<latestStatus, found, ust, urb, urbPc, delivered, nRaise>>
    BY <1>6 DEF RaiseWake, urbVars
  <2>2. Ahead' = Ahead /\ Cached' = Cached /\ Found' = Found
    BY <2>1 DEF Ahead, MayCarry, Cached, Found
  <2>3. QED
    BY <1>1, <2>1, <2>2, NotOvertaking DEF Overtaken
<1>7. CASE RaiseComplete
  <2>1. UNCHANGED <<latestStatus, found, urb, urbPc, nRaise>>
    BY <1>7 DEF RaiseComplete, urbVars
  <2>2. Cached' = Cached /\ Found' = Found
    BY <2>1 DEF Cached, Found
  <2>3. nRaise \in Raises
    BY <1>1, <1>7, RaisesAssumption DEF TypeOK, RaiseComplete, Raises
  <2>4. PICK u \in taken : IoCompletePendingRequest(u, nRaise)
    BY <1>7 DEF RaiseComplete
  <2>5. u \in Urbs /\ ust[u] = "taken" /\ u \notin urb
    BY <1>1 DEF TypeOK, Owned, UrbsOwnedOnce
  <2>6. Ahead' = Ahead \ {u} /\ u \in Ahead
    BY <1>1, <2>1, <2>4, <2>5 DEF TypeOK, IoCompletePendingRequest, Ahead, MayCarry
  <2>7. CASE delivered' = delivered
    BY <1>1, <2>1, <2>2, <2>6, <2>7, NotOvertaking DEF Overtaken
  <2>8. CASE delivered' = Append(delivered, nRaise)
    <3>1. Cardinality(Ahead') = Cardinality(Ahead) - 1 /\ Cardinality(Ahead) \in Nat
          /\ Cardinality(Urbs) \in Nat
      BY <1>1, <2>6, AheadFinite, FS_RemoveElement
    <3>2. ASSUME NEW v \in Cached' \cup Found'
          PROVE  Cardinality(Later(v)') + Cardinality(Ahead') <= Cardinality(Urbs)
      <4>1. v \in Raises
        BY <1>1, <2>2 DEF TypeOK, Cached, Found
      <4>2. Cardinality(Later(v)') <= Cardinality(Later(v)) + 1
            /\ Cardinality(Later(v)) \in Nat /\ Cardinality(Later(v)') \in Nat
        BY <1>1, <2>3, <2>8, <4>1, LaterAppend, LaterFinite
      <4>3. QED
        BY <1>1, <2>2, <3>1, <4>2 DEF Overtaken
    <3>3. \A i \in DOMAIN delivered' : delivered'[i] <= nRaise'
      <4>1. /\ DOMAIN delivered' = 1 .. Len(delivered) + 1
            /\ DOMAIN delivered = 1 .. Len(delivered)
            /\ Len(delivered) \in Nat
            /\ \A i \in 1 .. Len(delivered) : delivered'[i] = delivered[i]
            /\ delivered'[Len(delivered) + 1] = nRaise
        BY <1>1, <2>3, <2>8, LenProperties, AppendProperties DEF TypeOK
      <4>2. QED
        BY <1>2, <2>1, <4>1
    <3>4. QED
      BY <1>1, <2>1, <3>2, <3>3 DEF Overtaken
  <2>9. QED
    BY <2>4, <2>7, <2>8 DEF IoCompletePendingRequest
<1>8. QED
  BY <1>1, <1>3, <1>4, <1>5, <1>6, <1>7 DEF RaiseStep

LEMMA OvertakenUrb ==
  TypeOK /\ TypeOK' /\ Owned /\ Apart /\ Overtaken /\ ((\E u \in Urbs : UrbArrives(u)) \/ UrbStep)
    => Overtaken'
<1>1. SUFFICES ASSUME TypeOK, TypeOK', Owned, Apart, Overtaken,
                      (\E u \in Urbs : UrbArrives(u)) \/ UrbStep
               PROVE  Overtaken'
  OBVIOUS
<1>2. nRaise \in Nat /\ latestStatus \in Nat /\ found \in Nat
  BY <1>1, RaisesAssumption DEF TypeOK, Raises
<1>3. ASSUME NEW u \in Urbs, UrbArrives(u)
      PROVE  Overtaken'
  <2>1. /\ UNCHANGED <<latestStatus, found, delivered, nRaise>>
        /\ urbPc' # "forward"
        /\ \A w \in Urbs : MayCarry(w)' => MayCarry(w)
    BY <1>1, <1>3 DEF TypeOK, MayCarry, UrbArrives, raiseVars
  <2>2. Ahead' \subseteq Ahead /\ Cached' = Cached /\ Found' = Found
    BY <2>1 DEF Ahead, MayCarry, Cached, Found
  <2>3. QED
    BY <1>1, <2>1, <2>2, NotOvertaking DEF Overtaken
<1>4. CASE UrbGate
  <2>1. /\ found' = latestStatus /\ latestStatus' = 0
        /\ urbPc' = IF numUnreadUpdates > 0 THEN "complete" ELSE "forward"
        /\ urbPc = "gate"
        /\ UNCHANGED <<delivered, nRaise, urb, ust>>
    BY <1>4 DEF UrbGate, raiseVars
  <2>2. CASE numUnreadUpdates > 0
    <3>1. Ahead' = Ahead /\ Cached' = {} /\ Found' = Cached
      BY <2>1, <2>2 DEF Ahead, MayCarry, Cached, Found
    <3>2. QED
      BY <1>1, <2>1, <3>1, NotOvertaking DEF Overtaken
  <2>3. CASE ~(numUnreadUpdates > 0)
    <3>1. latestStatus = 0
      BY <1>1, <2>3, CacheAssumption DEF TypeOK
    <3>2. Cached' = {} /\ Found' = {}
      BY <2>1, <3>1 DEF Cached, Found
    <3>3. QED
      BY <1>1, <2>1, <3>2 DEF Overtaken
  <2>4. QED
    BY <2>2, <2>3
<1>5. CASE UrbComplete
  <2>1. /\ found \in Raises /\ found # 0 /\ found' = 0
        /\ urbPc = "complete" /\ urbPc' = "idle"
        /\ UNCHANGED <<nRaise, latestStatus>>
    BY <1>1, <1>5, RaisesAssumption DEF TypeOK, UrbComplete, raiseVars, Raises
  <2>2. PICK u \in urb : IoCompletePendingRequest(u, found)
    BY <1>5 DEF UrbComplete
  <2>3. u \in Urbs
    BY <1>1 DEF TypeOK
  <2>4. Ahead' \subseteq Ahead /\ Cached' = Cached /\ Found' = {}
    BY <1>1, <2>1, <2>2, <2>3 DEF TypeOK, IoCompletePendingRequest, Ahead, MayCarry, Cached, Found
  <2>5. CASE delivered' = delivered
    BY <1>1, <2>1, <2>4, <2>5, NotOvertaking DEF Overtaken
  <2>6. CASE delivered' = Append(delivered, found)
    <3>1. ASSUME NEW v \in Cached' \cup Found'
          PROVE  Cardinality(Later(v)') + Cardinality(Ahead') <= Cardinality(Urbs)
      <4>1. v \in Raises /\ v = latestStatus /\ latestStatus # 0
        BY <1>1, <2>4 DEF TypeOK, Cached
      <4>2. found <= v
        BY <1>1, <1>2, <2>1, <4>1 DEF Overtaken
      <4>3. Later(v)' = Later(v) /\ Cardinality(Later(v)) \in Nat
        BY <1>1, <2>1, <2>6, <4>1, <4>2, LaterAppend, LaterFinite
      <4>4. Cardinality(Ahead') <= Cardinality(Ahead) /\ Cardinality(Ahead) \in Nat
            /\ Cardinality(Ahead') \in Nat /\ Cardinality(Urbs) \in Nat
        BY <1>1, <2>4, AheadFinite, FS_Subset, FS_CardinalityType
      <4>5. QED
        BY <1>1, <2>4, <4>3, <4>4 DEF Overtaken
    <3>2. \A i \in DOMAIN delivered' : delivered'[i] <= nRaise'
      <4>1. /\ DOMAIN delivered' = 1 .. Len(delivered) + 1
            /\ DOMAIN delivered = 1 .. Len(delivered)
            /\ Len(delivered) \in Nat
            /\ \A i \in 1 .. Len(delivered) : delivered'[i] = delivered[i]
            /\ delivered'[Len(delivered) + 1] = found
        BY <1>1, <2>1, <2>6, LenProperties, AppendProperties DEF TypeOK
      <4>2. QED
        BY <1>1, <1>2, <2>1, <4>1 DEF Overtaken, Apart
    <3>3. QED
      BY <2>1, <3>1, <3>2 DEF Overtaken
  <2>7. QED
    BY <2>2, <2>5, <2>6 DEF IoCompletePendingRequest
<1>6. CASE UrbForward
  <2>1. /\ urbPc = "forward" /\ urbPc' = "idle"
        /\ UNCHANGED <<latestStatus, found, delivered, nRaise>>
    BY <1>6 DEF UrbForward, raiseVars
  <2>2. PICK u \in urb : UrbForwards(u)
    BY <1>6 DEF UrbForward, UrbForwards
  <2>3. \A w \in Urbs : w # u => ust'[w] = ust[w]
    BY <1>1, <2>2 DEF TypeOK, UrbForwards
  <2>4. Ahead' \subseteq Ahead /\ Cached' = Cached /\ Found' = Found
    BY <2>1, <2>3 DEF Ahead, MayCarry, Cached, Found
  <2>5. QED
    BY <1>1, <2>1, <2>4, NotOvertaking DEF Overtaken
<1>7. QED
  BY <1>1, <1>3, <1>4, <1>5, <1>6 DEF UrbStep

LEMMA OvertakenLink ==
  TypeOK /\ TypeOK' /\ Overtaken
    /\ (LinkPowerStep \/ \E i \in DOMAIN IntrDeferredQueue : CancelUrb(i))
    => Overtaken'
<1>1. SUFFICES ASSUME TypeOK, TypeOK', Overtaken,
                      LinkPowerStep \/ \E i \in DOMAIN IntrDeferredQueue : CancelUrb(i)
               PROVE  Overtaken'
  OBVIOUS
<1>2. UNCHANGED <<latestStatus, found, urb, urbPc, delivered, nRaise>>
  BY <1>1 DEF LinkPowerStep, LinkPowerExit, Io_DeviceSlept, Io_DeviceWokeUp, LinkPowerEntry,
     CancelUrb, linkVars, raiseVars, urbVars
<1>3. \A u \in Urbs : MayCarry(u)' => MayCarry(u)
  BY <1>1 DEF TypeOK, MayCarry, LinkPowerStep, LinkPowerExit, Io_DeviceSlept, PurgedAs,
     Io_DeviceWokeUp, LinkPowerEntry, CancelUrb
<1>4. Ahead' \subseteq Ahead /\ Cached' = Cached /\ Found' = Found
  BY <1>2, <1>3 DEF Ahead, MayCarry, Cached, Found
<1>5. QED
  BY <1>1, <1>2, <1>4, NotOvertaking DEF Overtaken

LEMMA OvertakenStep ==
  TypeOK /\ TypeOK' /\ Owned /\ Apart /\ Overtaken /\ [Next]_vars => Overtaken'
<1>1. SUFFICES ASSUME TypeOK, TypeOK', Owned, Apart, Overtaken, [Next]_vars PROVE Overtaken'
  OBVIOUS
<1>2. CASE UNCHANGED vars
  <2>1. UNCHANGED <<latestStatus, found, ust, urb, urbPc, delivered, nRaise>>
    BY <1>2 DEF vars, raiseVars, urbVars
  <2>2. Ahead' = Ahead /\ Cached' = Cached /\ Found' = Found
    BY <2>1 DEF Ahead, MayCarry, Cached, Found
  <2>3. QED
    BY <1>1, <2>1, <2>2, NotOvertaking DEF Overtaken
<1>3. QED
  BY <1>1, <1>2, OvertakenRaise, OvertakenUrb, OvertakenLink DEF Next

\* While an interrupt waits in the cache or in a URB's hands, no more newer
\* ones reach the host than the host has URBs.
THEOREM StalenessIsBounded == Spec => []StalenessBounded
<1>1. Init => Overtaken
  BY DEF Init, Overtaken, Cached, Found
<1>2. TypeOK /\ Overtaken => StalenessBounded
  <2>1. SUFFICES ASSUME TypeOK, Overtaken, NEW v \in Cached \cup Found
                 PROVE  Cardinality(Later(v)) <= Cardinality(Urbs)
    BY DEF StalenessBounded, Later
  <2>2. Cardinality(Later(v)) \in Nat /\ Cardinality(Ahead) \in Nat /\ Cardinality(Urbs) \in Nat
    BY <2>1, LaterFinite, AheadFinite
  <2>3. QED
    BY <2>1, <2>2 DEF Overtaken
<1>3. QED
  BY <1>1, <1>2, OvertakenStep, InitTypeOK, TypeStep, InitOwned, OwnedStep, InitApart, ChannelStep,
     PTL DEF Spec
==============================================================================
