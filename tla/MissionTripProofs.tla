--------------------------- MODULE MissionTripProofs ---------------------------
(***************************************************************************)
(* Who is given whose response, for any number of trips, missions and      *)
(* responses and any faults.                                               *)
(*                                                                         *)
(* Nothing is proved here about mission queues: each of the two is moved   *)
(* only as WRQueue moves, so what WRQueueProofs proves of a queue holds of *)
(* both, in any state of the whole.                                        *)
(***************************************************************************)
EXTENDS MissionTrip, QueueLemmas

\* The two queues again, with the lemmas about them.
MissionP == INSTANCE WRQueueProofs WITH
  MaxWrites <- MaxTrips, MaxReads <- MaxBotReads,
  WLen <- [w \in 1 .. MaxTrips |-> 1], RLen <- [r \in 1 .. MaxBotReads |-> 1],
  Faults <- QueueFaults,
  WriteBufferQueue <- mWrites, ReadBufferQueue <- mReads, nW <- mW, nR <- mR,
  pushPc <- mPushPc, matched <- mMatched, pullPc <- mPullPc, held <- mHeld,
  wst <- mWst, rst <- mRst, got <- mGot, bytes <- mBytes

CompletionP == INSTANCE WRQueueProofs WITH
  MaxWrites <- MaxResponses, MaxReads <- MaxTrips,
  WLen <- [w \in 1 .. MaxResponses |-> 1], RLen <- [r \in 1 .. MaxTrips |-> 1],
  Faults <- QueueFaults,
  WriteBufferQueue <- cWrites, ReadBufferQueue <- cReads, nW <- cW, nR <- cR,
  pushPc <- cPushPc, matched <- cMatched, pullPc <- cPullPc, held <- cHeld,
  wst <- cWst, rst <- cRst, got <- cGot, bytes <- cBytes

-----------------------------------------------------------------------------
(* missionRequest *)

LEMMA MissionAssumptions ==
  MissionP!BoundsAssumption /\ MissionP!LengthsAssumption /\ MissionP!FaultsAssumption
BY BoundsAssumption
   DEF MissionP!BoundsAssumption, MissionP!LengthsAssumption, MissionP!FaultsAssumption,
       MissionP!Writes, MissionP!Reads, MissionP!FaultKinds, QueueFaults

LEMMA SameMission ==
  /\ MissionP!vars = Mission!vars
  /\ MissionP!Init = Mission!Init
  /\ MissionP!Next = Mission!Next
  /\ MissionP!TypeOK = Mission!TypeOK
  /\ MissionP!TypeOK' = Mission!TypeOK'
BY DEF
     Mission!Writes, MissionP!Writes, Mission!Reads, MissionP!Reads, Mission!PushPc,
     MissionP!PushPc, Mission!PullPc, MissionP!PullPc, Mission!WriteStatus,
     MissionP!WriteStatus, Mission!ReadStatus, MissionP!ReadStatus, Mission!ReadCompleted,
     MissionP!ReadCompleted, Mission!WriteCompleted, MissionP!WriteCompleted, Mission!MINLEN,
     MissionP!MINLEN, Mission!RemoveHeadList, MissionP!RemoveHeadList, Mission!InsertTailList,
     MissionP!InsertTailList, Mission!RetrieveNextRequest, MissionP!RetrieveNextRequest,
     Mission!pushVars, MissionP!pushVars, Mission!pullVars, MissionP!pullVars, Mission!vars,
     MissionP!vars, Mission!TypeOK, MissionP!TypeOK, Mission!Init, MissionP!Init,
     Mission!WriteArrives, MissionP!WriteArrives, Mission!PendedReadFound,
     MissionP!PendedReadFound, Mission!PushRetrieve, MissionP!PushRetrieve, Mission!PushInsert,
     MissionP!PushInsert, Mission!PushMatch, MissionP!PushMatch, Mission!ReadArrives,
     MissionP!ReadArrives, Mission!PullRemove, MissionP!PullRemove, Mission!PullDeliver,
     MissionP!PullDeliver, Mission!PullForward, MissionP!PullForward, Mission!CancelRead,
     MissionP!CancelRead, Mission!PushStep, MissionP!PushStep, Mission!PullStep,
     MissionP!PullStep, Mission!Next, MissionP!Next, Mission!RemoveAt, MissionP!RemoveAt,
     Mission!Range, MissionP!Range

LEMMA MissionBegins == Mission!Init => MissionP!QueueInv
BY MissionAssumptions, SameMission, MissionP!InitQueueInv

LEMMA MissionTyped ==
  /\ MissionP!QueueInv => Mission!TypeOK
  /\ MissionP!QueueInv' => Mission!TypeOK'
BY SameMission DEF MissionP!QueueInv

\* The statuses and the data of the queue's reads, in the terms of the trip.
LEMMA MissionServedOnce ==
  ASSUME MissionP!QueueInv
  PROVE  /\ \A r \in 1 .. MaxBotReads : mRst[r] = "success" => mGot[r] \in 1 .. mW
         /\ \A r, s \in 1 .. MaxBotReads :
              mRst[r] = "success" /\ mRst[s] = "success" /\ mGot[r] = mGot[s] => r = s
<1>1. /\ \A r \in MissionP!Served : mGot[r] \in 1 .. mW
      /\ \A r, s \in MissionP!Served : mGot[r] = mGot[s] => r = s
  BY MissionAssumptions, MissionP!ServedOnce
<1>2. QED
  BY <1>1 DEF MissionP!Served, MissionP!Reads

LEMMA MissionMoves ==
  ASSUME MissionP!QueueInv, [Mission!Next]_(Mission!vars)
  PROVE  /\ MissionP!QueueInv'
         /\ \A r \in 1 .. MaxBotReads : mRst[r] = "success" =>
              mRst'[r] = "success" /\ mGot'[r] = mGot[r]
         /\ mW <= mW' /\ mR <= mR'
<1>1. MissionP!Next \/ UNCHANGED MissionP!vars
  BY SameMission DEF MissionP!vars, Mission!vars
<1>2. MissionP!QueueInv'
  BY <1>1, MissionAssumptions, MissionP!NextQueueInv
<1>3. /\ \A r \in MissionP!Served : r \in MissionP!Served' /\ mGot'[r] = mGot[r]
      /\ mW <= mW' /\ mR <= mR'
  BY <1>1, MissionAssumptions, MissionP!ServedStays
<1>4. QED
  BY <1>2, <1>3 DEF MissionP!Served, MissionP!Reads

LEMMA SameMissionPipe ==
  /\ MissionP!Pipe!pipeVars = Mission!Pipe!pipeVars
  /\ (MissionP!Pipe!pipeVars)' = (Mission!Pipe!pipeVars)'
  /\ MissionP!Pipe!PipeInit = Mission!Pipe!PipeInit
  /\ MissionP!Pipe!PipeNext = Mission!Pipe!PipeNext
BY DEF
     Mission!Pipe!PipeInit, MissionP!Pipe!PipeInit, Mission!Pipe!PipeNext,
     MissionP!Pipe!PipeNext, Mission!Pipe!pipeVars, MissionP!Pipe!pipeVars, Mission!Pipe!Submit,
     MissionP!Pipe!Submit, Mission!Pipe!Ask, MissionP!Pipe!Ask, Mission!Pipe!Accept,
     MissionP!Pipe!Accept, Mission!Pipe!Refuse, MissionP!Pipe!Refuse, Mission!Pipe!Answer,
     MissionP!Pipe!Answer, Mission!Pipe!Deliver, MissionP!Pipe!Deliver,
     Mission!Pipe!PassThrough, MissionP!Pipe!PassThrough, Mission!Pipe!FailBoth,
     MissionP!Pipe!FailBoth, Mission!Pipe!Cancel, MissionP!Pipe!Cancel, Mission!Asked,
     MissionP!Asked, Mission!Buffered, MissionP!Buffered, Mission!InHand, MissionP!InHand,
     Mission!Writes, MissionP!Writes, Mission!Reads, MissionP!Reads, Mission!Range,
     MissionP!Range

\* What the queue does is what its abstract pipe does.
LEMMA MissionIsPipe ==
  /\ Mission!Init => Mission!Pipe!PipeInit
  /\ MissionP!QueueInv /\ [Mission!Next]_(Mission!vars)
       => [Mission!Pipe!PipeNext]_(Mission!Pipe!pipeVars)
<1>1. Mission!Init => Mission!Pipe!PipeInit
  BY MissionAssumptions, SameMission, SameMissionPipe, MissionP!InitIsPipeInit
<1>2. [Mission!Next]_(Mission!vars) => [MissionP!Next]_(MissionP!vars)
  BY SameMission DEF MissionP!vars, Mission!vars
<1>3. MissionP!QueueInv /\ [Mission!Next]_(Mission!vars)
        => [MissionP!Pipe!PipeNext]_(MissionP!Pipe!pipeVars)
  BY <1>2, MissionAssumptions, MissionP!StepIsPipeStep DEF MissionP!QueueInv
<1>4. QED
  BY <1>1, <1>3, SameMissionPipe

-----------------------------------------------------------------------------
(* missionCompletion *)

LEMMA CompletionAssumptions ==
  CompletionP!BoundsAssumption /\ CompletionP!LengthsAssumption /\ CompletionP!FaultsAssumption
BY BoundsAssumption
   DEF CompletionP!BoundsAssumption, CompletionP!LengthsAssumption, CompletionP!FaultsAssumption,
       CompletionP!Writes, CompletionP!Reads, CompletionP!FaultKinds, QueueFaults

LEMMA SameCompletion ==
  /\ CompletionP!vars = Completion!vars
  /\ CompletionP!Init = Completion!Init
  /\ CompletionP!Next = Completion!Next
  /\ CompletionP!TypeOK = Completion!TypeOK
  /\ CompletionP!TypeOK' = Completion!TypeOK'
BY DEF
     Completion!Writes, CompletionP!Writes, Completion!Reads, CompletionP!Reads,
     Completion!PushPc, CompletionP!PushPc, Completion!PullPc, CompletionP!PullPc,
     Completion!WriteStatus, CompletionP!WriteStatus, Completion!ReadStatus,
     CompletionP!ReadStatus, Completion!ReadCompleted, CompletionP!ReadCompleted,
     Completion!WriteCompleted, CompletionP!WriteCompleted, Completion!MINLEN,
     CompletionP!MINLEN, Completion!RemoveHeadList, CompletionP!RemoveHeadList,
     Completion!InsertTailList, CompletionP!InsertTailList, Completion!RetrieveNextRequest,
     CompletionP!RetrieveNextRequest, Completion!pushVars, CompletionP!pushVars,
     Completion!pullVars, CompletionP!pullVars, Completion!vars, CompletionP!vars,
     Completion!TypeOK, CompletionP!TypeOK, Completion!Init, CompletionP!Init,
     Completion!WriteArrives, CompletionP!WriteArrives, Completion!PendedReadFound,
     CompletionP!PendedReadFound, Completion!PushRetrieve, CompletionP!PushRetrieve,
     Completion!PushInsert, CompletionP!PushInsert, Completion!PushMatch, CompletionP!PushMatch,
     Completion!ReadArrives, CompletionP!ReadArrives, Completion!PullRemove,
     CompletionP!PullRemove, Completion!PullDeliver, CompletionP!PullDeliver,
     Completion!PullForward, CompletionP!PullForward, Completion!CancelRead,
     CompletionP!CancelRead, Completion!PushStep, CompletionP!PushStep, Completion!PullStep,
     CompletionP!PullStep, Completion!Next, CompletionP!Next, Completion!RemoveAt,
     CompletionP!RemoveAt, Completion!Range, CompletionP!Range

LEMMA CompletionBegins == Completion!Init => CompletionP!QueueInv
BY CompletionAssumptions, SameCompletion, CompletionP!InitQueueInv

LEMMA CompletionTyped ==
  /\ CompletionP!QueueInv => Completion!TypeOK
  /\ CompletionP!QueueInv' => Completion!TypeOK'
BY SameCompletion DEF CompletionP!QueueInv

\* The statuses and the data of the queue's reads, in the terms of the trip.
LEMMA CompletionServedOnce ==
  ASSUME CompletionP!QueueInv
  PROVE  /\ \A r \in 1 .. MaxTrips : cRst[r] = "success" => cGot[r] \in 1 .. cW
         /\ \A r, s \in 1 .. MaxTrips :
              cRst[r] = "success" /\ cRst[s] = "success" /\ cGot[r] = cGot[s] => r = s
<1>1. /\ \A r \in CompletionP!Served : cGot[r] \in 1 .. cW
      /\ \A r, s \in CompletionP!Served : cGot[r] = cGot[s] => r = s
  BY CompletionAssumptions, CompletionP!ServedOnce
<1>2. QED
  BY <1>1 DEF CompletionP!Served, CompletionP!Reads

LEMMA CompletionMoves ==
  ASSUME CompletionP!QueueInv, [Completion!Next]_(Completion!vars)
  PROVE  /\ CompletionP!QueueInv'
         /\ \A r \in 1 .. MaxTrips : cRst[r] = "success" =>
              cRst'[r] = "success" /\ cGot'[r] = cGot[r]
         /\ cW <= cW' /\ cR <= cR'
<1>1. CompletionP!Next \/ UNCHANGED CompletionP!vars
  BY SameCompletion DEF CompletionP!vars, Completion!vars
<1>2. CompletionP!QueueInv'
  BY <1>1, CompletionAssumptions, CompletionP!NextQueueInv
<1>3. /\ \A r \in CompletionP!Served : r \in CompletionP!Served' /\ cGot'[r] = cGot[r]
      /\ cW <= cW' /\ cR <= cR'
  BY <1>1, CompletionAssumptions, CompletionP!ServedStays
<1>4. QED
  BY <1>2, <1>3 DEF CompletionP!Served, CompletionP!Reads

LEMMA SameCompletionPipe ==
  /\ CompletionP!Pipe!pipeVars = Completion!Pipe!pipeVars
  /\ (CompletionP!Pipe!pipeVars)' = (Completion!Pipe!pipeVars)'
  /\ CompletionP!Pipe!PipeInit = Completion!Pipe!PipeInit
  /\ CompletionP!Pipe!PipeNext = Completion!Pipe!PipeNext
BY DEF
     Completion!Pipe!PipeInit, CompletionP!Pipe!PipeInit, Completion!Pipe!PipeNext,
     CompletionP!Pipe!PipeNext, Completion!Pipe!pipeVars, CompletionP!Pipe!pipeVars,
     Completion!Pipe!Submit, CompletionP!Pipe!Submit, Completion!Pipe!Ask, CompletionP!Pipe!Ask,
     Completion!Pipe!Accept, CompletionP!Pipe!Accept, Completion!Pipe!Refuse,
     CompletionP!Pipe!Refuse, Completion!Pipe!Answer, CompletionP!Pipe!Answer,
     Completion!Pipe!Deliver, CompletionP!Pipe!Deliver, Completion!Pipe!PassThrough,
     CompletionP!Pipe!PassThrough, Completion!Pipe!FailBoth, CompletionP!Pipe!FailBoth,
     Completion!Pipe!Cancel, CompletionP!Pipe!Cancel, Completion!Asked, CompletionP!Asked,
     Completion!Buffered, CompletionP!Buffered, Completion!InHand, CompletionP!InHand,
     Completion!Writes, CompletionP!Writes, Completion!Reads, CompletionP!Reads,
     Completion!Range, CompletionP!Range

\* What the queue does is what its abstract pipe does.
LEMMA CompletionIsPipe ==
  /\ Completion!Init => Completion!Pipe!PipeInit
  /\ CompletionP!QueueInv /\ [Completion!Next]_(Completion!vars)
       => [Completion!Pipe!PipeNext]_(Completion!Pipe!pipeVars)
<1>1. Completion!Init => Completion!Pipe!PipeInit
  BY CompletionAssumptions, SameCompletion, SameCompletionPipe, CompletionP!InitIsPipeInit
<1>2. [Completion!Next]_(Completion!vars) => [CompletionP!Next]_(CompletionP!vars)
  BY SameCompletion DEF CompletionP!vars, Completion!vars
<1>3. CompletionP!QueueInv /\ [Completion!Next]_(Completion!vars)
        => [CompletionP!Pipe!PipeNext]_(CompletionP!Pipe!pipeVars)
  BY <1>2, CompletionAssumptions, CompletionP!StepIsPipeStep DEF CompletionP!QueueInv
<1>4. QED
  BY <1>1, <1>3, SameCompletionPipe

-----------------------------------------------------------------------------
(* The queues in the whole *)

\* Every step of the whole is one of missionRequest, or leaves it alone.
LEMMA StepsOfMission == [Next]_vars => [Mission!Next]_(Mission!vars)
<1>1. UNCHANGED missionVars => UNCHANGED Mission!vars
  BY DEF missionVars, Mission!vars
<1>2. CASE UNCHANGED vars
  BY <1>1, <1>2 DEF vars
<1>3. CASE TripWrites \/ BotReads
  BY <1>3 DEF TripWrites, BotReads, Mission!Next
<1>4. CASE MissionStep
  BY <1>4 DEF MissionStep, Mission!Next
<1>5. CASE BotAborted
  BY <1>1, <1>5 DEF BotAborted, Mission!Next
<1>6. CASE \/ TripStep \/ TripAborted \/ BotRead \/ BotWrites \/ BotWritten \/ BotRaises
           \/ CompletionStep \/ Deliver \/ Lose \/ StrayInterrupt \/ OtherConsoleTold
  BY <1>1, <1>6 DEF TripStep, TripWritten, TripTold, TripReads, TripRead, TripAborted, BotRead,
     BotWrites, BotWritten, BotRaises, CompletionStep, Deliver, Lose, StrayInterrupt,
     OtherConsoleTold
<1>7. QED
  BY <1>2, <1>3, <1>4, <1>5, <1>6 DEF Next, BotStep

LEMMA StepsOfCompletion == [Next]_vars => [Completion!Next]_(Completion!vars)
<1>1. UNCHANGED completionVars => UNCHANGED Completion!vars
  BY DEF completionVars, Completion!vars
<1>2. CASE UNCHANGED vars
  BY <1>1, <1>2 DEF vars
<1>3. CASE TripReads \/ BotWrites
  BY <1>3 DEF TripReads, BotWrites, Completion!Next
<1>4. CASE CompletionStep
  BY <1>4 DEF CompletionStep, Completion!Next
<1>5. CASE TripAborted
  BY <1>1, <1>5 DEF TripAborted, Completion!Next
<1>6. CASE \/ TripWrites \/ TripWritten \/ TripTold \/ TripRead \/ BotReads \/ BotRead
           \/ BotWritten \/ BotRaises \/ BotAborted \/ MissionStep \/ Deliver \/ Lose
           \/ StrayInterrupt \/ OtherConsoleTold
  BY <1>1, <1>6 DEF TripWrites, TripWritten, TripTold, TripRead, BotReads, BotRead,
     BotWritten, BotRaises, BotAborted, MissionStep, Deliver, Lose, StrayInterrupt,
     OtherConsoleTold
<1>7. QED
  BY <1>2, <1>3, <1>4, <1>5, <1>6 DEF Next, BotStep, TripStep

QueuesInv == MissionP!QueueInv /\ CompletionP!QueueInv

LEMMA InitQueues == Init => QueuesInv
BY MissionBegins, CompletionBegins DEF Init, QueuesInv

LEMMA NextQueues == QueuesInv /\ [Next]_vars => QueuesInv'
BY StepsOfMission, StepsOfCompletion, MissionMoves, CompletionMoves DEF QueuesInv

\* The full-blown test uses both mission queues as WRQueue allows, whatever is
\* interrupted or fails, so that all that is proved of a mission queue's
\* safety holds of both.
THEOREM QueuesAreWRQueues ==
  Spec => /\ Mission!Init /\ [][Mission!Next]_(Mission!vars)
          /\ Completion!Init /\ [][Completion!Next]_(Completion!vars)
<1>1. Init => Mission!Init /\ Completion!Init
  BY DEF Init
<1>2. QED
  BY <1>1, StepsOfMission, StepsOfCompletion, PTL DEF Spec

\* With lists and handlers left out, each queue is a pipe in the whole, too: no
\* response is lost once its write was acknowledged, and none is read twice.
THEOREM QueuesArePipes == Spec => Mission!IsAMissionPipe /\ Completion!IsAMissionPipe
<1>1. Init => Mission!Pipe!PipeInit /\ Completion!Pipe!PipeInit
  BY MissionIsPipe, CompletionIsPipe DEF Init
<1>2. QueuesInv /\ [Next]_vars => [Mission!Pipe!PipeNext]_(Mission!Pipe!pipeVars)
  BY StepsOfMission, MissionIsPipe DEF QueuesInv
<1>3. QueuesInv /\ [Next]_vars => [Completion!Pipe!PipeNext]_(Completion!Pipe!pipeVars)
  BY StepsOfCompletion, CompletionIsPipe DEF QueuesInv
<1>4. QED
  BY <1>1, <1>2, <1>3, InitQueues, NextQueues, PTL
     DEF Spec, Mission!IsAMissionPipe, Completion!IsAMissionPipe, Mission!Pipe!PipeSpec,
         Completion!Pipe!PipeSpec

-----------------------------------------------------------------------------
(* Types *)

TripTypes ==
  /\ onDevice \in Seq(Values)
  /\ onHost \in Values \cup {NOTHING}
  /\ tripPc \in {"idle", "write", "interrupt", "told", "read"}
  /\ botPc \in {"idle", "read", "respond", "write", "raise"}
  /\ mission \in 0 .. MaxTrips
  /\ answers \in Seq(1 .. MaxTrips)
  /\ Len(answers) = cW
  /\ response \in [1 .. MaxTrips -> 0 .. MaxTrips]
  /\ strays \in 0 .. MaxStrays
  /\ tripPc # "idle" => mW \in 1 .. MaxTrips
  /\ tripPc = "read" => cR \in 1 .. MaxTrips
  /\ botPc # "idle" => mR \in 1 .. MaxBotReads
  /\ botPc \in {"respond", "write", "raise"} => mission \in 1 .. MaxTrips

\* How far the queues have come.
LEMMA Counts ==
  ASSUME QueuesInv
  PROVE  /\ mW \in 0 .. MaxTrips /\ cR \in 0 .. MaxTrips
         /\ mR \in 0 .. MaxBotReads /\ cW \in 0 .. MaxResponses
         /\ mW \in Nat /\ cR \in Nat /\ mR \in Nat /\ cW \in Nat
BY MissionTyped, CompletionTyped, BoundsAssumption DEF QueuesInv, Mission!TypeOK, Completion!TypeOK

LEMMA CountsNext ==
  ASSUME QueuesInv, [Next]_vars
  PROVE  mW' \in Nat /\ cR' \in Nat /\ mR' \in Nat /\ cW' \in Nat
BY NextQueues, MissionTyped, CompletionTyped, BoundsAssumption
   DEF QueuesInv, Mission!TypeOK, Completion!TypeOK

\* Only TripWrites moves the count of trips, and so on for the other three.
LEMMA WhoCounts ==
  /\ Mission!PushStep \/ Mission!PullStep => UNCHANGED <<mW, mR>>
  /\ Completion!PushStep \/ Completion!PullStep => UNCHANGED <<cW, cR>>
  /\ Mission!WriteArrives => mW < MaxTrips /\ mW' = mW + 1 /\ UNCHANGED <<mR, mRst, mGot>>
  /\ Mission!ReadArrives => mR < MaxBotReads /\ mR' = mR + 1 /\ UNCHANGED mW
  /\ Completion!WriteArrives => cW < MaxResponses /\ cW' = cW + 1 /\ UNCHANGED <<cR, cRst, cGot>>
  /\ Completion!ReadArrives => cR < MaxTrips /\ cR' = cR + 1 /\ UNCHANGED cW
  /\ \A k : Mission!CancelRead(k) => UNCHANGED <<mW, mR>>
  /\ \A k : Completion!CancelRead(k) => UNCHANGED <<cW, cR>>
BY DEF Mission!PushStep, Mission!PullStep, Mission!PushRetrieve, Mission!PushInsert,
       Mission!PushMatch, Mission!PullRemove, Mission!PullDeliver, Mission!PullForward,
       Mission!WriteArrives, Mission!ReadArrives, Mission!CancelRead, Mission!pushVars,
       Mission!pullVars,
       Completion!PushStep, Completion!PullStep, Completion!PushRetrieve,
       Completion!PushInsert, Completion!PushMatch, Completion!PullRemove,
       Completion!PullDeliver, Completion!PullForward, Completion!WriteArrives,
       Completion!ReadArrives, Completion!CancelRead, Completion!pushVars,
       Completion!pullVars

LEMMA InitTypes == Init => TripTypes
<1>1. Init => onDevice \in Seq(Values) /\ answers \in Seq(1 .. MaxTrips) /\ Len(answers) = 0
  BY EmptySeq DEF Init
<1>2. QED
  BY <1>1, BoundsAssumption DEF Init, TripTypes, NOTHING, Completion!Init

\* Interrupts come and go; nothing else depends on them.
LEMMA InterruptTypes ==
  ASSUME onDevice \in Seq(Values)
  PROVE  /\ \A value \in Values : GenerateInterrupt(value) => onDevice' \in Seq(Values)
         /\ \A k \in DOMAIN onDevice :
              RemoveAt(onDevice, k) \in Seq(Values) /\ onDevice[k] \in Values
<1>1. \A k \in DOMAIN onDevice :
        RemoveAt(onDevice, k) \in Seq(Values) /\ onDevice[k] \in Values
  BY RemoveAtProperties, LenProperties, ElementOfSeq
<1>2. ASSUME NEW value \in Values, GenerateInterrupt(value)
      PROVE  onDevice' \in Seq(Values)
  <2>1. \A q \in Seq(Values) : Append(q, value) \in Seq(Values)
    BY AppendProperties
  <2>2. QED
    BY <1>1, <1>2, <2>1 DEF GenerateInterrupt
<1>3. QED
  BY <1>1, <1>2

LEMMA NextTypes == QueuesInv /\ TripTypes /\ [Next]_vars => TripTypes'
<1> SUFFICES ASSUME QueuesInv, TripTypes, [Next]_vars PROVE TripTypes'
  OBVIOUS
<1> USE Counts, BoundsAssumption
<1>q. QueuesInv'
  BY NextQueues
<1>1. CASE UNCHANGED vars
  BY <1>1 DEF TripTypes, vars, missionVars, completionVars, intrVars, tripVars, botVars
<1>2. CASE TripWrites
  <2>1. mW' = mW + 1 /\ mW' \in 1 .. MaxTrips /\ mR' = mR
    BY <1>2, WhoCounts DEF TripWrites
  <2>2. QED
    BY <1>2, <2>1 DEF TripTypes, TripWrites, completionVars, intrVars, botVars
<1>3. CASE TripWritten
  BY <1>3 DEF TripTypes, TripWritten, missionVars, completionVars, intrVars, botVars
<1>4. CASE TripTold
  BY <1>4 DEF TripTypes, TripTold, AfterInterrupt, missionVars, completionVars, botVars
<1>5. CASE TripReads
  <2>1. cR' = cR + 1 /\ cR' \in 1 .. MaxTrips /\ cW' = cW
    BY <1>5, WhoCounts DEF TripReads
  <2>2. QED
    BY <1>5, <2>1 DEF TripTypes, TripReads, missionVars, intrVars, botVars
<1>6. CASE TripRead
  <2>1. cRst[cR] = "success" => answers[cGot[cR]] \in 1 .. MaxTrips
    <3>1. cRst[cR] = "success" => cGot[cR] \in 1 .. cW
      BY <1>6, CompletionServedOnce DEF QueuesInv, TripTypes, TripRead
    <3>2. \A k \in 1 .. Len(answers) : answers[k] \in 1 .. MaxTrips
      BY ElementOfSeq DEF TripTypes
    <3>3. QED
      BY <3>1, <3>2 DEF TripTypes
  <2>2. response' \in [1 .. MaxTrips -> 0 .. MaxTrips]
    <3>1. CASE cRst[cR] = "success"
      <4> DEFINE a == answers[cGot[cR]]
      <4>1. a \in 0 .. MaxTrips
        BY <2>1, <3>1
      <4>2. response' = [response EXCEPT ![mW] = a]
        BY <1>6, <3>1 DEF TripRead
      <4> HIDE DEF a
      <4>3. QED
        BY <4>1, <4>2 DEF TripTypes
    <3>2. CASE cRst[cR] # "success"
      <4>1. response' = response
        BY <1>6, <3>2 DEF TripRead
      <4>2. QED
        BY <4>1 DEF TripTypes
    <3>3. QED
      BY <3>1, <3>2
  <2>3. QED
    BY <1>6, <2>2 DEF TripTypes, TripRead, missionVars, completionVars, intrVars, botVars
<1>7. CASE TripAborted
  <2>1. UNCHANGED <<cW, cR>>
    BY <1>7, WhoCounts DEF TripAborted, completionVars
  <2>2. QED
    BY <1>7, <2>1 DEF TripTypes, TripAborted, missionVars, intrVars, botVars
<1>8. CASE BotReads
  <2>1. mR' = mR + 1 /\ mR' \in 1 .. MaxBotReads /\ mW' = mW
    BY <1>8, WhoCounts DEF BotReads
  <2>2. QED
    BY <1>8, <2>1 DEF TripTypes, BotReads, completionVars, intrVars, tripVars
<1>9. CASE BotRead
  <2>1. mRst[mR] = "success" => mGot[mR] \in 1 .. MaxTrips
    BY <1>9, MissionServedOnce DEF QueuesInv, TripTypes, BotRead
  <2>2. QED
    BY <1>9, <2>1 DEF TripTypes, BotRead, missionVars, completionVars, intrVars, tripVars
<1>10. CASE BotWrites
  <2>1. mission \in 1 .. MaxTrips /\ cW' = cW + 1 /\ cR' = cR
    BY <1>10, WhoCounts DEF TripTypes, BotWrites
  <2>2. Append(answers, mission) \in Seq(1 .. MaxTrips) /\ Len(Append(answers, mission)) = cW'
    BY <2>1, AppendProperties DEF TripTypes
  <2>3. QED
    BY <1>10, <2>1, <2>2 DEF TripTypes, BotWrites, missionVars, intrVars, tripVars
<1>11. CASE BotWritten
  BY <1>11 DEF TripTypes, BotWritten, AfterWrite, missionVars, completionVars, intrVars, tripVars
<1>12. CASE BotRaises
  <2>1. onDevice' \in Seq(Values)
    BY <1>12, InterruptTypes DEF TripTypes, BotRaises, Values
  <2>2. QED
    BY <1>12, <2>1 DEF TripTypes, BotRaises, AfterRaiseFailed, missionVars, completionVars, tripVars
<1>13. CASE BotAborted
  <2>1. UNCHANGED <<mW, mR>>
    BY <1>13, WhoCounts DEF BotAborted, missionVars
  <2>2. QED
    BY <1>13, <2>1 DEF TripTypes, BotAborted, completionVars, intrVars, tripVars
<1>14. CASE MissionStep
  BY <1>14, WhoCounts DEF TripTypes, MissionStep, completionVars, intrVars, tripVars, botVars
<1>15. CASE CompletionStep
  BY <1>15, WhoCounts DEF TripTypes, CompletionStep, missionVars, intrVars, tripVars, botVars
<1>16. CASE Deliver \/ Lose \/ OtherConsoleTold
  <2>1. onDevice' \in Seq(Values) /\ onHost' \in Values \cup {NOTHING}
    BY <1>16, InterruptTypes DEF TripTypes, Deliver, Lose, OtherConsoleTold
  <2>2. QED
    BY <1>16, <2>1 DEF TripTypes, Deliver, Lose, OtherConsoleTold, missionVars, completionVars,
       tripVars, botVars
<1>17. CASE StrayInterrupt
  <2>1. onDevice' \in Seq(Values)
    BY <1>17, InterruptTypes DEF TripTypes, StrayInterrupt
  <2>2. QED
    BY <1>17, <2>1 DEF TripTypes, StrayInterrupt, missionVars, completionVars, tripVars, botVars
<1>18. QED
  BY <1>1, <1>2, <1>3, <1>4, <1>5, <1>6, <1>7, <1>8, <1>9, <1>10, <1>11, <1>12, <1>13, <1>14,
     <1>15, <1>16, <1>17 DEF Next, TripStep, BotStep

LEMMA TypesOK == QueuesInv /\ TripTypes => TypeOK
BY MissionTyped, CompletionTyped DEF QueuesInv, TripTypes, TypeOK

\* Every variable keeps its type.  In particular a trip or an agent that was
\* served did get a mission or a response that was sent.
THEOREM TypeCorrect == Spec => []TypeOK
<1>1. Init => QueuesInv /\ TripTypes
  BY InitQueues, InitTypes
<1>2. QueuesInv /\ TripTypes /\ [Next]_vars => (QueuesInv /\ TripTypes)'
  BY NextQueues, NextTypes
<1>3. QED
  BY <1>1, <1>2, TypesOK, PTL DEF Spec

-----------------------------------------------------------------------------
(* Missions and responses *)

\* A response is to a mission that a read was served with, before the one at
\* hand unless that is answered already; no mission is answered twice.
AnswersOnce ==
  /\ \A c \in 1 .. cW : \E r \in 1 .. mR :
       /\ mRst[r] = "success"
       /\ mGot[r] = answers[c]
       /\ botPc \in {"read", "respond"} => r # mR
  /\ \A c, d \in 1 .. cW : answers[c] = answers[d] => c = d

\* The mission at hand is the one the agent's last read was served with.
WorksOn ==
  botPc \in {"respond", "write", "raise"} => mRst[mR] = "success" /\ mission = mGot[mR]

\* A trip was given the response that one of the reads was served with: not
\* the read of the trip that is still under way, which has no response yet.
Responses ==
  /\ tripPc # "idle" => response[mW] = 0
  /\ \A t \in 1 .. MaxTrips : response[t] # 0 =>
       /\ t <= mW
       /\ response[t] <= t
       /\ \E r \in 1 .. cR :
            /\ cRst[r] = "success"
            /\ response[t] = answers[cGot[r]]
            /\ tripPc = "read" => r # cR

PairingInv == QueuesInv /\ TripTypes /\ AnswersOnce /\ WorksOn /\ Responses /\ OwnResponse

\* What a step of the whole leaves in place.
LEMMA ServedStay ==
  ASSUME QueuesInv, [Next]_vars
  PROVE  /\ \A r \in 1 .. MaxBotReads : mRst[r] = "success" =>
              mRst'[r] = "success" /\ mGot'[r] = mGot[r]
         /\ \A r \in 1 .. MaxTrips : cRst[r] = "success" =>
              cRst'[r] = "success" /\ cGot'[r] = cGot[r]
         /\ mW <= mW' /\ mR <= mR' /\ cW <= cW' /\ cR <= cR'
BY MissionMoves, CompletionMoves, StepsOfMission, StepsOfCompletion DEF QueuesInv

LEMMA InitPairing == Init => AnswersOnce /\ WorksOn /\ Responses /\ OwnResponse
<1>1. Init => cW = 0 /\ \A t \in 1 .. MaxTrips : response[t] = 0
  BY DEF Init, Completion!Init
<1>2. QED
  BY <1>1 DEF Init, AnswersOnce, WorksOn, Responses, OwnResponse

\* Steps that store no response leave those that were stored answered once.
LEMMA AnswersKept ==
  ASSUME QueuesInv, TripTypes, AnswersOnce, [Next]_vars, UNCHANGED answers,
         \/ botPc' \notin {"read", "respond"}
         \/ mR' = mR /\ botPc \in {"read", "respond"}
         \/ mR' = mR + 1
  PROVE  AnswersOnce'
<1> USE Counts
<1>1. cW' = cW
  <2>1. QueuesInv' /\ TripTypes'
    BY NextQueues, NextTypes
  <2>2. QED
    BY <2>1 DEF TripTypes
<1>2. ASSUME NEW c \in 1 .. cW
      PROVE  \E r \in 1 .. mR' :
               /\ mRst'[r] = "success"
               /\ mGot'[r] = answers[c]
               /\ botPc' \in {"read", "respond"} => r # mR'
  <2>1. PICK r \in 1 .. mR : /\ mRst[r] = "success" /\ mGot[r] = answers[c]
                             /\ botPc \in {"read", "respond"} => r # mR
    BY <1>2 DEF AnswersOnce
  <2>2. r \in 1 .. MaxBotReads /\ r \in 1 .. mR'
    BY ServedStay, CountsNext, BoundsAssumption
  <2>3. mRst'[r] = "success" /\ mGot'[r] = answers[c]
    BY <2>1, <2>2, ServedStay
  <2>4. mR' = mR + 1 => r # mR'
    OBVIOUS
  <2>5. QED
    BY <2>1, <2>2, <2>3, <2>4
<1>3. QED
  BY <1>1, <1>2 DEF AnswersOnce

\* The agent stores a response: to the mission at hand, not answered so far.
LEMMA AnswersStored ==
  ASSUME QueuesInv, TripTypes, AnswersOnce, WorksOn, BotWrites
  PROVE  AnswersOnce'
<1> USE Counts
<1>1. /\ botPc = "respond" /\ botPc' = "write"
      /\ cW' = cW + 1 /\ UNCHANGED <<mR, mRst, mGot>>
      /\ answers' = Append(answers, mission)
  BY WhoCounts DEF BotWrites, missionVars
<1>2. answers'[cW + 1] = mission /\ \A c \in 1 .. cW : answers'[c] = answers[c]
  <2>1. answers \in Seq(1 .. MaxTrips) /\ mission \in 1 .. MaxTrips /\ Len(answers) = cW
    BY <1>1 DEF TripTypes
  <2>2. QED
    BY <1>1, <2>1, AppendProperties
<1>3. mR \in 1 .. mR /\ mR \in 1 .. MaxBotReads /\ mRst[mR] = "success" /\ mission = mGot[mR]
  BY <1>1 DEF TripTypes, WorksOn
<1>4. \A c \in 1 .. cW : answers[c] # mission
  <2> SUFFICES ASSUME NEW c \in 1 .. cW, answers[c] = mission PROVE FALSE
    OBVIOUS
  <2>1. PICK r \in 1 .. mR : mRst[r] = "success" /\ mGot[r] = answers[c] /\ r # mR
    BY <1>1 DEF AnswersOnce
  <2>2. r \in 1 .. MaxBotReads
    BY BoundsAssumption
  <2>3. QED
    BY <1>3, <2>1, <2>2, MissionServedOnce DEF QueuesInv
<1>5. \A c \in 1 .. cW' : c \in 1 .. cW \/ c = cW + 1
  BY <1>1
<1>6. ASSUME NEW c \in 1 .. cW'
      PROVE  \E r \in 1 .. mR' : mRst'[r] = "success" /\ mGot'[r] = answers'[c]
  BY <1>1, <1>2, <1>3, <1>5, <1>6 DEF AnswersOnce
<1>7. \A c, d \in 1 .. cW' : answers'[c] = answers'[d] => c = d
  BY <1>2, <1>4, <1>5 DEF AnswersOnce
<1>8. botPc' = "write"
  BY <1>1
<1>9. QED
  BY <1>6, <1>7, <1>8 DEF AnswersOnce

\* The mission at hand stays the one of the agent's last read.
LEMMA WorksOnKept ==
  ASSUME QueuesInv, TripTypes, WorksOn, [Next]_vars, UNCHANGED <<mission, mR>>,
         botPc' \in {"respond", "write", "raise"} => botPc \in {"respond", "write", "raise"}
  PROVE  WorksOn'
<1>1. botPc # "idle" => mR \in 1 .. MaxBotReads
  BY DEF TripTypes
<1>2. QED
  BY <1>1, ServedStay DEF WorksOn

\* The responses stay the ones that reads were served with.
LEMMA ResponsesKept ==
  ASSUME QueuesInv, TripTypes, Responses, [Next]_vars, UNCHANGED response,
         \A c \in 1 .. cW : answers'[c] = answers[c],
         tripPc' # "idle" => response[mW'] = 0,
         \/ cR' = cR /\ (tripPc' = "read" => tripPc = "read")
         \/ cR' = cR + 1
  PROVE  Responses'
<1> USE Counts, CountsNext, ServedStay
<1>1. ASSUME NEW t \in 1 .. MaxTrips, response[t] # 0
      PROVE  /\ t <= mW'
             /\ response[t] <= t
             /\ \E r \in 1 .. cR' :
                  /\ cRst'[r] = "success"
                  /\ response[t] = answers'[cGot'[r]]
                  /\ tripPc' = "read" => r # cR'
  <2>1. PICK r \in 1 .. cR : /\ cRst[r] = "success" /\ response[t] = answers[cGot[r]]
                             /\ tripPc = "read" => r # cR
    BY <1>1 DEF Responses
  <2>2. r \in 1 .. MaxTrips /\ r \in 1 .. cR'
    BY BoundsAssumption
  <2>3. cGot[r] \in 1 .. cW
    BY <2>1, <2>2, CompletionServedOnce DEF QueuesInv
  <2>4. cRst'[r] = "success" /\ response[t] = answers'[cGot'[r]]
    BY <2>1, <2>2, <2>3
  <2>5. tripPc' = "read" => r # cR'
    BY <2>1
  <2>6. t <= mW' /\ response[t] <= t
    BY <1>1 DEF Responses
  <2>7. QED
    BY <2>2, <2>4, <2>5, <2>6
<1>2. QED
  BY <1>1 DEF Responses

\* What a trip is given: the response to a mission that was sent, which nobody
\* else was given.
LEMMA FreshResponse ==
  ASSUME QueuesInv, TripTypes, AnswersOnce, Responses, tripPc = "read", cRst[cR] = "success"
  PROVE  /\ answers[cGot[cR]] \in 1 .. mW
         /\ \A u \in 1 .. MaxTrips : response[u] # answers[cGot[cR]]
<1> USE Counts
<1>1. cR \in 1 .. MaxTrips /\ cGot[cR] \in 1 .. cW
  BY CompletionServedOnce DEF QueuesInv, TripTypes
<1>2. answers[cGot[cR]] \in 1 .. mW
  <2>1. PICK r \in 1 .. mR : mRst[r] = "success" /\ mGot[r] = answers[cGot[cR]]
    BY <1>1 DEF AnswersOnce
  <2>2. r \in 1 .. MaxBotReads
    BY BoundsAssumption
  <2>3. QED
    BY <2>1, <2>2, MissionServedOnce DEF QueuesInv
<1>3. ASSUME NEW u \in 1 .. MaxTrips, response[u] = answers[cGot[cR]]
      PROVE  FALSE
  <2>1. response[u] # 0
    BY <1>2, <1>3
  <2>2. PICK r \in 1 .. cR : cRst[r] = "success" /\ response[u] = answers[cGot[r]] /\ r # cR
    BY <2>1 DEF Responses
  <2>3. r \in 1 .. MaxTrips
    BY BoundsAssumption
  <2>4. cGot[r] \in 1 .. cW
    BY <2>2, <2>3, CompletionServedOnce DEF QueuesInv
  <2>5. cGot[r] = cGot[cR]
    BY <1>1, <1>3, <2>2, <2>4 DEF AnswersOnce
  <2>6. QED
    BY <1>1, <2>2, <2>3, <2>5, CompletionServedOnce DEF QueuesInv
<1>4. QED
  BY <1>2, <1>3

\* A trip is given a response.
LEMMA ResponseGiven ==
  ASSUME QueuesInv, TripTypes, AnswersOnce, Responses, OwnResponse, TripRead,
         cRst[cR] = "success"
  PROVE  Responses' /\ OwnResponse'
<1> USE Counts
<1> DEFINE v == answers[cGot[cR]]
<1>1. /\ tripPc = "read" /\ tripPc' = "idle"
      /\ mW \in 1 .. MaxTrips /\ cR \in 1 .. MaxTrips
      /\ UNCHANGED <<mW, cR, cRst, cGot, answers>>
      /\ response' = [response EXCEPT ![mW] = v]
      /\ response \in [1 .. MaxTrips -> 0 .. MaxTrips]
  BY DEF TripRead, TripTypes, missionVars, completionVars, botVars
<1>2. v \in 1 .. mW /\ \A u \in 1 .. MaxTrips : response[u] # v
  BY <1>1, FreshResponse
<1> HIDE DEF v
<1>3. response'[mW] = v /\ \A t \in 1 .. MaxTrips : t # mW => response'[t] = response[t]
  BY <1>1
<1>4. response[mW] = 0 /\ \A t \in 1 .. MaxTrips : response[t] # 0 => t <= mW /\ t # mW
  BY <1>1 DEF Responses
<1>5. Responses'
  <2>1. ASSUME NEW t \in 1 .. MaxTrips, response'[t] # 0
        PROVE  /\ t <= mW
               /\ response'[t] <= t
               /\ \E r \in 1 .. cR : cRst[r] = "success" /\ response'[t] = answers[cGot[r]]
    <3>1. CASE t = mW
      BY <1>1, <1>2, <1>3, <3>1 DEF v
    <3>2. CASE t # mW
      BY <1>3, <2>1, <3>2 DEF Responses
    <3>3. QED
      BY <3>1, <3>2
  <2>2. QED
    BY <1>1, <2>1 DEF Responses
<1>6. ASSUME NEW t \in 1 .. MaxTrips, response'[t] # 0, NEW u \in 1 .. MaxTrips,
             response'[u] = response'[t]
      PROVE  u = t
  BY <1>2, <1>3, <1>6 DEF OwnResponse
<1>7. ASSUME NEW t \in 1 .. MaxTrips, response'[t] # 0, FailedBefore(t)' = {}
      PROVE  response'[t] = t
  <2>1. \A u \in 1 .. (t - 1) : response'[u] # 0
    BY <1>7 DEF FailedBefore
  <2>2. t <= mW
    BY <1>1, <1>3, <1>4, <1>7
  <2>3. \A u \in 1 .. (t - 1) : u \in 1 .. MaxTrips /\ u # mW /\ u - 1 \in 0 .. t - 1
    BY <1>1, <2>2, BoundsAssumption
  <2>4. \A u \in 1 .. (t - 1) : response[u] # 0
    BY <1>3, <2>1, <2>3
  <2>5. \A u \in 1 .. (t - 1) : response[u] = u
    <3> SUFFICES ASSUME NEW u \in 1 .. (t - 1) PROVE response[u] = u
      OBVIOUS
    <3>1. FailedBefore(u) = {}
      BY <2>3, <2>4 DEF FailedBefore
    <3>2. QED
      BY <2>3, <2>4, <3>1 DEF OwnResponse
  <2>6. CASE t = mW
    <3>1. v \in 1 .. (t - 1) => response[v] = v
      BY <2>5
    <3>2. v \notin 1 .. (t - 1)
      BY <1>2, <2>3, <3>1
    <3>3. QED
      BY <1>1, <1>2, <1>3, <2>6, <3>2
  <2>7. CASE t # mW
    <3>1. response[t] # 0 /\ FailedBefore(t) = {}
      BY <1>3, <1>7, <2>4, <2>7 DEF FailedBefore
    <3>2. QED
      BY <1>3, <2>7, <3>1 DEF OwnResponse
  <2>8. QED
    BY <2>6, <2>7
<1>8. OwnResponse'
  BY <1>6, <1>7 DEF OwnResponse
<1>9. QED
  BY <1>5, <1>8

LEMMA NextAnswers ==
  ASSUME QueuesInv, TripTypes, AnswersOnce, WorksOn, [Next]_vars
  PROVE  AnswersOnce' /\ WorksOn'
<1> USE Counts
<1>1. CASE \/ UNCHANGED vars \/ TripWrites \/ TripStep \/ TripAborted \/ MissionStep
           \/ CompletionStep \/ Deliver \/ Lose \/ StrayInterrupt \/ OtherConsoleTold
  <2>1. UNCHANGED <<botPc, mission, answers, mR>>
    BY <1>1, WhoCounts DEF vars, TripWrites, TripStep, TripWritten, TripTold, TripReads, TripRead,
       TripAborted, MissionStep, CompletionStep, Deliver, Lose, StrayInterrupt,
       OtherConsoleTold, missionVars, botVars
  <2>2. QED
    BY <2>1, AnswersKept, WorksOnKept
<1>2. CASE BotReads
  <2>1. botPc' = "read" /\ mR' = mR + 1 /\ UNCHANGED answers
    BY <1>2, WhoCounts DEF BotReads
  <2>2. QED
    BY <2>1, AnswersKept DEF WorksOn
<1>3. CASE BotRead
  <2>1. botPc = "read" /\ UNCHANGED <<mR, answers, mRst, mGot>>
    BY <1>3 DEF BotRead, missionVars
  <2>2. WorksOn'
    BY <1>3, <2>1 DEF BotRead, WorksOn
  <2>3. QED
    BY <2>1, <2>2, AnswersKept
<1>4. CASE BotWrites
  <2>1. botPc = "respond" /\ UNCHANGED <<mission, mR>>
    BY <1>4 DEF BotWrites, missionVars
  <2>2. QED
    BY <1>4, <2>1, AnswersStored, WorksOnKept
<1>5. CASE BotWritten
  <2>1. /\ botPc = "write" /\ UNCHANGED <<mission, answers, mR>>
        /\ botPc' \in {"raise", "idle"}
    BY <1>5 DEF BotWritten, AfterWrite, missionVars
  <2>2. QED
    BY <2>1, AnswersKept, WorksOnKept
<1>6. CASE BotRaises \/ BotAborted
  <2>1. botPc' = "idle" /\ UNCHANGED <<mission, answers, mR>>
    <3>1. BotRaises => botPc' = "idle" /\ UNCHANGED <<mission, answers, mR>>
      BY DEF BotRaises, AfterRaiseFailed, missionVars
    <3>2. BotAborted => botPc' = "idle" /\ UNCHANGED <<mission, answers, mR>>
      BY WhoCounts DEF BotAborted, missionVars
    <3>3. QED
      BY <1>6, <3>1, <3>2
  <2>2. QED
    BY <2>1, AnswersKept, WorksOnKept
<1>7. QED
  BY <1>1, <1>2, <1>3, <1>4, <1>5, <1>6 DEF Next, BotStep

LEMMA NextResponses ==
  ASSUME QueuesInv, TripTypes, AnswersOnce, Responses, OwnResponse, [Next]_vars
  PROVE  Responses' /\ OwnResponse'
<1> USE Counts
<1>1. UNCHANGED response => OwnResponse'
  BY DEF OwnResponse, FailedBefore
<1>2. CASE TripWrites
  <2>1. mW' = mW + 1 /\ mW' \in 1 .. MaxTrips /\ UNCHANGED <<cR, response, answers>>
        /\ tripPc' = "write"
    BY <1>2, WhoCounts, BoundsAssumption DEF TripWrites, completionVars, botVars
  <2>2. response[mW'] = 0
    BY <2>1 DEF Responses
  <2>3. QED
    BY <1>1, <2>1, <2>2, ResponsesKept
<1>3. CASE TripReads
  <2>1. mW' = mW /\ cR' = cR + 1 /\ UNCHANGED <<response, answers>> /\ tripPc # "idle"
    BY <1>3, WhoCounts DEF TripReads, missionVars, botVars
  <2>2. QED
    BY <1>1, <2>1, ResponsesKept DEF Responses
<1>4. CASE TripRead
  <2>1. CASE cRst[cR] = "success"
    BY <1>4, <2>1, ResponseGiven
  <2>2. CASE cRst[cR] # "success"
    <3>1. UNCHANGED <<mW, cR, response, answers>> /\ tripPc' = "idle"
      BY <1>4, <2>2 DEF TripRead, missionVars, completionVars, botVars
    <3>2. QED
      BY <1>1, <3>1, ResponsesKept
  <2>3. QED
    BY <2>1, <2>2
<1>5. CASE TripWritten \/ TripTold \/ TripAborted
  <2>1. /\ UNCHANGED <<mW, cR, response, answers>>
        /\ tripPc' # "read" /\ (tripPc' # "idle" => tripPc # "idle")
    BY <1>5, WhoCounts DEF TripWritten, TripTold, AfterInterrupt, TripAborted, missionVars,
       completionVars, botVars
  <2>2. QED
    BY <1>1, <2>1, ResponsesKept DEF Responses
<1>6. CASE BotWrites
  <2>1. UNCHANGED <<mW, cR, response, tripPc>>
    BY <1>6, WhoCounts DEF BotWrites, missionVars, tripVars
  <2>2. \A c \in 1 .. cW : answers'[c] = answers[c]
    <3>1. answers \in Seq(1 .. MaxTrips) /\ mission \in 1 .. MaxTrips /\ Len(answers) = cW
      BY <1>6 DEF TripTypes, BotWrites
    <3>2. QED
      BY <1>6, <3>1, AppendProperties DEF BotWrites
  <2>3. QED
    BY <1>1, <2>1, <2>2, ResponsesKept DEF Responses
<1>7. CASE \/ UNCHANGED vars \/ BotReads \/ BotRead \/ BotWritten \/ BotRaises \/ BotAborted
           \/ MissionStep \/ CompletionStep \/ Deliver \/ Lose \/ StrayInterrupt
           \/ OtherConsoleTold
  <2>1. UNCHANGED <<mW, cR, response, tripPc, answers>>
    BY <1>7, WhoCounts DEF vars, BotReads, BotRead, BotWritten, BotRaises, BotAborted,
       MissionStep, CompletionStep, Deliver, Lose, StrayInterrupt, OtherConsoleTold,
       missionVars, completionVars, tripVars, botVars
  <2>2. QED
    BY <1>1, <2>1, ResponsesKept DEF Responses
<1>8. QED
  BY <1>2, <1>3, <1>4, <1>5, <1>6, <1>7 DEF Next, TripStep, BotStep

\* However trips, the agent and the interrupts interleave, whatever fails and
\* is interrupted: the response given to a trip without failures before it
\* is its own, and no response is given to two trips.
THEOREM PairingHolds == Spec => []OwnResponse
<1>1. Init => PairingInv
  BY InitQueues, InitTypes, InitPairing DEF PairingInv
<1>2. PairingInv /\ [Next]_vars => PairingInv'
  BY NextQueues, NextTypes, NextAnswers, NextResponses DEF PairingInv
<1>3. PairingInv => OwnResponse
  BY DEF PairingInv
<1>4. QED
  BY <1>1, <1>2, <1>3, PTL DEF Spec
==============================================================================
