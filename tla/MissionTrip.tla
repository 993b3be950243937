----------------------------- MODULE MissionTrip -----------------------------
(***************************************************************************)
(* The "full-blown test" of the test application (UDEFX_host/exe/          *)
(* testapp.c), end to end: CommandTrip (-c) sends a mission to the device, *)
(* waits for an interrupt and reads the response; AutoBot (-a) sits on the *)
(* back channel, reads missions, stores responses and raises interrupts.   *)
(*                                                                         *)
(* Between the two are a mission queue in each direction, two instances of *)
(* WRQueue, and the path of interrupts, of which only what DeviceInterrupt *)
(* and HostInterrupt let through is kept: on the device an interrupt is on *)
(* its way, several at a time and in any order, or cached and replaced by  *)
(* a newer one (InterruptChannel); the host remembers the last that came.  *)
(*                                                                         *)
(* Any command may be interrupted at the console and started again.  Trips *)
(* follow one another.  A trip whose write fails in the host's driver has  *)
(* done nothing and is left out, so trip t is the t-th write to the device *)
(* and mission t, if the device takes it, is its text.                     *)
(***************************************************************************)
EXTENDS Naturals, Sequences, FiniteSets, SequencesExt

CONSTANTS
  MaxTrips,      \* bound: how often -c is run
  MaxBotReads,   \* bound: how many missions -a asks for
  MaxResponses,  \* bound: how many responses it stores
  MaxStrays,     \* bound: how often -i is run
  Faults         \* what may go wrong

\* match, alloc: in the mission queues, whose other faults stop the program
\* that meets them for good;  ioctl: GENERATE_INTERRUPT fails;
\* lost: an interrupt is dropped on its way;  abort: -c or -a is interrupted
FaultKinds == {"match", "alloc", "ioctl", "lost", "abort"}

ASSUME BoundsAssumption ==
  /\ MaxTrips \in Nat
  /\ MaxBotReads \in Nat
  /\ MaxResponses \in Nat
  /\ MaxStrays \in Nat
ASSUME FaultsAssumption == Faults \subseteq FaultKinds

VARIABLES
  \* missionRequest: bulk OUT to back channel reads
  mWrites, mReads, mW, mR, mPushPc, mMatched, mPullPc, mHeld, mWst, mRst, mGot, mBytes,
  \* missionCompletion: back channel writes to bulk IN
  cWrites, cReads, cW, cR, cPushPc, cMatched, cPullPc, cHeld, cWst, cRst, cGot, cBytes,
  onDevice, onHost,  \* the interrupts on the device; the one the host has, if any
  tripPc,            \* where CommandTrip is
  botPc, mission,    \* where AutoBot is; the mission it works on
  answers,           \* answers[c]: the mission that the c-th response is to
  response,          \* response[t]: the mission whose response trip t was given
  strays             \* how often -i has been run

missionVars    == <<mWrites, mReads, mW, mR, mPushPc, mMatched, mPullPc, mHeld, mWst, mRst,
                    mGot, mBytes>>
completionVars == <<cWrites, cReads, cW, cR, cPushPc, cMatched, cPullPc, cHeld, cWst, cRst,
                    cGot, cBytes>>
intrVars == <<onDevice, onHost>>
tripVars == <<tripPc, response>>
botVars  == <<botPc, mission, answers>>
vars == <<missionVars, completionVars, intrVars, tripVars, botVars, strays>>

QueueFaults == Faults \cap {"match", "alloc"}

Mission == INSTANCE WRQueue WITH
  MaxWrites <- MaxTrips, MaxReads <- MaxBotReads,
  WLen <- [w \in 1 .. MaxTrips |-> 1], RLen <- [r \in 1 .. MaxBotReads |-> 1],
  Faults <- QueueFaults,
  WriteBufferQueue <- mWrites, ReadBufferQueue <- mReads, nW <- mW, nR <- mR,
  pushPc <- mPushPc, matched <- mMatched, pullPc <- mPullPc, held <- mHeld,
  wst <- mWst, rst <- mRst, got <- mGot, bytes <- mBytes

Completion == INSTANCE WRQueue WITH
  MaxWrites <- MaxResponses, MaxReads <- MaxTrips,
  WLen <- [w \in 1 .. MaxResponses |-> 1], RLen <- [r \in 1 .. MaxTrips |-> 1],
  Faults <- QueueFaults,
  WriteBufferQueue <- cWrites, ReadBufferQueue <- cReads, nW <- cW, nR <- cR,
  pushPc <- cPushPc, matched <- cMatched, pullPc <- cPullPc, held <- cHeld,
  wst <- cWst, rst <- cRst, got <- cGot, bytes <- cBytes

\* What an interrupt may carry; only -i raises anything but success.
MISSION_SUCCEEDED == 10
MISSION_FAILED == 12
Values == {MISSION_SUCCEEDED, MISSION_FAILED}

NOTHING == 0

TypeOK ==
  /\ Mission!TypeOK
  /\ Completion!TypeOK
  /\ onDevice \in Seq(Values)
  /\ onHost \in Values \cup {NOTHING}
  /\ tripPc \in {"idle", "write", "interrupt", "told", "read"}
  /\ botPc \in {"idle", "read", "respond", "write", "raise"}
  /\ mission \in 0 .. MaxTrips
  /\ answers \in Seq(1 .. MaxTrips)
  /\ Len(answers) = cW
  /\ response \in [1 .. MaxTrips -> 0 .. MaxTrips]
  /\ strays \in 0 .. MaxStrays
  /\ tripPc # "idle" => mW \in 1 .. MaxTrips
  /\ botPc \in {"respond", "write", "raise"} => mission \in 1 .. MaxTrips

Init ==
  /\ Mission!Init
  /\ Completion!Init
  /\ onDevice = << >>
  /\ onHost = NOTHING
  /\ tripPc = "idle"
  /\ botPc = "idle"
  /\ mission = 0
  /\ answers = << >>
  /\ response = [t \in 1 .. MaxTrips |-> 0]
  /\ strays = 0

-----------------------------------------------------------------------------
(* CommandTrip *)

\* WriteFile: the mission reaches the bulk OUT endpoint.
TripWrites ==
  /\ tripPc = "idle"
  /\ Mission!WriteArrives
  /\ tripPc' = "write"
  /\ UNCHANGED <<completionVars, intrVars, response, botVars, strays>>

\* "WriteFile failed", or "Mission sent ..., waiting for response interrupt"
TripWritten ==
  /\ tripPc = "write"
  /\ mWst[mW] \in Mission!WriteCompleted
  /\ tripPc' = IF mWst[mW] = "success" THEN "interrupt" ELSE "idle"
  /\ UNCHANGED <<missionVars, completionVars, intrVars, response, botVars, strays>>

\* "Interrupt indicates error!", or "success! Will get response"
AfterInterrupt(value) == IF value = MISSION_SUCCEEDED THEN "told" ELSE "idle"

\* GET_INTERRUPT_MESSAGE finds an unread update, or waits for one.
TripTold ==
  /\ tripPc = "interrupt"
  /\ onHost # NOTHING
  /\ tripPc' = AfterInterrupt(onHost)
  /\ onHost' = NOTHING
  /\ UNCHANGED <<missionVars, completionVars, onDevice, response, botVars, strays>>

\* ReadFile: the read reaches the bulk IN endpoint.
TripReads ==
  /\ tripPc = "told"
  /\ Completion!ReadArrives
  /\ tripPc' = "read"
  /\ UNCHANGED <<missionVars, intrVars, response, botVars, strays>>

\* "ReadFile failed", or "Got a Response!!"
TripRead ==
  /\ tripPc = "read"
  /\ cRst[cR] \in Completion!ReadCompleted
  /\ tripPc' = "idle"
  /\ response' = IF cRst[cR] = "success" THEN [response EXCEPT ![mW] = answers[cGot[cR]]]
                 ELSE response
  /\ UNCHANGED <<missionVars, completionVars, intrVars, botVars, strays>>

\* The command is interrupted while it waits, which cancels what it waits for,
\* or too late to cancel it.
TripAborted ==
  /\ "abort" \in Faults
  /\ tripPc' = "idle"
  /\ \/ /\ \/ tripPc \in {"interrupt", "told"}
           \/ tripPc = "read" /\ cRst[cR] \in Completion!ReadCompleted
        /\ UNCHANGED completionVars
     \/ /\ tripPc = "read"
        /\ \E k \in DOMAIN cReads : cReads[k] = cR /\ Completion!CancelRead(k)
  /\ UNCHANGED <<missionVars, intrVars, response, botVars, strays>>

-----------------------------------------------------------------------------
(* AutoBot *)

\* The reads and writes of the back channel go through one sequential queue,
\* which dispatches none while the handler of another runs.
DefaultQueueIdle == mPullPc = "idle" /\ cPushPc = "idle"

\* "Waiting for new mission"
BotReads ==
  /\ botPc = "idle"
  /\ DefaultQueueIdle
  /\ Mission!ReadArrives
  /\ botPc' = "read"
  /\ UNCHANGED <<completionVars, intrVars, tripVars, mission, answers, strays>>

\* Faulty variant, used to test the properties: a failed read goes unnoticed.
BotRead_NoCheck ==
  /\ botPc = "read"
  /\ mRst[mR] \in Mission!ReadCompleted
  /\ mission' = mGot[mR]
  /\ botPc' = "respond"
  /\ UNCHANGED <<missionVars, completionVars, intrVars, tripVars, answers, strays>>

\* "ReadFile failed", or "Got a Mission!!"
BotRead ==
  /\ botPc = "read"
  /\ mRst[mR] \in Mission!ReadCompleted
  /\ IF mRst[mR] = "success"
     THEN mission' = mGot[mR] /\ botPc' = "respond"
     ELSE botPc' = "idle" /\ UNCHANGED mission
  /\ UNCHANGED <<missionVars, completionVars, intrVars, tripVars, answers, strays>>

\* "About to transmit response"
BotWrites ==
  /\ botPc = "respond"
  /\ DefaultQueueIdle
  /\ Completion!WriteArrives
  /\ answers' = Append(answers, mission)
  /\ botPc' = "write"
  /\ UNCHANGED <<missionVars, intrVars, tripVars, mission, strays>>

\* Faulty variant: a failed write is announced like any other.
AfterWrite_Any(status) == "raise"

\* "WriteFile failed", or "Response stored, will generate interrupt!"
AfterWrite(status) == IF status = "success" THEN "raise" ELSE "idle"

BotWritten ==
  /\ botPc = "write"
  /\ cWst[cW] \in Completion!WriteCompleted
  /\ botPc' = AfterWrite(cWst[cW])
  /\ UNCHANGED <<missionVars, completionVars, intrVars, tripVars, mission, answers, strays>>

\* Faulty variant: the response is stored again when the interrupt fails.
AfterRaiseFailed_Repeats == "respond"

\* "DeviceIoControl failed": on to the next mission.
AfterRaiseFailed == "idle"

\* IOCTL_UDEFX2_GENERATE_INTERRUPT: the interrupt finds a URB, or is cached,
\* where it may replace an older one.
GenerateInterrupt(value) ==
  \/ onDevice' = Append(onDevice, value)
  \/ \E k \in DOMAIN onDevice : onDevice' = Append(RemoveAt(onDevice, k), value)

BotRaises ==
  /\ botPc = "raise"
  /\ DefaultQueueIdle
  /\ \/ /\ GenerateInterrupt(MISSION_SUCCEEDED)
        /\ botPc' = "idle"
     \/ /\ "ioctl" \in Faults
        /\ botPc' = AfterRaiseFailed
        /\ UNCHANGED onDevice
  /\ UNCHANGED <<missionVars, completionVars, onHost, tripVars, mission, answers, strays>>

\* The agent is interrupted, and started again: a waiting read is cancelled,
\* and the mission it worked on forgotten.
BotAborted ==
  /\ "abort" \in Faults
  /\ botPc' = "idle"
  /\ \/ /\ botPc \in {"respond", "raise"}
        /\ UNCHANGED missionVars
     \/ /\ botPc = "read"
        /\ \E k \in DOMAIN mReads : mReads[k] = mR /\ Mission!CancelRead(k)
  /\ UNCHANGED <<completionVars, intrVars, tripVars, mission, answers, strays>>

-----------------------------------------------------------------------------
(* The queues and the interrupt path *)

MissionStep ==
  /\ Mission!PushStep \/ Mission!PullStep
  /\ UNCHANGED <<completionVars, intrVars, tripVars, botVars, strays>>

CompletionStep ==
  /\ Completion!PushStep \/ Completion!PullStep
  /\ UNCHANGED <<missionVars, intrVars, tripVars, botVars, strays>>

\* An interrupt is fetched by the host's reader and replaces the one before.
Deliver ==
  /\ \E k \in DOMAIN onDevice :
       /\ onDevice' = RemoveAt(onDevice, k)
       /\ onHost' = onDevice[k]
  /\ UNCHANGED <<missionVars, completionVars, tripVars, botVars, strays>>

Lose ==
  /\ "lost" \in Faults
  /\ \E k \in DOMAIN onDevice : onDevice' = RemoveAt(onDevice, k)
  /\ UNCHANGED <<missionVars, completionVars, onHost, tripVars, botVars, strays>>

\* GenerateDeviceInterrupt, from another console
StrayInterrupt ==
  /\ strays < MaxStrays
  /\ strays' = strays + 1
  /\ DefaultQueueIdle
  /\ \E value \in Values : GenerateInterrupt(value)
  /\ UNCHANGED <<missionVars, completionVars, onHost, tripVars, botVars>>

\* GetDeviceInterrupt, from another console, takes an unread interrupt.
OtherConsoleTold ==
  /\ "lost" \in Faults
  /\ onHost # NOTHING
  /\ onHost' = NOTHING
  /\ UNCHANGED <<missionVars, completionVars, onDevice, tripVars, botVars, strays>>

-----------------------------------------------------------------------------
TripStep == TripWritten \/ TripTold \/ TripReads \/ TripRead
BotStep  == BotReads \/ BotRead \/ BotWrites \/ BotWritten \/ BotRaises

Next ==
  \/ TripWrites
  \/ TripStep
  \/ TripAborted
  \/ BotStep
  \/ BotAborted
  \/ MissionStep
  \/ CompletionStep
  \/ Deliver
  \/ Lose
  \/ StrayInterrupt
  \/ OtherConsoleTold

\* Commands and handlers go on while they can, and the host's reader fetches
\* interrupts.  Nobody need run another -c.
Fairness ==
  /\ WF_vars(TripStep)
  /\ WF_vars(BotStep)
  /\ WF_vars(MissionStep)
  /\ WF_vars(CompletionStep)
  /\ WF_vars(Deliver)

Spec == Init /\ [][Next]_vars /\ Fairness

-----------------------------------------------------------------------------
(* Properties *)

\* The trips before t that were given no response.
FailedBefore(t) == {u \in 1 .. (t - 1) : response[u] = 0}

\* A trip that failed may leave the response to its mission behind, which a
\* later trip then reads for its own: not always the next one, as missions
\* overtake each other (WRQueue).  That is all that can go wrong with the
\* pairing: a trip is given the response to its own mission if every trip
\* before it was given one, and no response is given to two trips.
OwnResponse ==
  \A t \in 1 .. MaxTrips : response[t] # 0 =>
    /\ FailedBefore(t) = {} => response[t] = t
    /\ \A u \in 1 .. MaxTrips : response[u] = response[t] => u = t

\* Two handlers that cross leave a read beside its data (WRQueue), but not
\* here: the agent raises the interrupt after its response is stored, so a
\* trip that was told by the agent gets a response or an error.  Interrupts
\* from another console can come too early.
ToldGetsResponse == tripPc = "read" /\ strays = 0 ~> tripPc # "read"

\* "waits for an interrupt on INTERRUPT/IN", "finally then reads USB/IN for
\* response to the mission" (README.md:41-42).
TripEnds == tripPc = "interrupt" ~> tripPc # "interrupt"
==============================================================================
