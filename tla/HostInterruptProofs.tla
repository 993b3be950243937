-------------------------- MODULE HostInterruptProofs --------------------------
(***************************************************************************)
(* Interrupts and waiting IOCTLs of the host driver are accounted for, for *)
(* any numbers of interrupts, IOCTLs and reads of the continuous reader.   *)
(***************************************************************************)
EXTENDS HostInterrupt, QueueLemmas

IoctlPc == {"new", "gate", "complete", "forward", "parked", "taken", "done"}

LEMMA InterruptsArePositive ==
  /\ 0 \notin Interrupts
  /\ \A n \in 0 .. MaxInterrupts : 1 .. n \subseteq Interrupts
  /\ \A n \in 0 .. MaxInterrupts : n < MaxInterrupts =>
       n + 1 \in Interrupts /\ n + 1 \in 0 .. MaxInterrupts /\ n + 1 \notin 1 .. n
       /\ 1 .. n + 1 = (1 .. n) \cup {n + 1}
BY BoundsAssumption DEF Interrupts

LEMMA CountedInRange ==
  ASSUME NEW n \in 0 .. MAX_CACHED_INTR_UPDATES
  PROVE  Counted(n) \in 0 .. MAX_CACHED_INTR_UPDATES /\ Counted(n) # 0
BY CacheAssumption DEF Counted

-----------------------------------------------------------------------------
(* Types *)

\* What carries an interrupt has one.
Carried ==
  /\ \A q \in Ioctls : newData[q] # 0 <=> ioctl[q] = "complete"
  /\ \A r \in Readers : reader[r].flags # 0 <=>
                        reader[r].pc # "idle" /\ reader[r].status = "success"

Typed == TypeOK /\ Carried

LEMMA TypedInit == Init => Typed
<1>1. SUFFICES ASSUME Init PROVE Typed
  OBVIOUS
<1>2. Idle \in Run
  BY DEF Idle, Run, ReaderStatus
<1>3. MAX_CACHED_INTR_UPDATES \in Nat /\ MaxInterrupts \in Nat
  BY CacheAssumption, BoundsAssumption
<1>4. InterruptMsgQueue \in Seq(Ioctls)
  BY <1>1, EmptySeq DEF Init
<1>5. TypeOK
  BY <1>1, <1>2, <1>3, <1>4 DEF Init, TypeOK
<1>6. Carried
  BY <1>1 DEF Init, Carried, Idle
<1>7. QED
  BY <1>5, <1>6 DEF Typed

LEMMA CompleteTypes ==
  ASSUME Typed, NEW q \in Ioctls, NEW status, NEW v \in Interrupts \cup {0},
         status = "success" => v # 0, OsrCompleteInterruptRequest(q, status, v)
  PROVE  /\ ioctl' = [ioctl EXCEPT ![q] = "done"]
         /\ ioctl' \in [Ioctls -> IoctlPc]
         /\ answer' \in [Ioctls -> Interrupts \cup {0}]
         /\ dropped' \in SUBSET Interrupts
<1>1. /\ ioctl \in [Ioctls -> IoctlPc]
      /\ answer \in [Ioctls -> Interrupts \cup {0}]
      /\ dropped \in SUBSET Interrupts
  BY DEF Typed, TypeOK, IoctlPc
<1>2. ioctl' = [ioctl EXCEPT ![q] = "done"]
  BY DEF OsrCompleteInterruptRequest
<1>3. ioctl' \in [Ioctls -> IoctlPc]
  BY <1>1, <1>2 DEF IoctlPc
<1>4. answer' \in [Ioctls -> Interrupts \cup {0}]
  BY <1>1 DEF OsrCompleteInterruptRequest
<1>5. dropped' \in SUBSET Interrupts
  BY <1>1 DEF OsrCompleteInterruptRequest
<1>6. QED
  BY <1>2, <1>3, <1>4, <1>5

LEMMA TypedIoctl ==
  ASSUME Typed, NEW q \in Ioctls, IssueIoctl(q) \/ IoctlStep(q)
  PROVE  Typed'
<1>1. TypeOK /\ Carried
  BY DEF Typed
<1>2. CASE IssueIoctl(q)
  BY <1>1, <1>2 DEF Typed, TypeOK, Carried, IssueIoctl, cacheVars, lostVars
<1>3. CASE IoctlGate(q)
  <2>1. UNCHANGED <<InterruptMsgQueue, power, nIntr, reader, answer, lostVars>>
    BY <1>3 DEF IoctlGate
  <2>2. newData' \in [Ioctls -> Interrupts \cup {0}] /\ ioctl' \in [Ioctls -> IoctlPc]
    BY <1>1, <1>3 DEF TypeOK, IoctlGate, IoctlPc
  <2>3. latestStatus' = 0 /\ numUnreadUpdates' = 0 /\ 0 \in 0 .. MAX_CACHED_INTR_UPDATES
    BY <1>3, CacheAssumption DEF IoctlGate
  <2>4. numUnreadUpdates > 0 <=> latestStatus # 0
    BY <1>1, CacheAssumption DEF TypeOK
  <2>5. \A p \in Ioctls : newData'[p] # 0 <=> ioctl'[p] = "complete"
    BY <1>1, <1>3, <2>4 DEF TypeOK, Carried, IoctlGate
  <2>6. QED
    BY <1>1, <2>1, <2>2, <2>3, <2>5 DEF Typed, TypeOK, Carried, IoctlPc, lostVars
<1>4. CASE IoctlComplete(q)
  <2>1. UNCHANGED <<InterruptMsgQueue, cacheVars, power, nIntr, reader, folded, cleared, erased>>
    BY <1>4 DEF IoctlComplete
  <2>2. newData[q] \in Interrupts \cup {0} /\ newData[q] # 0
    BY <1>1, <1>4 DEF TypeOK, Carried, IoctlComplete
  <2>3. /\ ioctl' = [ioctl EXCEPT ![q] = "done"]
        /\ ioctl' \in [Ioctls -> IoctlPc]
        /\ answer' \in [Ioctls -> Interrupts \cup {0}]
        /\ dropped' \in SUBSET Interrupts
    BY <1>4, <2>2, CompleteTypes DEF IoctlComplete
  <2>4. newData' = [newData EXCEPT ![q] = 0]
    BY <1>4 DEF IoctlComplete
  <2>5. newData' \in [Ioctls -> Interrupts \cup {0}]
    BY <1>1, <2>4 DEF TypeOK
  <2>6. Carried'
    BY <1>1, <2>1, <2>3, <2>4 DEF TypeOK, Carried
  <2>7. QED
    BY <1>1, <2>1, <2>3, <2>5, <2>6 DEF Typed, TypeOK, IoctlPc, cacheVars
<1>5. CASE IoctlForward(q)
  <2>1. UNCHANGED <<cacheVars, power, nIntr, reader, newData, answer, lostVars>>
    BY <1>5 DEF IoctlForward
  <2>2. InterruptMsgQueue' \in Seq(Ioctls)
    BY <1>1, <1>5, AppendProperties DEF TypeOK, IoctlForward
  <2>3. ioctl' \in [Ioctls -> IoctlPc]
    BY <1>1, <1>5 DEF TypeOK, IoctlForward, IoctlPc
  <2>4. Carried'
    BY <1>1, <1>5, <2>1 DEF TypeOK, Carried, IoctlForward
  <2>5. QED
    BY <1>1, <2>1, <2>2, <2>3, <2>4 DEF Typed, TypeOK, IoctlPc, cacheVars, lostVars
<1>6. QED
  BY <1>2, <1>3, <1>4, <1>5 DEF IoctlStep

LEMMA TypedCancel ==
  ASSUME Typed, IoctlsOwnedOnce, NEW i \in DOMAIN InterruptMsgQueue, CancelIoctl(i)
  PROVE  Typed'
<1>1. TypeOK /\ Carried
  BY DEF Typed
<1>2. UNCHANGED <<cacheVars, power, nIntr, reader, newData, answer, lostVars>>
  BY DEF CancelIoctl
<1>3. InterruptMsgQueue[i] \in Ioctls /\ ioctl[InterruptMsgQueue[i]] = "parked"
  BY <1>1, ElementOfSeq DEF TypeOK, Range, IoctlsOwnedOnce
<1>4. InterruptMsgQueue' \in Seq(Ioctls)
  <2>1. InterruptMsgQueue \in Seq(Ioctls)
    BY <1>1 DEF TypeOK
  <2>2. RemoveAt(InterruptMsgQueue, i) \in Seq(Ioctls)
    BY <2>1, RemoveAtProperties
  <2>3. QED
    BY <2>2 DEF CancelIoctl
<1>5. ioctl' = [ioctl EXCEPT ![InterruptMsgQueue[i]] = "done"]
  BY DEF CancelIoctl
<1>6. ioctl' \in [Ioctls -> IoctlPc]
  BY <1>1, <1>5 DEF TypeOK, IoctlPc
<1>7. Carried'
  BY <1>1, <1>2, <1>3, <1>5 DEF TypeOK, Carried
<1>8. QED
  BY <1>1, <1>2, <1>4, <1>6, <1>7 DEF Typed, TypeOK, IoctlPc, cacheVars, lostVars

\* How a step changes the run of one read.
RunPc == {"idle", "retrieve", "update", "complete", "drain"}

Moves(r, pc, request) ==
  /\ reader' \in [Readers -> Run]
  /\ reader'[r].pc = pc /\ reader'[r].request = request
  /\ reader'[r].status = reader[r].status /\ reader'[r].flags = reader[r].flags
  /\ \A s \in Readers : s # r => reader'[s] = reader[s]

Ends(r) ==
  /\ reader' \in [Readers -> Run]
  /\ reader'[r].pc = "idle" /\ reader'[r].request = {}
  /\ reader'[r].status = "success" /\ reader'[r].flags = 0
  /\ \A s \in Readers : s # r => reader'[s] = reader[s]

Enters(r, status, flags) ==
  /\ reader' \in [Readers -> Run]
  /\ reader'[r].pc = "retrieve" /\ reader'[r].request = {}
  /\ reader'[r].status = status /\ reader'[r].flags = flags
  /\ \A s \in Readers : s # r => reader'[s] = reader[s]

LEMMA RunMoves ==
  ASSUME TypeOK, NEW r \in Readers, NEW pc \in RunPc, NEW request \in SUBSET Ioctls,
         reader' = [reader EXCEPT ![r].pc = pc, ![r].request = request]
  PROVE  Moves(r, pc, request)
<1>1. reader \in [Readers -> Run] /\ reader[r] \in Run
  BY DEF TypeOK
<1>2. [reader[r] EXCEPT !.pc = pc, !.request = request] \in Run
  BY <1>1 DEF Run, RunPc
<1>3. reader' = [reader EXCEPT ![r] = [reader[r] EXCEPT !.pc = pc, !.request = request]]
  BY <1>1
<1>4. QED
  BY <1>1, <1>2, <1>3 DEF Run, Moves

LEMMA RunMovesOn ==
  ASSUME TypeOK, NEW r \in Readers, NEW pc \in RunPc,
         reader' = [reader EXCEPT ![r] = [@ EXCEPT !.pc = pc]]
  PROVE  Moves(r, pc, reader[r].request)
<1>1. reader \in [Readers -> Run] /\ reader[r] \in Run
  BY DEF TypeOK
<1>2. [reader[r] EXCEPT !.pc = pc] \in Run
  BY <1>1 DEF Run, RunPc
<1>3. reader' = [reader EXCEPT ![r] = [reader[r] EXCEPT !.pc = pc]]
  BY <1>1
<1>4. QED
  BY <1>1, <1>2, <1>3 DEF Run, Moves

LEMMA RunEnds ==
  ASSUME TypeOK, NEW r \in Readers, reader' = [reader EXCEPT ![r] = Idle]
  PROVE  Ends(r)
BY DEF TypeOK, Run, ReaderStatus, Idle, Ends

LEMMA RunEnters ==
  ASSUME TypeOK, NEW r \in Readers, NEW status \in ReaderStatus,
         NEW flags \in Interrupts \cup {0}, Enter(r, status, flags)
  PROVE  Enters(r, status, flags)
BY DEF TypeOK, Run, ReaderStatus, Enter, Enters

LEMMA RetrieveMoves ==
  ASSUME TypeOK, NEW r \in Readers, NEW found \in RunPc, NEW none \in RunPc,
         Retrieve(r, found, none)
  PROVE  \/ /\ InterruptMsgQueue # << >>
            /\ Moves(r, found, {Head(InterruptMsgQueue)})
            /\ ioctl' = [ioctl EXCEPT ![Head(InterruptMsgQueue)] = "taken"]
            /\ InterruptMsgQueue' = Tail(InterruptMsgQueue)
         \/ /\ InterruptMsgQueue = << >>
            /\ IF none = "idle" THEN Ends(r) ELSE Moves(r, none, reader[r].request)
            /\ UNCHANGED <<InterruptMsgQueue, ioctl>>
<1>1. CASE InterruptMsgQueue # << >>
  <2>1. {Head(InterruptMsgQueue)} \in SUBSET Ioctls
    BY <1>1, HeadTailProperties DEF TypeOK
  <2>2. reader' = [reader EXCEPT ![r].pc = found, ![r].request = {Head(InterruptMsgQueue)}]
    BY <1>1 DEF Retrieve
  <2>3. Moves(r, found, {Head(InterruptMsgQueue)})
    BY <2>1, <2>2, RunMoves
  <2>4. QED
    BY <1>1, <2>3 DEF Retrieve
<1>2. CASE InterruptMsgQueue = << >>
  <2>1. CASE none = "idle"
    BY <1>2, <2>1, RunEnds DEF Retrieve
  <2>2. CASE none # "idle"
    BY <1>2, <2>2, RunMovesOn DEF Retrieve
  <2>3. QED
    BY <2>1, <2>2
<1>3. QED
  BY <1>1, <1>2

\* The first in the queue is a waiting IOCTL.
LEMMA HeadIsParked ==
  ASSUME TypeOK, IoctlsOwnedOnce, InterruptMsgQueue # << >>
  PROVE  /\ Head(InterruptMsgQueue) \in Ioctls
         /\ ioctl[Head(InterruptMsgQueue)] = "parked"
         /\ Tail(InterruptMsgQueue) \in Seq(Ioctls)
<1>1. InterruptMsgQueue \in Seq(Ioctls) /\ IsInjective(InterruptMsgQueue)
  BY DEF TypeOK, IoctlsOwnedOnce
<1>2. /\ Head(InterruptMsgQueue) \in Ioctls
      /\ Tail(InterruptMsgQueue) \in Seq(Ioctls)
  BY <1>1, HeadTailProperties
<1>3. Head(InterruptMsgQueue) \in Range(InterruptMsgQueue)
  BY <1>1, TailRange
<1>4. QED
  BY <1>2, <1>3 DEF IoctlsOwnedOnce

LEMMA TypedReader ==
  ASSUME Typed, IoctlsOwnedOnce, NEW r \in Readers, ReaderStep(r)
  PROVE  Typed'
<1>1. TypeOK /\ Carried
  BY DEF Typed
<1>2. InterruptMsgQueue \in Seq(Ioctls) /\ ioctl \in [Ioctls -> IoctlPc]
  BY <1>1 DEF TypeOK, IoctlPc
<1>3. InterruptMsgQueue # << >> =>
        /\ Head(InterruptMsgQueue) \in Ioctls
        /\ ioctl[Head(InterruptMsgQueue)] = "parked"
        /\ Tail(InterruptMsgQueue) \in Seq(Ioctls)
  BY <1>1, HeadIsParked
<1>4. ASSUME NEW found \in RunPc \ {"idle"}, NEW none \in RunPc, Retrieve(r, found, none),
             UNCHANGED <<cacheVars, power, nIntr, newData, answer, lostVars>>,
             reader[r].pc # "idle"
      PROVE  Typed'
  <2>1. CASE InterruptMsgQueue # << >>
    <3>1. /\ Moves(r, found, {Head(InterruptMsgQueue)})
          /\ ioctl' = [ioctl EXCEPT ![Head(InterruptMsgQueue)] = "taken"]
          /\ InterruptMsgQueue' = Tail(InterruptMsgQueue)
      BY <1>1, <1>4, <2>1, RetrieveMoves
    <3>2. ioctl' \in [Ioctls -> IoctlPc]
      BY <1>2, <3>1 DEF IoctlPc
    <3>3. \A q \in Ioctls : newData'[q] # 0 <=> ioctl'[q] = "complete"
      BY <1>1, <1>2, <1>3, <1>4, <2>1, <3>1 DEF Carried
    <3>4. \A s \in Readers : reader'[s].flags # 0 <=>
                             reader'[s].pc # "idle" /\ reader'[s].status = "success"
      BY <1>1, <1>4, <3>1 DEF Carried, Moves
    <3>5. reader' \in [Readers -> Run] /\ InterruptMsgQueue' \in Seq(Ioctls)
      BY <1>3, <2>1, <3>1 DEF Moves
    <3>6. QED
      BY <1>1, <1>4, <3>2, <3>3, <3>4, <3>5
      DEF Typed, TypeOK, Carried, IoctlPc, cacheVars, lostVars
  <2>2. CASE InterruptMsgQueue = << >>
    <3>1. /\ IF none = "idle" THEN Ends(r) ELSE Moves(r, none, reader[r].request)
          /\ UNCHANGED <<InterruptMsgQueue, ioctl>>
      BY <1>1, <1>4, <2>2, RetrieveMoves
    <3>2. reader' \in [Readers -> Run]
      BY <3>1 DEF Moves, Ends
    <3>3. \A s \in Readers : reader'[s].flags # 0 <=>
                             reader'[s].pc # "idle" /\ reader'[s].status = "success"
      BY <1>1, <1>4, <3>1 DEF Carried, Moves, Ends
    <3>4. QED
      BY <1>1, <1>4, <3>1, <3>2, <3>3 DEF Typed, TypeOK, Carried, cacheVars, lostVars
  <2>3. QED
    BY <2>1, <2>2
<1>5. CASE ReaderRetrieve(r)
  BY <1>4, <1>5 DEF ReaderRetrieve, RunPc
<1>6. CASE ReaderDrain(r)
  BY <1>4, <1>6 DEF ReaderDrain, RunPc
<1>7. CASE ReaderUpdate(r)
  <2>1. UNCHANGED <<InterruptMsgQueue, power, nIntr, ioctlVars, dropped>>
        /\ reader[r].pc = "update"
    BY <1>7 DEF ReaderUpdate
  <2>2. /\ reader' \in [Readers -> Run]
        /\ \A s \in Readers : reader'[s].flags # 0 <=>
                              reader'[s].pc # "idle" /\ reader'[s].status = "success"
    <3>1. Ends(r) \/ Moves(r, "complete", reader[r].request)
      <4>1. CASE reader[r].request = {}
        BY <1>1, <1>7, <4>1, RunEnds DEF ReaderUpdate
      <4>2. CASE reader[r].request # {}
        BY <1>1, <1>7, <4>2, RunMovesOn DEF ReaderUpdate, RunPc
      <4>3. QED
        BY <4>1, <4>2
    <3>2. QED
      BY <1>1, <2>1, <3>1 DEF Carried, Moves, Ends
  <2>3. reader[r].flags \in Interrupts \cup {0}
        /\ (reader[r].status = "success" => reader[r].flags # 0)
    BY <1>1, <2>1 DEF TypeOK, Carried, Run
  <2>4. 0 \in 0 .. MAX_CACHED_INTR_UPDATES
        /\ Counted(numUnreadUpdates) \in 0 .. MAX_CACHED_INTR_UPDATES
        /\ Counted(numUnreadUpdates) # 0
    BY <1>1, CacheAssumption, CountedInRange DEF TypeOK
  <2>5. Cached \subseteq Interrupts
    BY <1>1 DEF TypeOK, Cached
  <2>6. /\ latestStatus' \in Interrupts \cup {0}
        /\ numUnreadUpdates' \in 0 .. MAX_CACHED_INTR_UPDATES
        /\ latestStatus' = 0 <=> numUnreadUpdates' = 0
    BY <1>1, <1>7, <2>3, <2>4
    DEF TypeOK, ReaderUpdate, UpdateConsumed, UpdateCached, UpdateErased, UpdateCancelled, cacheVars
  <2>7. folded' \in SUBSET Interrupts /\ erased' \in SUBSET Interrupts
    BY <1>1, <1>7, <2>5
    DEF TypeOK, ReaderUpdate, UpdateConsumed, UpdateCached, UpdateErased, UpdateCancelled
  <2>8. cleared' \in SUBSET (Interrupts \X Interrupts)
    BY <1>1, <1>7, <2>3, <2>5
    DEF TypeOK, ReaderUpdate, UpdateConsumed, UpdateCached, UpdateErased, UpdateCancelled
  <2>9. QED
    BY <1>1, <2>1, <2>2, <2>6, <2>7, <2>8 DEF Typed, TypeOK, Carried, ioctlVars
<1>8. CASE ReaderComplete(r)
  <2>1. PICK q \in reader[r].request :
          OsrCompleteInterruptRequest(q, reader[r].status, reader[r].flags)
    BY <1>8 DEF ReaderComplete
  <2>2. /\ UNCHANGED <<InterruptMsgQueue, cacheVars, power, nIntr, newData, folded, cleared,
                       erased>>
        /\ reader[r].pc = "complete"
        /\ reader' = [reader EXCEPT ![r].pc = "drain", ![r].request = {}]
    BY <1>8 DEF ReaderComplete
  <2>3. /\ q \in Ioctls /\ ioctl[q] = "taken"
        /\ reader[r].flags \in Interrupts \cup {0}
        /\ reader[r].status = "success" => reader[r].flags # 0
    BY <1>1, <2>2 DEF TypeOK, Carried, Run, IoctlsOwnedOnce
  <2>4. /\ ioctl' = [ioctl EXCEPT ![q] = "done"]
        /\ ioctl' \in [Ioctls -> IoctlPc]
        /\ answer' \in [Ioctls -> Interrupts \cup {0}]
        /\ dropped' \in SUBSET Interrupts
    BY <2>1, <2>3, CompleteTypes
  <2>5. Moves(r, "drain", {})
    BY <1>1, <2>2, RunMoves DEF RunPc
  <2>6. Carried'
    BY <1>1, <1>2, <2>2, <2>3, <2>4, <2>5 DEF Carried, Moves
  <2>7. QED
    BY <1>1, <2>2, <2>4, <2>5, <2>6 DEF Typed, TypeOK, IoctlPc, Moves, cacheVars
<1>9. QED
  BY <1>5, <1>6, <1>7, <1>8 DEF ReaderStep

\* The framework calls the driver.
LEMMA TypedPower ==
  ASSUME Typed, power \in {"off", "failed"} => AllIdle,
         \/ \E r \in Readers : ReadComplete(r) \/ ReadersFailed(r) \/ SelfManagedIoFlush(r)
         \/ D0Entry
         \/ D0Exit
  PROVE  Typed'
<1>1. TypeOK /\ Carried
  BY DEF Typed
<1>2. CASE D0Entry \/ D0Exit
  BY <1>1, <1>2 DEF Typed, TypeOK, Carried, D0Entry, D0Exit, cacheVars, ioctlVars, lostVars
<1>3. ASSUME NEW r \in Readers, ReadComplete(r) PROVE Typed'
  <2>1. UNCHANGED <<InterruptMsgQueue, cacheVars, power, ioctlVars, lostVars>>
    BY <1>3 DEF ReadComplete
  <2>2. CASE UNCHANGED <<nIntr, reader>>
    BY <1>1, <2>1, <2>2 DEF Typed, TypeOK, Carried, cacheVars, ioctlVars, lostVars
  <2>3. CASE nIntr < MaxInterrupts /\ nIntr' = nIntr + 1 /\ Enter(r, "success", nIntr + 1)
    <3>1. nIntr + 1 \in Interrupts /\ nIntr + 1 \in 0 .. MaxInterrupts /\ nIntr + 1 # 0
      BY <1>1, <2>3, InterruptsArePositive DEF TypeOK
    <3>2. Enters(r, "success", nIntr + 1)
      BY <1>1, <2>3, <3>1, RunEnters DEF ReaderStatus
    <3>3. Carried'
      BY <1>1, <2>1, <3>1, <3>2 DEF Carried, Enters, ioctlVars
    <3>4. QED
      BY <1>1, <2>1, <2>3, <3>1, <3>2, <3>3
      DEF Typed, TypeOK, Enters, cacheVars, ioctlVars, lostVars
  <2>4. QED
    BY <1>3, <2>2, <2>3 DEF ReadComplete
<1>4. ASSUME NEW r \in Readers, ReadersFailed(r) \/ SelfManagedIoFlush(r) PROVE Typed'
  <2>1. /\ UNCHANGED <<InterruptMsgQueue, cacheVars, nIntr, ioctlVars, lostVars>>
        /\ power' \in {"D0", "removed"}
    BY <1>4 DEF ReadersFailed, SelfManagedIoFlush
  <2>2. PICK status \in ReaderStatus : status # "success" /\ Enter(r, status, 0)
    BY <1>4 DEF ReadersFailed, SelfManagedIoFlush, ReaderStatus
  <2>3. Enters(r, status, 0)
    BY <1>1, <2>2, RunEnters
  <2>4. Carried'
    BY <1>1, <2>1, <2>2, <2>3 DEF Carried, Enters, ioctlVars
  <2>5. QED
    BY <1>1, <2>1, <2>3, <2>4 DEF Typed, TypeOK, Enters, cacheVars, ioctlVars, lostVars
<1>5. QED
  BY <1>2, <1>3, <1>4

-----------------------------------------------------------------------------
(* Who holds a waiting IOCTL *)

\* A run of OsrUsbIoctlGetInterruptMessage holds one request at most, and has
\* one exactly where it completes it.
Hands ==
  \A r \in Readers :
    /\ reader[r].request = {} \/ \E q \in Ioctls : reader[r].request = {q}
    /\ reader[r].pc \in {"idle", "retrieve", "drain"} => reader[r].request = {}
    /\ reader[r].pc = "complete" => reader[r].request # {}

Owned == IoctlsOwnedOnce /\ Hands

LEMMA OwnedInit == Init => Owned
<1>1. SUFFICES ASSUME Init PROVE Owned
  OBVIOUS
<1>2. IsInjective(InterruptMsgQueue) /\ Range(InterruptMsgQueue) = {}
  BY <1>1 DEF Init, IsInjective, Range
<1>3. \A r \in Readers : reader[r].request = {} /\ reader[r].pc = "idle"
  BY <1>1 DEF Init, Idle
<1>4. \A q \in Ioctls : ioctl[q] = "new"
  BY <1>1 DEF Init
<1>5. QED
  BY <1>2, <1>3, <1>4 DEF Owned, IoctlsOwnedOnce, Hands

\* An IOCTL that is its handler's own, before and after, concerns nobody else.
LEMMA OwnIoctl ==
  ASSUME Typed, Owned, NEW q \in Ioctls, UNCHANGED <<InterruptMsgQueue, reader>>,
         ioctl[q] \notin {"parked", "taken"},
         NEW to, to \notin {"parked", "taken"}, ioctl' = [ioctl EXCEPT ![q] = to]
  PROVE  Owned'
<1>1. ioctl \in [Ioctls -> IoctlPc]
  BY DEF Typed, TypeOK, IoctlPc
<1>2. Hands'
  BY DEF Owned, Hands
<1>3. IoctlsOwnedOnce'
  BY <1>1 DEF Owned, IoctlsOwnedOnce
<1>4. QED
  BY <1>2, <1>3 DEF Owned

LEMMA OwnedIoctl ==
  ASSUME Typed, Owned, NEW q \in Ioctls, IssueIoctl(q) \/ IoctlStep(q)
  PROVE  Owned'
<1>1. /\ ioctl \in [Ioctls -> IoctlPc]
      /\ InterruptMsgQueue \in Seq(Ioctls)
  BY DEF Typed, TypeOK, IoctlPc
<1>2. CASE IssueIoctl(q)
  BY <1>2, OwnIoctl DEF IssueIoctl
<1>3. CASE IoctlGate(q)
  <2>1. PICK to \in {"complete", "forward"} : ioctl' = [ioctl EXCEPT ![q] = to]
    BY <1>3 DEF IoctlGate
  <2>2. QED
    BY <1>3, <2>1, OwnIoctl DEF IoctlGate
<1>4. CASE IoctlComplete(q)
  BY <1>4, OwnIoctl DEF IoctlComplete, OsrCompleteInterruptRequest
<1>5. CASE IoctlForward(q)
  <2>1. ioctl[q] = "forward" /\ UNCHANGED reader
    BY <1>5 DEF IoctlForward
  <2>2. CASE ioctl' = [ioctl EXCEPT ![q] = "done"] /\ UNCHANGED InterruptMsgQueue
    BY <2>1, <2>2, OwnIoctl
  <2>3. CASE /\ InterruptMsgQueue' = Append(InterruptMsgQueue, q)
             /\ ioctl' = [ioctl EXCEPT ![q] = "parked"]
    <3>1. q \notin Range(InterruptMsgQueue) /\ IsInjective(InterruptMsgQueue)
      BY <2>1 DEF Owned, IoctlsOwnedOnce
    <3>2. /\ Range(InterruptMsgQueue') = Range(InterruptMsgQueue) \cup {q}
          /\ IsInjective(InterruptMsgQueue')
      BY <1>1, <2>3, <3>1, AppendRange
    <3>3. Hands'
      BY <2>1 DEF Owned, Hands
    <3>4. IoctlsOwnedOnce'
      BY <1>1, <2>1, <2>3, <3>2 DEF Owned, IoctlsOwnedOnce
    <3>5. QED
      BY <3>3, <3>4 DEF Owned
  <2>4. QED
    BY <1>5, <2>2, <2>3 DEF IoctlForward
<1>6. QED
  BY <1>2, <1>3, <1>4, <1>5 DEF IoctlStep

LEMMA OwnedCancel ==
  ASSUME Typed, Owned, NEW i \in DOMAIN InterruptMsgQueue, CancelIoctl(i)
  PROVE  Owned'
<1>1. /\ ioctl \in [Ioctls -> IoctlPc]
      /\ InterruptMsgQueue \in Seq(Ioctls)
      /\ IsInjective(InterruptMsgQueue)
  BY DEF Typed, TypeOK, IoctlPc, Owned, IoctlsOwnedOnce
<1>2. InterruptMsgQueue[i] \in Ioctls /\ ioctl[InterruptMsgQueue[i]] = "parked"
  BY <1>1, ElementOfSeq DEF Range, Owned, IoctlsOwnedOnce
<1>3. /\ Range(InterruptMsgQueue') = Range(InterruptMsgQueue) \ {InterruptMsgQueue[i]}
      /\ IsInjective(InterruptMsgQueue')
  BY <1>1, RemoveAtRange DEF CancelIoctl
<1>4. ioctl' = [ioctl EXCEPT ![InterruptMsgQueue[i]] = "done"] /\ UNCHANGED reader
  BY DEF CancelIoctl
<1>5. Hands'
  BY <1>4 DEF Owned, Hands
<1>6. IoctlsOwnedOnce'
  BY <1>1, <1>2, <1>3, <1>4 DEF Owned, IoctlsOwnedOnce
<1>7. QED
  BY <1>5, <1>6 DEF Owned

\* A run takes the first waiter, or finds none.
LEMMA OwnedRetrieve ==
  ASSUME Typed, Owned, NEW r \in Readers, NEW found \in {"update", "complete"},
         NEW none \in {"update", "idle"}, reader[r].pc \in {"retrieve", "drain"},
         Retrieve(r, found, none)
  PROVE  Owned'
<1>1. /\ ioctl \in [Ioctls -> IoctlPc]
      /\ InterruptMsgQueue \in Seq(Ioctls)
      /\ IsInjective(InterruptMsgQueue)
      /\ TypeOK
  BY DEF Typed, TypeOK, IoctlPc, Owned, IoctlsOwnedOnce
<1>2. reader[r].request = {}
  BY DEF Owned, Hands
<1>3. found \in RunPc /\ none \in RunPc
  BY DEF RunPc
<1>4. CASE InterruptMsgQueue # << >>
  <2>1. /\ Moves(r, found, {Head(InterruptMsgQueue)})
        /\ ioctl' = [ioctl EXCEPT ![Head(InterruptMsgQueue)] = "taken"]
        /\ InterruptMsgQueue' = Tail(InterruptMsgQueue)
    BY <1>1, <1>3, <1>4, RetrieveMoves
  <2>2. /\ Head(InterruptMsgQueue) \in Ioctls
        /\ Head(InterruptMsgQueue) \in Range(InterruptMsgQueue)
        /\ Range(InterruptMsgQueue') = Range(InterruptMsgQueue) \ {Head(InterruptMsgQueue)}
        /\ IsInjective(InterruptMsgQueue')
    BY <1>1, <1>4, <2>1, TailRange, HeadTailProperties
  <2>3. ioctl[Head(InterruptMsgQueue)] = "parked"
    BY <2>2 DEF Owned, IoctlsOwnedOnce
  <2>4. \A s \in Readers : Head(InterruptMsgQueue) \notin reader[s].request
    <3>1. \A q \in Ioctls, s \in Readers : q \in reader[s].request => ioctl[q] = "taken"
      BY DEF Owned, IoctlsOwnedOnce
    <3>2. QED
      BY <2>2, <2>3, <3>1
  <2>5. Hands'
    BY <2>1, <2>2 DEF Owned, Hands, Moves
  <2>6. \A q \in Ioctls : /\ ioctl'[q] = "parked" <=> q \in Range(InterruptMsgQueue')
                          /\ ioctl'[q] = "taken" <=> \E s \in Readers : q \in reader'[s].request
    BY <1>1, <1>2, <2>1, <2>2, <2>3, <2>4 DEF Owned, IoctlsOwnedOnce, Moves
  <2>7. \A s, t \in Readers : s # t => reader'[s].request \cap reader'[t].request = {}
    BY <2>1, <2>4 DEF Owned, IoctlsOwnedOnce, Moves
  <2>8. QED
    BY <2>2, <2>5, <2>6, <2>7 DEF Owned, IoctlsOwnedOnce
<1>5. CASE InterruptMsgQueue = << >>
  <2>1. /\ reader'[r].pc \in {"idle", "update"} /\ reader'[r].request = {}
        /\ \A s \in Readers : s # r => reader'[s] = reader[s]
        /\ UNCHANGED <<InterruptMsgQueue, ioctl>>
    BY <1>1, <1>2, <1>3, <1>5, RetrieveMoves DEF Moves, Ends
  <2>2. Hands'
    BY <2>1 DEF Owned, Hands
  <2>3. IoctlsOwnedOnce'
    BY <1>2, <2>1 DEF Owned, IoctlsOwnedOnce
  <2>4. QED
    BY <2>2, <2>3 DEF Owned
<1>6. QED
  BY <1>4, <1>5

LEMMA OwnedReader ==
  ASSUME Typed, Owned, NEW r \in Readers, ReaderStep(r)
  PROVE  Owned'
<1>1. ioctl \in [Ioctls -> IoctlPc] /\ TypeOK
  BY DEF Typed, TypeOK, IoctlPc
<1>2. CASE ReaderRetrieve(r)
  BY <1>2, OwnedRetrieve DEF ReaderRetrieve
<1>3. CASE ReaderDrain(r)
  BY <1>3, OwnedRetrieve DEF ReaderDrain
<1>4. CASE ReaderUpdate(r)
  <2>1. /\ UNCHANGED <<InterruptMsgQueue, ioctl>>
        /\ IF reader[r].request = {} THEN Ends(r) ELSE Moves(r, "complete", reader[r].request)
    BY <1>1, <1>4, RunEnds, RunMovesOn DEF ReaderUpdate, RunPc, ioctlVars
  <2>2. /\ reader'[r].request = reader[r].request
        /\ reader'[r].pc = IF reader[r].request = {} THEN "idle" ELSE "complete"
        /\ \A s \in Readers : s # r => reader'[s] = reader[s]
    BY <2>1 DEF Ends, Moves
  <2>3. Hands'
    BY <2>2 DEF Owned, Hands
  <2>4. IoctlsOwnedOnce'
    BY <2>1, <2>2 DEF Owned, IoctlsOwnedOnce
  <2>5. QED
    BY <2>3, <2>4 DEF Owned
<1>5. CASE ReaderComplete(r)
  <2>1. PICK q \in reader[r].request : ioctl' = [ioctl EXCEPT ![q] = "done"]
    BY <1>5 DEF ReaderComplete, OsrCompleteInterruptRequest
  <2>2. reader[r].request = {q} /\ q \in Ioctls
    BY <2>1 DEF Owned, Hands
  <2>3. Moves(r, "drain", {}) /\ UNCHANGED InterruptMsgQueue
    BY <1>1, <1>5, RunMoves DEF ReaderComplete, RunPc
  <2>4. ioctl[q] = "taken" /\ \A s \in Readers : s # r => q \notin reader[s].request
    BY <2>2 DEF Owned, IoctlsOwnedOnce
  <2>5. Hands'
    BY <2>3 DEF Owned, Hands, Moves
  <2>6. \A p \in Ioctls : ioctl'[p] = IF p = q THEN "done" ELSE ioctl[p]
    BY <1>1, <2>1
  <2>7. \A p \in Ioctls : /\ ioctl'[p] = "parked" <=> p \in Range(InterruptMsgQueue')
                          /\ ioctl'[p] = "taken" <=> \E s \in Readers : p \in reader'[s].request
    BY <2>2, <2>3, <2>4, <2>6 DEF Owned, IoctlsOwnedOnce, Moves
  <2>8. \A s, t \in Readers : s # t => reader'[s].request \cap reader'[t].request = {}
    BY <2>3 DEF Owned, IoctlsOwnedOnce, Moves
  <2>9. QED
    BY <2>3, <2>5, <2>7, <2>8 DEF Owned, IoctlsOwnedOnce
<1>6. QED
  BY <1>2, <1>3, <1>4, <1>5 DEF ReaderStep

LEMMA OwnedPower ==
  ASSUME Typed, Owned, power \in {"off", "failed"} => AllIdle,
         \/ \E r \in Readers : ReadComplete(r) \/ ReadersFailed(r) \/ SelfManagedIoFlush(r)
         \/ D0Entry
         \/ D0Exit
  PROVE  Owned'
<1>1. TypeOK
  BY DEF Typed
<1>2. UNCHANGED <<InterruptMsgQueue, ioctl>>
  BY DEF ReadComplete, ReadersFailed, SelfManagedIoFlush, D0Entry, D0Exit, ioctlVars
<1>3. CASE UNCHANGED reader
  BY <1>2, <1>3 DEF Owned, IoctlsOwnedOnce, Hands
<1>4. ASSUME NEW r \in Readers, ReadComplete(r) \/ ReadersFailed(r) \/ SelfManagedIoFlush(r),
             reader' # reader
      PROVE  Owned'
  <2>1. reader[r].pc = "idle"
    BY <1>4 DEF ReadComplete, ReadersFailed, SelfManagedIoFlush, AllIdle
  <2>2. \/ \E status \in ReaderStatus : Enter(r, status, 0)
        \/ nIntr < MaxInterrupts /\ Enter(r, "success", nIntr + 1)
    BY <1>4 DEF ReadComplete, ReadersFailed, SelfManagedIoFlush, ReaderStatus
  <2>3. nIntr < MaxInterrupts => nIntr + 1 \in Interrupts
    BY <1>1, InterruptsArePositive DEF TypeOK
  <2>4. \E status \in ReaderStatus, flags \in Interrupts \cup {0} : Enters(r, status, flags)
    BY <1>1, <2>2, <2>3, RunEnters DEF ReaderStatus
  <2>5. /\ reader'[r].pc = "retrieve" /\ reader'[r].request = {} /\ reader[r].request = {}
        /\ \A s \in Readers : s # r => reader'[s] = reader[s]
    BY <2>1, <2>4 DEF Enters, Owned, Hands
  <2>6. Hands'
    BY <2>5 DEF Owned, Hands
  <2>7. IoctlsOwnedOnce'
    BY <1>2, <2>5 DEF Owned, IoctlsOwnedOnce
  <2>8. QED
    BY <2>6, <2>7 DEF Owned
<1>5. QED
  BY <1>3, <1>4 DEF D0Entry, D0Exit

-----------------------------------------------------------------------------
(* What the framework waits for, and the flush *)

\* Nothing runs when the device has left D0, until the flush, which no IOCTL
\* can join and which does not end before it has seen the queue empty.
Calm ==
  /\ power \in {"off", "failed"} => AllIdle
  /\ power # "D0" => Handling = {}
  /\ power = "removed" /\ AllIdle => InterruptMsgQueue = << >>
  /\ power = "removed" =>
       \A r \in Readers : reader[r].pc = "update" /\ reader[r].request = {} =>
                          InterruptMsgQueue = << >>

IInv == Typed /\ Owned /\ Calm

LEMMA IInvInit == Init => IInv
<1>1. Init => Calm
  BY DEF Init, Calm, AllIdle, Idle, Handling
<1>2. QED
  BY <1>1, TypedInit, OwnedInit DEF IInv

\* IOCTLs are only handled in D0.
LEMMA CalmIoctl ==
  ASSUME IInv, NEW q \in Ioctls, IssueIoctl(q) \/ IoctlStep(q)
  PROVE  Calm'
<1>1. power = "D0"
  <2>1. CASE IssueIoctl(q)
    BY <2>1 DEF IssueIoctl
  <2>2. CASE IoctlStep(q)
    <3>1. q \in Handling
      BY <2>2 DEF IoctlStep, IoctlGate, IoctlComplete, IoctlForward, Handling
    <3>2. QED
      BY <3>1 DEF IInv, Calm
  <2>3. QED
    BY <2>1, <2>2
<1>2. UNCHANGED power
  BY DEF IssueIoctl, IoctlStep, IoctlGate, IoctlComplete, IoctlForward
<1>3. QED
  BY <1>1, <1>2 DEF Calm

\* Cancellation ends a waiting IOCTL, which no handler had.
LEMMA CalmCancel ==
  ASSUME IInv, NEW i \in DOMAIN InterruptMsgQueue, CancelIoctl(i)
  PROVE  Calm'
<1>1. UNCHANGED <<power, reader>>
  BY DEF CancelIoctl
<1>2. InterruptMsgQueue # << >>
  OBVIOUS
<1>3. ioctl \in [Ioctls -> IoctlPc] /\ InterruptMsgQueue \in Seq(Ioctls)
  BY DEF IInv, Typed, TypeOK, IoctlPc
<1>4. InterruptMsgQueue[i] \in Ioctls
  BY <1>3, ElementOfSeq
<1>5. Handling' \subseteq Handling
  BY <1>3, <1>4 DEF CancelIoctl, Handling
<1>6. QED
  BY <1>1, <1>2, <1>5 DEF IInv, Calm, AllIdle

LEMMA CalmReader ==
  ASSUME IInv, NEW r \in Readers, ReaderStep(r)
  PROVE  Calm'
<1>1. /\ TypeOK /\ UNCHANGED power
      /\ ioctl \in [Ioctls -> IoctlPc]
      /\ InterruptMsgQueue \in Seq(Ioctls)
      /\ Owned /\ Calm
  BY DEF IInv, Typed, TypeOK, IoctlPc, ReaderStep, ReaderRetrieve, ReaderUpdate,
         ReaderComplete, ReaderDrain
<1>2. reader[r].pc # "idle"
  BY DEF ReaderStep, ReaderRetrieve, ReaderUpdate, ReaderComplete, ReaderDrain
<1>3. power' \notin {"off", "failed"}
  BY <1>1, <1>2 DEF Calm, AllIdle
<1>4. Handling' \subseteq Handling
  <2>1. \A q \in Ioctls : ioctl'[q] \in {ioctl[q], "taken", "done"}
    <3>1. CASE ReaderRetrieve(r) \/ ReaderDrain(r)
      BY <1>1, <3>1 DEF ReaderRetrieve, ReaderDrain, Retrieve
    <3>2. CASE ReaderUpdate(r)
      BY <3>2 DEF ReaderUpdate, ioctlVars
    <3>3. CASE ReaderComplete(r)
      BY <1>1, <3>3 DEF ReaderComplete, OsrCompleteInterruptRequest
    <3>4. QED
      BY <3>1, <3>2, <3>3 DEF ReaderStep
  <2>2. QED
    BY <2>1 DEF Handling
<1>5. \A s \in Readers : s # r => reader'[s] = reader[s]
  BY <1>1 DEF TypeOK, ReaderStep, ReaderRetrieve, ReaderUpdate, ReaderComplete, ReaderDrain,
              Retrieve
<1>6. InterruptMsgQueue = << >> => InterruptMsgQueue' = << >>
  BY DEF ReaderStep, ReaderRetrieve, ReaderUpdate, ReaderComplete, ReaderDrain, Retrieve
<1>7. power = "removed" /\ reader'[r].pc = "idle" => InterruptMsgQueue' = << >>
  <2>1. CASE ReaderRetrieve(r)
    BY <1>1, <2>1, RetrieveMoves DEF ReaderRetrieve, Moves, RunPc
  <2>2. CASE ReaderUpdate(r)
    <3>1. reader[r].request # {} => reader'[r].pc = "complete"
      BY <1>1, <2>2, RunMovesOn DEF ReaderUpdate, Moves, RunPc
    <3>2. reader[r].pc = "update" /\ UNCHANGED InterruptMsgQueue
      BY <2>2 DEF ReaderUpdate
    <3>3. power = "removed" /\ reader[r].request = {} => InterruptMsgQueue = << >>
      BY <1>1, <3>2 DEF Calm
    <3>4. QED
      BY <3>1, <3>2, <3>3
  <2>3. CASE ReaderComplete(r)
    <3>1. Moves(r, "drain", {})
      BY <1>1, <2>3, RunMoves DEF ReaderComplete, RunPc
    <3>2. QED
      BY <3>1 DEF Moves
  <2>4. CASE ReaderDrain(r)
    <3>1. InterruptMsgQueue # << >> => reader'[r].pc = "complete"
      BY <1>1, <2>4, RetrieveMoves DEF ReaderDrain, Moves, RunPc
    <3>2. QED
      BY <1>6, <3>1
  <2>5. QED
    BY <2>1, <2>2, <2>3, <2>4 DEF ReaderStep
<1>8. reader'[r].pc = "update" /\ reader'[r].request = {} => InterruptMsgQueue' = << >>
  <2>1. CASE ReaderRetrieve(r)
    <3>1. InterruptMsgQueue # << >> => reader'[r].request = {Head(InterruptMsgQueue)}
      BY <1>1, <2>1, RetrieveMoves DEF ReaderRetrieve, Moves, RunPc
    <3>2. QED
      BY <1>6, <3>1
  <2>2. CASE ReaderUpdate(r)
    BY <1>1, <2>2, RunMovesOn, RunEnds DEF ReaderUpdate, Moves, Ends, RunPc
  <2>3. CASE ReaderComplete(r)
    <3>1. Moves(r, "drain", {})
      BY <1>1, <2>3, RunMoves DEF ReaderComplete, RunPc
    <3>2. QED
      BY <3>1 DEF Moves
  <2>4. CASE ReaderDrain(r)
    BY <1>1, <2>4, RetrieveMoves DEF ReaderDrain, Moves, Ends, RunPc
  <2>5. QED
    BY <2>1, <2>2, <2>3, <2>4 DEF ReaderStep
<1>9. power' = "removed" /\ AllIdle' => InterruptMsgQueue' = << >>
  BY <1>1, <1>7 DEF AllIdle
<1>10. power' = "removed" =>
         \A s \in Readers : reader'[s].pc = "update" /\ reader'[s].request = {} =>
                            InterruptMsgQueue' = << >>
  BY <1>1, <1>5, <1>6, <1>8 DEF Calm
<1>11. QED
  BY <1>1, <1>3, <1>4, <1>9, <1>10 DEF Calm

LEMMA CalmPower ==
  ASSUME IInv,
         \/ \E r \in Readers : ReadComplete(r) \/ ReadersFailed(r) \/ SelfManagedIoFlush(r)
         \/ D0Entry
         \/ D0Exit
  PROVE  Calm'
<1>1. TypeOK /\ Calm
  BY DEF IInv, Typed
<1>2. ASSUME NEW r \in Readers, ReadComplete(r) \/ ReadersFailed(r) PROVE Calm'
  BY <1>2 DEF Calm, ReadComplete, ReadersFailed
<1>3. ASSUME NEW r \in Readers, SelfManagedIoFlush(r) PROVE Calm'
  <2>1. Handling = {} /\ UNCHANGED ioctl /\ power' = "removed"
    BY <1>1, <1>3 DEF Calm, SelfManagedIoFlush, ioctlVars
  <2>2. Enters(r, "removed", 0)
    BY <1>1, <1>3, RunEnters DEF SelfManagedIoFlush, ReaderStatus
  <2>3. \A s \in Readers : reader'[s].pc \in {"idle", "retrieve"}
    BY <1>1, <1>3, <2>2 DEF Calm, SelfManagedIoFlush, AllIdle, Enters
  <2>4. ~AllIdle'
    BY <2>2 DEF AllIdle, Enters
  <2>5. Handling' = {}
    BY <2>1 DEF Handling
  <2>6. QED
    BY <2>1, <2>3, <2>4, <2>5 DEF Calm
<1>4. CASE D0Entry
  BY <1>1, <1>4 DEF Calm, D0Entry, ioctlVars, Handling, AllIdle
<1>5. CASE D0Exit
  BY <1>1, <1>5 DEF Calm, D0Exit, ioctlVars, Handling, AllIdle
<1>6. QED
  BY <1>2, <1>3, <1>4, <1>5

LEMMA IInvStep == IInv /\ [Next]_vars => IInv'
<1>1. SUFFICES ASSUME IInv, [Next]_vars PROVE IInv'
  OBVIOUS
<1>2. Typed /\ Owned /\ IoctlsOwnedOnce /\ (power \in {"off", "failed"} => AllIdle)
  BY <1>1 DEF IInv, Owned, Calm
<1>3. CASE UNCHANGED vars
  BY <1>1, <1>3
  DEF IInv, Typed, TypeOK, Carried, Owned, IoctlsOwnedOnce, Hands, Calm, AllIdle, Handling,
      vars, cacheVars, ioctlVars, lostVars
<1>4. ASSUME NEW q \in Ioctls, IssueIoctl(q) \/ IoctlStep(q) PROVE IInv'
  BY <1>1, <1>2, <1>4, TypedIoctl, OwnedIoctl, CalmIoctl DEF IInv
<1>5. ASSUME NEW i \in DOMAIN InterruptMsgQueue, CancelIoctl(i) PROVE IInv'
  BY <1>1, <1>2, <1>5, TypedCancel, OwnedCancel, CalmCancel DEF IInv
<1>6. ASSUME NEW r \in Readers, ReaderStep(r) PROVE IInv'
  BY <1>1, <1>2, <1>6, TypedReader, OwnedReader, CalmReader DEF IInv
<1>7. CASE \/ \E r \in Readers : ReadComplete(r) \/ ReadersFailed(r) \/ SelfManagedIoFlush(r)
           \/ D0Entry
           \/ D0Exit
  BY <1>1, <1>2, <1>7, TypedPower, OwnedPower, CalmPower DEF IInv
<1>8. QED
  BY <1>1, <1>3, <1>4, <1>5, <1>6, <1>7 DEF Next

LEMMA Invariant == Spec => []IInv
<1>1. Init => IInv
  BY IInvInit
<1>2. IInv /\ [Next]_vars => IInv'
  BY IInvStep
<1>3. QED
  BY <1>1, <1>2, PTL DEF Spec

\* Types hold for any numbers of interrupts, IOCTLs and reads.
THEOREM TypeCorrect == Spec => []TypeOK
<1>1. IInv => TypeOK
  BY DEF IInv, Typed
<1>2. QED
  BY <1>1, Invariant, PTL

\* Completion routines on several processors, the draining loop, the handler
\* that parks and the framework that cancels never have the same IOCTL.
THEOREM OneOwner == Spec => []IoctlsOwnedOnce
<1>1. IInv => IoctlsOwnedOnce
  BY DEF IInv, Owned
<1>2. QED
  BY <1>1, Invariant, PTL

\* OsrFxEvtDeviceSelfManagedIoFlush leaves no IOCTL behind.
THEOREM FlushIsComplete == Spec => []RemovalDrains
<1>1. IInv => RemovalDrains
  <2>1. SUFFICES ASSUME IInv, power = "removed", AllIdle, NEW q \in Ioctls
                 PROVE  ioctl[q] \in {"new", "done"}
    BY DEF RemovalDrains, Open
  <2>2. InterruptMsgQueue = << >> /\ q \notin Handling
    BY <2>1 DEF IInv, Calm
  <2>3. \A r \in Readers : reader[r].request = {}
    BY <2>1 DEF IInv, Owned, Hands, AllIdle
  <2>4. q \notin Range(InterruptMsgQueue)
    BY <2>2 DEF Range
  <2>5. ioctl[q] # "parked" /\ ioctl[q] # "taken"
    BY <2>1, <2>3, <2>4 DEF IInv, Owned, IoctlsOwnedOnce
  <2>6. ioctl[q] \in IoctlPc
    BY <2>1 DEF IInv, Typed, TypeOK, IoctlPc
  <2>7. QED
    BY <2>2, <2>5, <2>6 DEF Handling, IoctlPc
<1>2. QED
  BY <1>1, Invariant, PTL

-----------------------------------------------------------------------------
(* Where every interrupt is *)

\* Given to IOCTLs by a completion routine, about to be, or lost in trying.
Given == InHand \cup Answered \cup dropped

Disjoint(A, B) == A \cap B = {}

\* EveryInterruptAccounted, place by place.
Places ==
  /\ Given \cup Cached \cup Ready \cup folded \cup Cleared \cup erased = 1 .. nIntr
  /\ Disjoint(Given, Cached) /\ Disjoint(Given, Ready) /\ Disjoint(Given, folded)
  /\ Disjoint(Given, Cleared) /\ Disjoint(Given, erased)
  /\ Disjoint(Cached, Ready) /\ Disjoint(Cached, folded)
  /\ Disjoint(Cached, Cleared) /\ Disjoint(Cached, erased)
  /\ Disjoint(Ready, folded) /\ Disjoint(Ready, Cleared) /\ Disjoint(Ready, erased)
  /\ Disjoint(folded, Cleared) /\ Disjoint(folded, erased)
  /\ Disjoint(Cleared, erased)

ReadyOnce == \A p, q \in Ioctls : p # q /\ newData[p] # 0 => newData[p] # newData[q]

\* An IOCTL has no answer before it is completed; completion routines carry
\* different interrupts, which nobody has been given before the draining loop
\* begins, and somebody has when it ends.
Fresh ==
  /\ \A q \in Ioctls : ioctl[q] # "done" => answer[q] = 0
  /\ \A r, s \in Readers : r # s /\ reader[r].flags # 0 => reader[r].flags # reader[s].flags
  /\ \A r \in Readers : reader[r].pc \in {"retrieve", "update"} =>
       reader[r].flags \notin Answered \cup dropped
  /\ \A r \in Readers : reader[r].pc = "drain" /\ reader[r].flags # 0 =>
       reader[r].flags \in Answered \cup dropped

Accounts == Places /\ ReadyOnce /\ Fresh

LEMMA PlacesAreAll == Places /\ ReadyOnce => EveryInterruptAccounted
<1> DEFINE places == <<Given, Cached, Ready, folded, Cleared, erased>>
<1>1. SUFFICES ASSUME Places, ReadyOnce PROVE EveryInterruptAccounted
  OBVIOUS
<1>2. DOMAIN places = 1 .. 6
  OBVIOUS
<1>3. /\ places[1] = Given /\ places[2] = Cached /\ places[3] = Ready
      /\ places[4] = folded /\ places[5] = Cleared /\ places[6] = erased
  OBVIOUS
<1> HIDE DEF places
<1>4. \A i \in 1 .. 6 : i = 1 \/ i = 2 \/ i = 3 \/ i = 4 \/ i = 5 \/ i = 6
  OBVIOUS
<1>5. Range(places) = {Given, Cached, Ready, folded, Cleared, erased}
  BY <1>2, <1>3, <1>4 DEF Range
<1>6. UNION Range(places) = 1 .. nIntr
  BY <1>1, <1>5 DEF Places
<1>7. \A i, j \in DOMAIN places : i # j => places[i] \cap places[j] = {}
  BY <1>1, <1>2, <1>3, <1>4 DEF Places, Disjoint
<1>8. QED
  BY <1>1, <1>6, <1>7 DEF EveryInterruptAccounted, ReadyOnce, places, Given

LEMMA AccountsInit == Init => Accounts
<1>1. SUFFICES ASSUME Init PROVE Accounts
  OBVIOUS
<1>2. /\ Given = {} /\ Cached = {} /\ Ready = {} /\ Cleared = {}
      /\ folded = {} /\ erased = {} /\ nIntr = 0
  BY <1>1 DEF Init, Given, InHand, Answered, Cached, Ready, Cleared, Idle
<1>3. 1 .. nIntr = {}
  BY <1>2
<1>4. Places
  BY <1>2, <1>3 DEF Places, Disjoint
<1>5. ReadyOnce /\ Fresh
  BY <1>1 DEF Init, ReadyOnce, Fresh, Idle
<1>6. QED
  BY <1>4, <1>5 DEF Accounts

\* What completion routines have in hand, without reference to where they are.
LEMMA InHandIs == Typed => \A i : i \in InHand <=> i # 0 /\ \E r \in Readers : reader[r].flags = i
BY DEF Typed, Carried, InHand

LEMMA InHandIsNext ==
  Typed' => \A i : i \in InHand' <=> i # 0 /\ \E r \in Readers : reader'[r].flags = i
BY DEF Typed, Carried, InHand

LEMMA InHandKept ==
  ASSUME Typed, Typed', \A r \in Readers : reader'[r].flags = reader[r].flags
  PROVE  InHand' = InHand
<1>1. \A i : i \in InHand' <=> i \in InHand
  BY InHandIs, InHandIsNext
<1>2. QED
  BY <1>1

\* Most steps move no interrupt.
LEMMA AccountsSame ==
  ASSUME Typed, Typed', Accounts,
         UNCHANGED <<newData, answer, cacheVars, lostVars, nIntr>>,
         \A q \in Ioctls : ioctl'[q] # "done" => ioctl[q] # "done",
         \A r \in Readers :
           /\ reader'[r].flags = reader[r].flags
           /\ reader'[r].pc \in {"retrieve", "update"} =>
                reader[r].pc \in {"retrieve", "update"} \/ reader[r].flags = 0
           /\ reader'[r].pc = "drain" => reader[r].pc = "drain"
  PROVE  Accounts'
<1>1. /\ Answered' = Answered /\ Ready' = Ready /\ Cached' = Cached /\ Cleared' = Cleared
      /\ UNCHANGED <<folded, cleared, erased, dropped>>
  BY DEF Answered, Ready, Cached, Cleared, cacheVars, lostVars
<1>2. InHand' = InHand
  BY InHandKept
<1>3. Places'
  BY <1>1, <1>2 DEF Accounts, Places, Given
<1>4. ReadyOnce'
  BY DEF Accounts, ReadyOnce
<1>5. 0 \notin Answered \cup dropped
  BY InterruptsArePositive DEF Typed, TypeOK, Answered
<1>6. Fresh'
  BY <1>1, <1>5 DEF Accounts, Fresh
<1>7. QED
  BY <1>3, <1>4, <1>6 DEF Accounts

LEMMA AccountsIoctl ==
  ASSUME Typed, Typed', Accounts, NEW q \in Ioctls, IssueIoctl(q) \/ IoctlStep(q)
  PROVE  Accounts'
<1>1. /\ TypeOK /\ Carried /\ Places /\ ReadyOnce /\ Fresh
      /\ newData \in [Ioctls -> Interrupts \cup {0}]
      /\ answer \in [Ioctls -> Interrupts \cup {0}]
      /\ ioctl \in [Ioctls -> IoctlPc]
  BY DEF Typed, TypeOK, IoctlPc, Accounts
<1>2. CASE IssueIoctl(q)
  <2>1. UNCHANGED <<newData, answer, cacheVars, lostVars, nIntr, reader>>
    BY <1>2 DEF IssueIoctl
  <2>2. \A p \in Ioctls : ioctl'[p] # "done" => ioctl[p] # "done"
    BY <1>1, <1>2 DEF IssueIoctl
  <2>3. QED
    BY <2>1, <2>2, AccountsSame
<1>3. CASE IoctlForward(q)
  <2>1. UNCHANGED <<newData, answer, cacheVars, lostVars, nIntr, reader>>
    BY <1>3 DEF IoctlForward
  <2>2. \A p \in Ioctls : ioctl'[p] # "done" => ioctl[p] # "done"
    BY <1>1, <1>3 DEF IoctlForward
  <2>3. QED
    BY <2>1, <2>2, AccountsSame
<1>4. CASE IoctlGate(q)
  <2>1. /\ UNCHANGED <<InterruptMsgQueue, power, nIntr, reader, answer, lostVars>>
        /\ newData' = [newData EXCEPT ![q] = latestStatus]
        /\ latestStatus' = 0
        /\ newData[q] = 0
        /\ \A p \in Ioctls : ioctl'[p] # "done" => ioctl[p] # "done"
    BY <1>1, <1>4 DEF IoctlGate, Carried
  <2>2. /\ Answered' = Answered /\ Cleared' = Cleared /\ InHand' = InHand
        /\ UNCHANGED <<folded, erased, dropped, nIntr>>
    BY <2>1 DEF Answered, Cleared, InHand, lostVars
  <2>3. Cached' = {}
    BY <2>1 DEF Cached
  <2>4. \A p \in Ioctls : newData'[p] = IF p = q THEN latestStatus ELSE newData[p]
    BY <1>1, <2>1
  <2>5. Ready' = Ready \cup Cached
    BY <2>1, <2>4 DEF Ready, Cached
  <2>6. Places'
    BY <1>1, <2>2, <2>3, <2>5 DEF Places, Disjoint, Given
  <2>7. \A p \in Ioctls : newData[p] # 0 => newData[p] \in Ready /\ newData[p] # latestStatus
    BY <1>1 DEF Ready, Cached, Places, Disjoint
  <2>8. ReadyOnce'
    BY <1>1, <2>4, <2>7 DEF ReadyOnce
  <2>9. Fresh'
    BY <1>1, <2>1, <2>2 DEF Fresh
  <2>10. QED
    BY <2>6, <2>8, <2>9 DEF Accounts
<1>5. CASE IoctlComplete(q)
  <2>1. /\ UNCHANGED <<cacheVars, nIntr, reader, folded, cleared, erased>>
        /\ ioctl[q] = "complete"
        /\ newData' = [newData EXCEPT ![q] = 0]
        /\ ioctl' = [ioctl EXCEPT ![q] = "done"]
        /\ \/ answer' = [answer EXCEPT ![q] = newData[q]] /\ UNCHANGED dropped
           \/ dropped' = dropped \cup {newData[q]} /\ UNCHANGED answer
    BY <1>5 DEF IoctlComplete, OsrCompleteInterruptRequest
  <2>2. newData[q] # 0 /\ answer[q] = 0 /\ newData[q] \in Ready
    BY <1>1, <2>1 DEF Carried, Fresh, Ready
  <2>3. Cleared' = Cleared /\ InHand' = InHand /\ Cached' = Cached
    BY <2>1 DEF Cleared, InHand, Cached, cacheVars
  <2>4. Answered' \cup dropped' = Answered \cup dropped \cup {newData[q]}
    <3>1. CASE answer' = [answer EXCEPT ![q] = newData[q]] /\ UNCHANGED dropped
      <4>1. \A p \in Ioctls : answer'[p] = IF p = q THEN newData[q] ELSE answer[p]
        BY <1>1, <3>1
      <4>2. Answered' = Answered \cup {newData[q]}
        BY <2>2, <4>1 DEF Answered
      <4>3. QED
        BY <3>1, <4>2
    <3>2. CASE dropped' = dropped \cup {newData[q]} /\ UNCHANGED answer
      BY <3>2 DEF Answered
    <3>3. QED
      BY <2>1, <3>1, <3>2
  <2>5. \A p \in Ioctls : newData'[p] = IF p = q THEN 0 ELSE newData[p]
    BY <1>1, <2>1
  <2>6. Ready' = Ready \ {newData[q]}
    BY <1>1, <2>2, <2>5 DEF Ready, ReadyOnce
  <2>7. Given' = Given \cup {newData[q]}
    BY <2>3, <2>4 DEF Given
  <2>8. Places'
    BY <1>1, <2>1, <2>2, <2>3, <2>6, <2>7 DEF Places, Disjoint
  <2>9. ReadyOnce'
    BY <1>1, <2>5 DEF ReadyOnce
  <2>10. \A r \in Readers : reader[r].flags # newData[q]
    BY <1>1, <2>2, InHandIs DEF Places, Disjoint, Given
  <2>11. \A p \in Ioctls : ioctl'[p] # "done" => answer'[p] = 0
    BY <1>1, <2>1 DEF Fresh
  <2>12. Fresh'
    BY <1>1, <2>1, <2>4, <2>10, <2>11 DEF Fresh
  <2>13. QED
    BY <2>8, <2>9, <2>12 DEF Accounts
<1>6. QED
  BY <1>2, <1>3, <1>4, <1>5 DEF IoctlStep

LEMMA AccountsCancel ==
  ASSUME Typed, Typed', IoctlsOwnedOnce, Accounts, NEW i \in DOMAIN InterruptMsgQueue,
         CancelIoctl(i)
  PROVE  Accounts'
<1>1. /\ UNCHANGED <<newData, answer, cacheVars, lostVars, nIntr, reader>>
      /\ ioctl' = [ioctl EXCEPT ![InterruptMsgQueue[i]] = "done"]
      /\ ioctl \in [Ioctls -> IoctlPc]
  BY DEF CancelIoctl, Typed, TypeOK, IoctlPc
<1>2. \A q \in Ioctls : ioctl'[q] # "done" => ioctl[q] # "done"
  BY <1>1
<1>3. QED
  BY <1>1, <1>2, AccountsSame

LEMMA AccountsRetrieve ==
  ASSUME Typed, Typed', IoctlsOwnedOnce, Accounts, NEW r \in Readers, ReaderRetrieve(r)
  PROVE  Accounts'
<1>1. /\ UNCHANGED <<cacheVars, nIntr, newData, answer, lostVars>>
      /\ TypeOK /\ reader[r].pc = "retrieve"
      /\ ioctl \in [Ioctls -> IoctlPc]
  BY DEF ReaderRetrieve, Typed, TypeOK, IoctlPc
<1>2. \E request : Moves(r, "update", request)
  BY <1>1, RetrieveMoves DEF ReaderRetrieve, RunPc
<1>3. \A s \in Readers :
           /\ reader'[s].flags = reader[s].flags
           /\ reader'[s].pc \in {"retrieve", "update"} =>
                reader[s].pc \in {"retrieve", "update"} \/ reader[s].flags = 0
           /\ reader'[s].pc = "drain" => reader[s].pc = "drain"
  BY <1>1, <1>2 DEF Moves
<1>4. \A q \in Ioctls : ioctl'[q] # "done" => ioctl[q] # "done"
  BY <1>1, HeadIsParked DEF ReaderRetrieve, Retrieve
<1>5. QED
  BY <1>1, <1>3, <1>4, AccountsSame

\* A run of the draining loop ends: its interrupt has been given to somebody.
LEMMA AccountsDrain ==
  ASSUME Typed, Typed', IoctlsOwnedOnce, Accounts, NEW r \in Readers, ReaderDrain(r)
  PROVE  Accounts'
<1>1. /\ UNCHANGED <<cacheVars, nIntr, newData, answer, lostVars>>
      /\ TypeOK /\ reader[r].pc = "drain"
      /\ ioctl \in [Ioctls -> IoctlPc]
  BY DEF ReaderDrain, Typed, TypeOK, IoctlPc
<1>2. \A q \in Ioctls : ioctl'[q] # "done" => ioctl[q] # "done"
  BY <1>1, HeadIsParked DEF ReaderDrain, Retrieve
<1>3. Ends(r) \/ \E request : Moves(r, "complete", request)
  BY <1>1, RetrieveMoves DEF ReaderDrain, RunPc
<1>4. ASSUME NEW request, Moves(r, "complete", request) PROVE Accounts'
  <2>1. \A s \in Readers :
           /\ reader'[s].flags = reader[s].flags
           /\ reader'[s].pc \in {"retrieve", "update"} =>
                reader[s].pc \in {"retrieve", "update"} \/ reader[s].flags = 0
           /\ reader'[s].pc = "drain" => reader[s].pc = "drain"
    BY <1>1, <1>4 DEF Moves
  <2>2. QED
    BY <1>1, <1>2, <2>1, AccountsSame
<1>5. CASE Ends(r)
  <2>1. /\ Answered' = Answered /\ Ready' = Ready /\ Cached' = Cached /\ Cleared' = Cleared
        /\ UNCHANGED <<folded, erased, dropped, nIntr>>
    BY <1>1 DEF Answered, Ready, Cached, Cleared, cacheVars, lostVars
  <2>2. reader[r].flags # 0 => reader[r].flags \in Answered \cup dropped
    BY <1>1 DEF Accounts, Fresh
  <2>3. \A i : i \in InHand' <=> i # 0 /\ \E s \in Readers : s # r /\ reader[s].flags = i
    BY <1>5, InHandIsNext DEF Ends
  <2>4. InHand' \subseteq InHand /\ InHand \subseteq InHand' \cup Answered \cup dropped
    BY <2>2, <2>3, InHandIs
  <2>5. Given' = Given
    BY <2>1, <2>4 DEF Given
  <2>6. Places'
    BY <2>1, <2>5 DEF Accounts, Places
  <2>7. ReadyOnce'
    BY <1>1 DEF Accounts, ReadyOnce
  <2>8. Fresh'
    <3>1. \A q \in Ioctls : ioctl'[q] # "done" => answer'[q] = 0
      BY <1>1, <1>2 DEF Accounts, Fresh
    <3>2. \A s, t \in Readers : s # t /\ reader'[s].flags # 0 => reader'[s].flags # reader'[t].flags
      BY <1>5 DEF Accounts, Fresh, Ends
    <3>3. \A s \in Readers : /\ reader'[s].pc \in {"retrieve", "update"} =>
                                  reader'[s].flags \notin Answered \cup dropped
                             /\ reader'[s].pc = "drain" /\ reader'[s].flags # 0 =>
                                  reader'[s].flags \in Answered \cup dropped
      BY <1>5 DEF Accounts, Fresh, Ends
    <3>4. QED
      BY <2>1, <3>1, <3>2, <3>3 DEF Fresh
  <2>9. QED
    BY <2>6, <2>7, <2>8 DEF Accounts
<1>6. QED
  BY <1>3, <1>4, <1>5

\* The request in hand is completed with the run's interrupt.
LEMMA AccountsComplete ==
  ASSUME Typed, Typed', IoctlsOwnedOnce, Accounts, NEW r \in Readers, ReaderComplete(r)
  PROVE  Accounts'
<1>1. /\ UNCHANGED <<cacheVars, nIntr, newData, folded, cleared, erased>>
      /\ TypeOK /\ reader[r].pc = "complete" /\ Places /\ ReadyOnce /\ Fresh /\ Carried
      /\ answer \in [Ioctls -> Interrupts \cup {0}]
      /\ ioctl \in [Ioctls -> IoctlPc]
      /\ reader' = [reader EXCEPT ![r].pc = "drain", ![r].request = {}]
  BY DEF ReaderComplete, Typed, TypeOK, IoctlPc, Accounts
<1>2. PICK q \in reader[r].request :
        OsrCompleteInterruptRequest(q, reader[r].status, reader[r].flags)
  BY DEF ReaderComplete
<1>3. q \in Ioctls /\ ioctl[q] = "taken" /\ answer[q] = 0
  BY <1>1, <1>2 DEF TypeOK, Run, IoctlsOwnedOnce, Fresh
<1>4. ioctl' = [ioctl EXCEPT ![q] = "done"]
  BY <1>2 DEF OsrCompleteInterruptRequest
<1>5. Answered' \cup dropped' = (Answered \cup dropped) \cup ({reader[r].flags} \ {0})
  <2>1. CASE answer' = [answer EXCEPT ![q] = IF reader[r].status = "success"
                                             THEN reader[r].flags ELSE 0]
             /\ UNCHANGED dropped
    <3>1. answer' = [answer EXCEPT ![q] = reader[r].flags]
      BY <1>1, <2>1 DEF Carried
    <3>2. \A p \in Ioctls : answer'[p] = IF p = q THEN reader[r].flags ELSE answer[p]
      BY <1>1, <3>1
    <3>3. Answered' = Answered \cup ({reader[r].flags} \ {0})
      BY <1>3, <3>2 DEF Answered
    <3>4. QED
      BY <2>1, <3>3
  <2>2. CASE dropped' = (IF reader[r].status = "success" THEN dropped \cup {reader[r].flags}
                         ELSE dropped)
             /\ UNCHANGED answer
    <3>1. dropped' = dropped \cup ({reader[r].flags} \ {0})
      BY <1>1, <2>2 DEF Carried
    <3>2. Answered' = Answered
      BY <2>2 DEF Answered
    <3>3. QED
      BY <3>1, <3>2
  <2>3. QED
    BY <1>2, <2>1, <2>2 DEF OsrCompleteInterruptRequest
<1>6. Moves(r, "drain", {})
  BY <1>1, RunMoves DEF RunPc
<1>7. /\ Ready' = Ready /\ Cached' = Cached /\ Cleared' = Cleared
      /\ UNCHANGED <<folded, erased, nIntr>>
  BY <1>1 DEF Ready, Cached, Cleared, cacheVars
<1>8. InHand' = InHand
  <2>1. \A s \in Readers : reader'[s].flags = reader[s].flags
    BY <1>6 DEF Moves
  <2>2. QED
    BY <2>1, InHandKept
<1>9. {reader[r].flags} \ {0} \subseteq InHand
  BY InHandIs
<1>10. Given' = Given
  BY <1>5, <1>8, <1>9 DEF Given
<1>11. Places'
  BY <1>1, <1>7, <1>10 DEF Places
<1>12. ReadyOnce'
  BY <1>1 DEF ReadyOnce
<1>13. Fresh'
  <2>1. \A p \in Ioctls : ioctl'[p] # "done" => answer'[p] = 0
    BY <1>1, <1>2, <1>3, <1>4 DEF Fresh, OsrCompleteInterruptRequest
  <2>2. \A s, t \in Readers : s # t /\ reader'[s].flags # 0 => reader'[s].flags # reader'[t].flags
    BY <1>1, <1>6 DEF Fresh, Moves
  <2>3. ASSUME NEW s \in Readers, reader'[s].pc \in {"retrieve", "update"}
        PROVE  reader'[s].flags \notin Answered' \cup dropped'
    <3>1. s # r /\ reader'[s] = reader[s]
      BY <1>6, <2>3 DEF Moves
    <3>2. reader[s].flags = 0 \/ reader[s].flags # reader[r].flags
      BY <1>1, <3>1 DEF Fresh
    <3>3. reader[s].flags \notin Answered \cup dropped
      BY <1>1, <2>3, <3>1 DEF Fresh
    <3>4. QED
      BY <1>5, <3>1, <3>2, <3>3
  <2>4. ASSUME NEW s \in Readers, reader'[s].pc = "drain", reader'[s].flags # 0
        PROVE  reader'[s].flags \in Answered' \cup dropped'
    BY <1>1, <1>5, <1>6, <2>4 DEF Fresh, Moves
  <2>5. QED
    BY <2>1, <2>2, <2>3, <2>4 DEF Fresh
<1>14. QED
  BY <1>11, <1>12, <1>13 DEF Accounts

\* The section under the spin lock moves what is cached, and may cache.
LEMMA AccountsUpdate ==
  ASSUME Typed, Typed', Accounts, NEW r \in Readers, ReaderUpdate(r)
  PROVE  Accounts'
<1>1. /\ UNCHANGED <<InterruptMsgQueue, power, nIntr, ioctl, newData, answer, dropped>>
      /\ TypeOK /\ Carried /\ reader[r].pc = "update" /\ Places /\ ReadyOnce /\ Fresh
      /\ IF reader[r].request = {} THEN Ends(r) ELSE Moves(r, "complete", reader[r].request)
  BY RunEnds, RunMovesOn DEF ReaderUpdate, Typed, Accounts, RunPc, ioctlVars
<1>2. Answered' = Answered /\ Ready' = Ready
  BY <1>1 DEF Answered, Ready
<1>3. ReadyOnce'
  BY <1>1 DEF ReadyOnce
<1>4. Fresh'
  <2>1. \A s, t \in Readers : s # t /\ reader'[s].flags # 0 => reader'[s].flags # reader'[t].flags
    BY <1>1 DEF Fresh, Ends, Moves
  <2>2. \A s \in Readers : /\ reader'[s].pc \in {"retrieve", "update"} =>
                                reader'[s].flags \notin Answered \cup dropped
                           /\ reader'[s].pc = "drain" /\ reader'[s].flags # 0 =>
                                reader'[s].flags \in Answered \cup dropped
    BY <1>1 DEF Fresh, Ends, Moves
  <2>3. QED
    BY <1>1, <1>2, <2>1, <2>2 DEF Fresh
<1>5. reader[r].request # {} \/ reader[r].flags = 0 => Given' = Given
  <2>1. SUFFICES ASSUME reader[r].request # {} \/ reader[r].flags = 0 PROVE Given' = Given
    OBVIOUS
  <2>2. \A s \in Readers : reader'[s].flags = reader[s].flags
    BY <1>1, <2>1 DEF Ends, Moves
  <2>3. InHand' = InHand
    BY <2>2, InHandKept
  <2>4. QED
    BY <1>1, <1>2, <2>3 DEF Given
<1>6. CASE UpdateConsumed(r)
  <2>1. Given' = Given /\ Cached' = {} /\ UNCHANGED <<folded, erased>>
    BY <1>5, <1>6 DEF UpdateConsumed, Cached
  <2>2. cleared' = cleared \cup (Cached \X {reader[r].flags})
    BY <1>6 DEF UpdateConsumed
  <2>3. Cleared' = Cleared \cup Cached
    <3>1. \A i \in Cached : <<i, reader[r].flags>> \in cleared' /\ <<i, reader[r].flags>>[1] = i
      BY <2>2
    <3>2. \A c \in cleared' : c \in cleared \/ c[1] \in Cached
      BY <2>2
    <3>3. cleared \subseteq cleared'
      BY <2>2
    <3>4. QED
      BY <3>1, <3>2, <3>3 DEF Cleared
  <2>4. Places'
    BY <1>1, <1>2, <2>1, <2>3 DEF Places, Disjoint
  <2>5. QED
    BY <1>3, <1>4, <2>4 DEF Accounts
<1>7. CASE UpdateCached(r)
  <2>1. /\ folded' = folded \cup Cached /\ Ends(r)
        /\ Cached' = {reader[r].flags} /\ reader[r].flags # 0
        /\ UNCHANGED <<cleared, erased>>
    BY <1>1, <1>7 DEF UpdateCached, Cached, Carried
  <2>2. \A i : i \in InHand' <=> i # 0 /\ \E s \in Readers : s # r /\ reader[s].flags = i
    BY <2>1, InHandIsNext DEF Ends
  <2>3. \A s \in Readers : s # r => reader[s].flags # reader[r].flags
    BY <1>1, <2>1 DEF Fresh
  <2>4. InHand' = InHand \ {reader[r].flags} /\ reader[r].flags \in InHand
    BY <2>1, <2>2, <2>3, InHandIs
  <2>5. reader[r].flags \notin Answered \cup dropped
    BY <1>1 DEF Fresh
  <2>6. Given' = Given \ {reader[r].flags} /\ reader[r].flags \in Given
    BY <1>1, <1>2, <2>4, <2>5 DEF Given
  <2>7. Cleared' = Cleared
    BY <2>1 DEF Cleared
  <2>8. Places'
    BY <1>1, <1>2, <2>1, <2>6, <2>7 DEF Places, Disjoint
  <2>9. QED
    BY <1>3, <1>4, <2>8 DEF Accounts
<1>8. CASE UpdateErased(r)
  <2>1. /\ Given' = Given /\ Cached' = {} /\ erased' = erased \cup Cached
        /\ Cleared' = Cleared /\ UNCHANGED folded
    BY <1>1, <1>5, <1>8 DEF UpdateErased, Cached, Cleared, Carried
  <2>2. Places'
    BY <1>1, <1>2, <2>1 DEF Places, Disjoint
  <2>3. QED
    BY <1>3, <1>4, <2>2 DEF Accounts
<1>9. CASE UpdateCancelled(r)
  <2>1. /\ Given' = Given /\ Cached' = Cached
        /\ Cleared' = Cleared /\ UNCHANGED <<folded, erased>>
    BY <1>1, <1>5, <1>9 DEF UpdateCancelled, Cached, Cleared, Carried, cacheVars
  <2>2. Places'
    BY <1>1, <1>2, <2>1 DEF Places
  <2>3. QED
    BY <1>3, <1>4, <2>2 DEF Accounts
<1>10. QED
  BY <1>6, <1>7, <1>8, <1>9 DEF ReaderUpdate

LEMMA AccountsPower ==
  ASSUME Typed, Typed', Accounts, power \in {"off", "failed"} => AllIdle,
         \/ \E r \in Readers : ReadComplete(r) \/ ReadersFailed(r) \/ SelfManagedIoFlush(r)
         \/ D0Entry
         \/ D0Exit
  PROVE  Accounts'
<1>1. /\ TypeOK /\ Carried /\ Places /\ ReadyOnce /\ Fresh
      /\ UNCHANGED <<ioctl, newData, answer, cacheVars, lostVars>>
  BY DEF Typed, Accounts, ReadComplete, ReadersFailed, SelfManagedIoFlush, D0Entry, D0Exit,
         ioctlVars
<1>2. CASE UNCHANGED <<reader, nIntr>>
  BY <1>1, <1>2, AccountsSame
<1>3. ASSUME NEW r \in Readers, ReadersFailed(r) \/ SelfManagedIoFlush(r) PROVE Accounts'
  <2>1. PICK status \in ReaderStatus : Enter(r, status, 0)
    BY <1>3 DEF ReadersFailed, SelfManagedIoFlush, ReaderStatus
  <2>2. reader[r].pc = "idle" /\ UNCHANGED nIntr
    BY <1>3 DEF ReadersFailed, SelfManagedIoFlush, AllIdle
  <2>3. Enters(r, status, 0) /\ reader[r].flags = 0
    BY <1>1, <2>1, <2>2, RunEnters DEF Carried
  <2>4. \A s \in Readers :
           /\ reader'[s].flags = reader[s].flags
           /\ reader'[s].pc \in {"retrieve", "update"} =>
                reader[s].pc \in {"retrieve", "update"} \/ reader[s].flags = 0
           /\ reader'[s].pc = "drain" => reader[s].pc = "drain"
    BY <2>3 DEF Enters
  <2>5. QED
    BY <1>1, <2>2, <2>4, AccountsSame
<1>4. ASSUME NEW r \in Readers, ReadComplete(r), nIntr' # nIntr PROVE Accounts'
  <2>1. /\ nIntr < MaxInterrupts /\ nIntr' = nIntr + 1 /\ Enter(r, "success", nIntr + 1)
        /\ reader[r].pc = "idle"
    BY <1>4 DEF ReadComplete
  <2>2. /\ nIntr + 1 \in Interrupts /\ nIntr + 1 # 0 /\ nIntr + 1 \notin 1 .. nIntr
        /\ 1 .. nIntr' = (1 .. nIntr) \cup {nIntr + 1}
    BY <1>1, <2>1, InterruptsArePositive DEF TypeOK
  <2>3. Enters(r, "success", nIntr + 1) /\ reader[r].flags = 0
    BY <1>1, <2>1, <2>2, RunEnters DEF ReaderStatus, Carried
  <2>4. /\ Answered' = Answered /\ Ready' = Ready /\ Cached' = Cached /\ Cleared' = Cleared
        /\ UNCHANGED <<folded, erased, dropped>>
    BY <1>1 DEF Answered, Ready, Cached, Cleared, cacheVars, lostVars
  <2>5. InHand' = InHand \cup {nIntr + 1}
    BY <2>2, <2>3, InHandIs, InHandIsNext DEF Enters
  <2>6. Given' = Given \cup {nIntr + 1}
    BY <2>4, <2>5 DEF Given
  <2>7. Places'
    BY <1>1, <2>2, <2>4, <2>6 DEF Places, Disjoint
  <2>8. ReadyOnce'
    BY <1>1 DEF ReadyOnce
  <2>9. nIntr + 1 \notin Given
    BY <1>1, <2>2 DEF Places
  <2>10. \A s \in Readers : reader[s].flags # nIntr + 1
    BY <2>2, <2>9, InHandIs DEF Given
  <2>11. Fresh'
    <3>1. \A s, t \in Readers : s # t /\ reader'[s].flags # 0 => reader'[s].flags # reader'[t].flags
      BY <1>1, <2>3, <2>10 DEF Fresh, Enters
    <3>2. \A s \in Readers : /\ reader'[s].pc \in {"retrieve", "update"} =>
                                  reader'[s].flags \notin Answered \cup dropped
                             /\ reader'[s].pc = "drain" /\ reader'[s].flags # 0 =>
                                  reader'[s].flags \in Answered \cup dropped
      BY <1>1, <2>3, <2>9 DEF Fresh, Enters, Given
    <3>3. QED
      BY <1>1, <2>4, <3>1, <3>2 DEF Fresh
  <2>12. QED
    BY <2>7, <2>8, <2>11 DEF Accounts
<1>5. ASSUME NEW r \in Readers, ReadComplete(r) PROVE Accounts'
  <2>1. UNCHANGED <<reader, nIntr>> \/ (nIntr \in Nat /\ nIntr' = nIntr + 1)
    BY <1>1, <1>5, BoundsAssumption DEF TypeOK, ReadComplete
  <2>2. QED
    BY <1>2, <1>4, <1>5, <2>1
<1>6. CASE D0Entry \/ D0Exit
  BY <1>2, <1>6 DEF D0Entry, D0Exit
<1>7. QED
  BY <1>3, <1>5, <1>6

LEMMA AccountsStep == IInv /\ IInv' /\ Accounts /\ [Next]_vars => Accounts'
<1>1. SUFFICES ASSUME IInv, IInv', Accounts, [Next]_vars PROVE Accounts'
  OBVIOUS
<1>2. /\ Typed /\ IoctlsOwnedOnce /\ (power \in {"off", "failed"} => AllIdle)
      /\ Typed'
  BY <1>1 DEF IInv, Owned, Calm
<1>3. CASE UNCHANGED vars
  <2>1. UNCHANGED <<newData, answer, cacheVars, lostVars, nIntr, ioctl, reader>>
    BY <1>3 DEF vars, ioctlVars
  <2>2. QED
    BY <1>1, <1>2, <2>1, AccountsSame
<1>4. ASSUME NEW r \in Readers, ReaderStep(r) PROVE Accounts'
  BY <1>1, <1>2, <1>4, AccountsRetrieve, AccountsUpdate, AccountsComplete, AccountsDrain
  DEF ReaderStep
<1>5. CASE \/ \E r \in Readers : ReadComplete(r) \/ ReadersFailed(r) \/ SelfManagedIoFlush(r)
           \/ D0Entry
           \/ D0Exit
  BY <1>1, <1>2, <1>5, AccountsPower
<1>6. QED
  BY <1>1, <1>2, <1>3, <1>4, <1>5, AccountsIoctl, AccountsCancel DEF Next

\* Two completion routines and any number of IOCTLs empty one cache and one
\* queue: an interrupt may be replaced, cleared or lost with its IOCTL, but it
\* is never in two places, and none vanishes without one of these reasons.
THEOREM InterruptsAreAccounted == Spec => []EveryInterruptAccounted
<1>1. Init => Accounts
  BY AccountsInit
<1>2. IInv /\ IInv' /\ Accounts /\ [Next]_vars => Accounts'
  BY AccountsStep
<1>3. Accounts => EveryInterruptAccounted
  BY PlacesAreAll DEF Accounts
<1>4. QED
  BY <1>1, <1>2, <1>3, Invariant, PTL DEF Spec
================================================================================
