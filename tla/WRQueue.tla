------------------------------- MODULE WRQueue -------------------------------
(***************************************************************************)
(* WRITE_BUFFER_TO_READ_REQUEST_QUEUE of UDEFX2/Misc.c: the rendezvous     *)
(* between writes, whose data must never wait inside a pending request,    *)
(* and reads, which wait as pending requests until data arrives.           *)
(*                                                                         *)
(* Two such queues exist.  missionRequest is written by IoEvtBulkOutUrb    *)
(* and read by BackChannelEvtRead; missionCompletion is written by         *)
(* BackChannelEvtWrite and read by IoEvtBulkInUrb.  Every one of these     *)
(* handlers is the callback of a sequential WDF queue, so a WRQueue has    *)
(* at most one writer and one reader running, but nothing makes the writer *)
(* and the reader exclude each other: qsync covers single list operations  *)
(* only.  Each action below is one such indivisible piece of a handler.    *)
(*                                                                         *)
(* Writes and reads are numbered in the order their queue dispatches them. *)
(* The payload of write w is w itself together with its length WLen[w].    *)
(***************************************************************************)
EXTENDS Naturals, Sequences, SequencesExt

CONSTANTS
  MaxWrites,   \* bound: how many writes are ever dispatched
  MaxReads,    \* bound: how many reads are ever dispatched
  WLen,        \* WLen[w]: transferBufferLength of write w
  RLen,        \* RLen[r]: length of the buffer of read r
  Faults       \* the framework calls that may fail, a subset of FaultKinds

Writes == 1 .. MaxWrites
Reads  == 1 .. MaxReads

\* retrieve: the handler's own buffer;  match: the buffer of a matched read;
\* alloc: ExAllocatePool2;  forward: WdfRequestForwardToIoQueue
FaultKinds == {"retrieve", "match", "alloc", "forward"}

ASSUME BoundsAssumption  == MaxWrites \in Nat /\ MaxReads \in Nat
ASSUME LengthsAssumption == WLen \in [Writes -> Nat] /\ RLen \in [Reads -> Nat]
ASSUME FaultsAssumption  == Faults \subseteq FaultKinds

VARIABLES
  WriteBufferQueue,  \* list of buffered writes (BUFFER_CONTENT entries)
  ReadBufferQueue,   \* manual WDF queue of pended read requests
  nW, nR,            \* writes and reads dispatched so far; the last one of
                     \* each is the one its handler is working on
  pushPc,            \* where the write handler is
  matched,           \* rqReadToComplete: the read it dequeued, 0 for NULL
  pullPc,            \* where the read handler is
  held,              \* firstPendingWrite: the entry it unlinked, 0 for none
  wst, rst,          \* what has become of each write and each read request
  got, bytes         \* the write each read was completed with, and how much

pushVars == <<nW, pushPc, matched>>
pullVars == <<nR, pullPc, held>>
vars == <<WriteBufferQueue, ReadBufferQueue, nW, nR, pushPc, matched,
          pullPc, held, wst, rst, got, bytes>>

PushPc == {"idle", "push", "insert", "match"}
PullPc == {"idle", "pull", "deliver", "forward", "stuck"}

WriteStatus == {"none", "handling", "success", "error"}
ReadStatus  == {"none", "handling", "pended", "matched", "success", "error",
                "cancelled", "leaked"}

\* A request WDF considers completed; the driver no longer owns it.
ReadCompleted  == {"success", "error", "cancelled"}
WriteCompleted == {"success", "error"}

MINLEN(a, b) == IF a < b THEN a ELSE b

\* The list and queue primitives.  Faulty variants, used to test the properties,
\* precede what they replace: here one reads the first element without
\* unlinking it, another links at the wrong end.
RemoveHeadList_Peeks(list) == list

RemoveHeadList(list) == Tail(list)

InsertTailList_AtHead(list, entry) == <<entry>> \o list

InsertTailList(list, entry) == Append(list, entry)

RetrieveNextRequest_Peeks(queue) == queue

RetrieveNextRequest(queue) == Tail(queue)

TypeOK ==
  /\ WriteBufferQueue \in Seq(Writes)
  /\ ReadBufferQueue \in Seq(Reads)
  /\ nW \in 0 .. MaxWrites
  /\ nR \in 0 .. MaxReads
  /\ pushPc \in PushPc
  /\ matched \in Reads \cup {0}
  /\ pullPc \in PullPc
  /\ held \in Writes \cup {0}
  /\ wst \in [Writes -> WriteStatus]
  /\ rst \in [Reads -> ReadStatus]
  /\ got \in [Reads -> Writes \cup {0}]
  /\ bytes \in [Reads -> Nat]
  /\ pushPc # "idle" => nW \in Writes
  /\ pullPc # "idle" => nR \in Reads
  /\ pushPc = "match" => matched \in Reads
  /\ pullPc = "deliver" => held \in Writes

\* WRQueueInit has succeeded: both queues empty, no handler running.
Init ==
  /\ WriteBufferQueue = << >>
  /\ ReadBufferQueue = << >>
  /\ nW = 0
  /\ nR = 0
  /\ pushPc = "idle"
  /\ matched = 0
  /\ pullPc = "idle"
  /\ held = 0
  /\ wst = [w \in Writes |-> "none"]
  /\ rst = [r \in Reads |-> "none"]
  /\ got = [r \in Reads |-> 0]
  /\ bytes = [r \in Reads |-> 0]

-----------------------------------------------------------------------------
(* The write handler *)

\* Faulty variants: the handler completes the write but does not return; it
\* returns but does not complete the write.
WriteArrives_NoReturn ==
  /\ pushPc = "idle"
  /\ nW < MaxWrites
  /\ nW' = nW + 1
  /\ pushPc' = "push"
  /\ \E s \in {"handling"} \cup (IF "retrieve" \in Faults THEN {"error"} ELSE {}) :
        wst' = [wst EXCEPT ![nW + 1] = s]
  /\ UNCHANGED <<WriteBufferQueue, ReadBufferQueue, matched, pullVars, rst,
                 got, bytes>>

WriteArrives_NoCompletion ==
  /\ pushPc = "idle"
  /\ nW < MaxWrites
  /\ nW' = nW + 1
  /\ wst' = [wst EXCEPT ![nW + 1] = "handling"]
  /\ pushPc' \in {"push"} \cup (IF "retrieve" \in Faults THEN {"idle"} ELSE {})
  /\ UNCHANGED <<WriteBufferQueue, ReadBufferQueue, matched, pullVars, rst,
                 got, bytes>>

\* The sequential queue dispatches the next write, and the handler maps its
\* buffer.  If that fails the write is completed with the error at once.
WriteArrives ==
  /\ pushPc = "idle"
  /\ nW < MaxWrites
  /\ nW' = nW + 1
  /\ \/ /\ pushPc' = "push"
        /\ wst' = [wst EXCEPT ![nW + 1] = "handling"]
     \/ /\ "retrieve" \in Faults
        /\ wst' = [wst EXCEPT ![nW + 1] = "error"]
        /\ UNCHANGED pushPc
  /\ UNCHANGED <<WriteBufferQueue, ReadBufferQueue, matched, pullVars, rst,
                 got, bytes>>

\* Faulty variant: the write is always buffered.
PendedReadFound_Never == FALSE

\* NT_SUCCESS of WdfIoQueueRetrieveNextRequest
PendedReadFound == ReadBufferQueue # << >>

\* WRQueuePushWrite asks for the oldest pended read; without one the data is
\* to be buffered.  Nothing holds the reader back after this decision.
PushRetrieve ==
  /\ pushPc = "push"
  /\ \/ /\ PendedReadFound
        /\ matched' = Head(ReadBufferQueue)
        /\ ReadBufferQueue' = RetrieveNextRequest(ReadBufferQueue)
        /\ rst' = [rst EXCEPT ![Head(ReadBufferQueue)] = "matched"]
        /\ pushPc' = "match"
     \/ /\ ~PendedReadFound
        /\ pushPc' = "insert"
        /\ UNCHANGED <<matched, ReadBufferQueue, rst>>
  /\ UNCHANGED <<WriteBufferQueue, nW, pullVars, wst, got, bytes>>

\* The data is copied to a pool block and linked at the tail of the list;
\* "writes never pended, always completed".
PushInsert ==
  /\ pushPc = "insert"
  /\ pushPc' = "idle"
  /\ \/ /\ WriteBufferQueue' = InsertTailList(WriteBufferQueue, nW)
        /\ wst' = [wst EXCEPT ![nW] = "success"]
     \/ /\ "alloc" \in Faults
        /\ wst' = [wst EXCEPT ![nW] = "error"]
        /\ UNCHANGED WriteBufferQueue
  /\ UNCHANGED <<ReadBufferQueue, nW, matched, pullVars, rst, got, bytes>>

\* Faulty variant: a failed match falls through to buffering the write.
PushMatch_FallsThrough ==
  /\ pushPc = "match"
  /\ matched' = 0
  /\ \/ /\ rst' = [rst EXCEPT ![matched] = "success"]
        /\ got' = [got EXCEPT ![matched] = nW]
        /\ bytes' = [bytes EXCEPT ![matched] = MINLEN(RLen[matched], WLen[nW])]
        /\ wst' = [wst EXCEPT ![nW] = "success"]
        /\ pushPc' = "idle"
     \/ /\ "match" \in Faults
        /\ rst' = [rst EXCEPT ![matched] = "error"]
        /\ pushPc' = "insert"
        /\ UNCHANGED <<got, bytes, wst>>
  /\ UNCHANGED <<WriteBufferQueue, ReadBufferQueue, nW, pullVars>>

\* The dequeued read is completed with the data of the write, then the write
\* with the same status.
PushMatch ==
  /\ pushPc = "match"
  /\ pushPc' = "idle"
  /\ matched' = 0
  /\ \/ /\ rst' = [rst EXCEPT ![matched] = "success"]
        /\ got' = [got EXCEPT ![matched] = nW]
        /\ bytes' = [bytes EXCEPT ![matched] = MINLEN(RLen[matched], WLen[nW])]
        /\ wst' = [wst EXCEPT ![nW] = "success"]
     \/ /\ "match" \in Faults
        /\ rst' = [rst EXCEPT ![matched] = "error"]
        /\ wst' = [wst EXCEPT ![nW] = "error"]
        /\ UNCHANGED <<got, bytes>>
  /\ UNCHANGED <<WriteBufferQueue, ReadBufferQueue, nW, pullVars>>

-----------------------------------------------------------------------------
(* The read handler *)

\* The sequential queue dispatches the next read.  When its buffer cannot be
\* mapped the handler returns without completing or forwarding it, so the
\* queue never dispatches again.
ReadArrives ==
  /\ pullPc = "idle"
  /\ nR < MaxReads
  /\ nR' = nR + 1
  /\ \/ /\ pullPc' = "pull"
        /\ rst' = [rst EXCEPT ![nR + 1] = "handling"]
     \/ /\ "retrieve" \in Faults
        /\ pullPc' = "stuck"
        /\ rst' = [rst EXCEPT ![nR + 1] = "leaked"]
  /\ UNCHANGED <<WriteBufferQueue, ReadBufferQueue, pushVars, held, wst, got,
                 bytes>>

\* Faulty variant: the list head itself is taken for an entry when the list
\* is empty.
PullRemove_NoEmptyTest ==
  /\ pullPc = "pull"
  /\ pullPc' = "deliver"
  /\ IF WriteBufferQueue = << >>
     THEN UNCHANGED <<held, WriteBufferQueue>>
     ELSE /\ held' = Head(WriteBufferQueue)
          /\ WriteBufferQueue' = RemoveHeadList(WriteBufferQueue)
  /\ UNCHANGED <<ReadBufferQueue, pushVars, nR, wst, rst, got, bytes>>

\* WRQueuePullRead unlinks the oldest buffered write under qsync; without one
\* the read is to be pended.  Nothing holds the writer back after this.
PullRemove ==
  /\ pullPc = "pull"
  /\ \/ /\ WriteBufferQueue # << >>
        /\ held' = Head(WriteBufferQueue)
        /\ WriteBufferQueue' = RemoveHeadList(WriteBufferQueue)
        /\ pullPc' = "deliver"
     \/ /\ WriteBufferQueue = << >>
        /\ pullPc' = "forward"
        /\ UNCHANGED <<held, WriteBufferQueue>>
  /\ UNCHANGED <<ReadBufferQueue, pushVars, nR, wst, rst, got, bytes>>

\* The unlinked entry is copied out and freed, and the read completed.
PullDeliver ==
  /\ pullPc = "deliver"
  /\ pullPc' = "idle"
  /\ held' = 0
  /\ rst' = [rst EXCEPT ![nR] = "success"]
  /\ got' = [got EXCEPT ![nR] = held]
  /\ bytes' = [bytes EXCEPT ![nR] = MINLEN(WLen[held], RLen[nR])]
  /\ UNCHANGED <<WriteBufferQueue, ReadBufferQueue, pushVars, nR, wst>>

\* The read is forwarded to ReadBufferQueue.  A failure is only traced: the
\* caller sees "not ready", takes the read for pended and returns.
PullForward ==
  /\ pullPc = "forward"
  /\ \/ /\ ReadBufferQueue' = Append(ReadBufferQueue, nR)
        /\ rst' = [rst EXCEPT ![nR] = "pended"]
        /\ pullPc' = "idle"
     \/ /\ "forward" \in Faults
        /\ rst' = [rst EXCEPT ![nR] = "leaked"]
        /\ pullPc' = "stuck"
        /\ UNCHANGED ReadBufferQueue
  /\ UNCHANGED <<WriteBufferQueue, pushVars, nR, held, wst, got, bytes>>

\* The owner of the i-th pended read cancels it: the framework takes it off the
\* queue and calls _WQQCancelRequest (or _WQQCancelUSBRequest).
CancelRead(i) ==
  /\ ReadBufferQueue' = RemoveAt(ReadBufferQueue, i)
  /\ rst' = [rst EXCEPT ![ReadBufferQueue[i]] = "cancelled"]
  /\ UNCHANGED <<WriteBufferQueue, pushVars, pullVars, wst, got, bytes>>

-----------------------------------------------------------------------------
PushStep == PushRetrieve \/ PushInsert \/ PushMatch
PullStep == PullRemove \/ PullDeliver \/ PullForward

Next ==
  \/ WriteArrives
  \/ PushStep
  \/ ReadArrives
  \/ PullStep
  \/ \E i \in DOMAIN ReadBufferQueue : CancelRead(i)

\* A running handler finishes: it is ordinary code that never waits.  Arrivals
\* and cancellations are the client's choice.
Fairness == WF_vars(PushStep) /\ WF_vars(PullStep)

Spec == Init /\ [][Next]_vars /\ Fairness

-----------------------------------------------------------------------------
(* Properties *)

\* Where the data of an accepted write can be.
Accepted  == {w \in Writes : wst[w] = "success"}
Buffered  == Range(WriteBufferQueue)
InHand    == {held} \ {0}
Served    == {r \in Reads : rst[r] = "success"}
Delivered == {got[r] : r \in Served}

\* Every write the driver completed with success has its data in exactly one
\* place: in the list once, in the hands of the reader, or in the buffer of
\* one successful read; nothing else is ever delivered, and no copy overruns
\* either buffer.  A write is completed before its data moves on, so this spans
\* both handlers.
NothingLostOrDuplicated ==
  /\ Accepted = Buffered \cup InHand \cup Delivered
  /\ Buffered \cap InHand = {}
  /\ (Buffered \cup InHand) \cap Delivered = {}
  /\ IsInjective(WriteBufferQueue)
  /\ \A r, s \in Served : got[r] = got[s] => r = s
  /\ \A r \in Served : bytes[r] <= RLen[r] /\ bytes[r] <= WLen[got[r]]

\* Who owns a request can be told from its status.
WriteOwner(w) ==
  /\ wst[w] = "none" <=> w > nW
  /\ wst[w] = "handling" <=> (w = nW /\ pushPc # "idle")

ReadOwner(r) ==
  /\ rst[r] = "none" <=> r > nR
  /\ rst[r] = "handling" <=> (r = nR /\ pullPc \in {"pull", "deliver", "forward"})
  /\ rst[r] = "leaked" <=> (r = nR /\ pullPc = "stuck")
  /\ rst[r] = "pended" <=> r \in Range(ReadBufferQueue)
  /\ rst[r] = "matched" <=> matched = r

\* A request that is not completed is owned by exactly one party: a write by
\* its handler, a read by its handler, by ReadBufferQueue or by the write
\* handler that dequeued it.  Completing a request somebody else still owns is
\* a bug check in WDF.
RequestsOwnedOnce ==
  /\ \A w \in Writes : WriteOwner(w)
  /\ \A r \in Reads : ReadOwner(r)
  /\ matched # 0 <=> pushPc = "match"
  /\ held # 0 <=> pullPc = "deliver"
  /\ IsInjective(ReadBufferQueue)

\* Data left waiting and reads left waiting at the same time are the cost of
\* deciding and acting in two steps (Misc.c:138/162 against 203/209).  The
\* damage is bounded: at most one write or at most one read is stranded, even
\* counting what a handler has already decided to add, since a handler that
\* sees the other queue non-empty always drains it.
OneStrandedPair ==
  \/ Len(WriteBufferQueue) + (IF pushPc = "insert" THEN 1 ELSE 0) <= 1
  \/ Len(ReadBufferQueue) + (IF pullPc = "forward" THEN 1 ELSE 0) <= 1

\* Buffered data leaves in the order it came in: the entry in the reader's
\* hand is older than all in the list, and the list is sorted by age.
BufferedInOrder ==
  /\ \A i, j \in DOMAIN WriteBufferQueue :
        i < j => WriteBufferQueue[i] < WriteBufferQueue[j]
  /\ held # 0 => \A w \in Buffered : held < w

\* No request is completed twice, and a completed read keeps what it got.
CompletedOnce ==
  [][/\ \A r \in Reads : rst[r] \in ReadCompleted =>
           rst'[r] = rst[r] /\ got'[r] = got[r] /\ bytes'[r] = bytes[r]
     /\ \A w \in Writes : wst[w] \in WriteCompleted => wst'[w] = wst[w]]_vars

\* "writes never pended, always completed" (USBCom.c:201, BackChannel.c:181).
WritesAlwaysComplete ==
  \A w \in Writes : wst[w] = "handling" ~> wst[w] \in WriteCompleted

\* The two handlers together are a MissionPipe.  What is buffered or in the
\* reader's hand is in transit; how a read waits is not visible outside.
Asked == [r \in Reads |->
            IF rst[r] \in {"handling", "pended", "matched", "leaked"}
            THEN "waiting" ELSE rst[r]]

Pipe == INSTANCE MissionPipe WITH
          NoWrite <- 0,
          transit <- Buffered \cup InHand,
          written <- wst,
          asked   <- Asked,
          answer  <- got

\* Every step of the handlers is a step of the abstract pipe or invisible.
IsAMissionPipe == Pipe!PipeSpec
=============================================================================
