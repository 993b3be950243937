---------------------------- MODULE WRQueueProofs ----------------------------
(***************************************************************************)
(* Proofs about WRQueue, for any number of writes and reads of any length  *)
(* and any combination of failing framework calls.                         *)
(***************************************************************************)
EXTENDS WRQueue, QueueLemmas

-----------------------------------------------------------------------------
(* Type correctness *)

LEMMA InitTypeOK == Init => TypeOK
  BY BoundsAssumption DEF Init, TypeOK, Writes, Reads, PushPc, PullPc,
       WriteStatus, ReadStatus

LEMMA MINLENInNat == \A a, b \in Nat : MINLEN(a, b) \in Nat
  BY DEF MINLEN

LEMMA NextTypeOK == TypeOK /\ [Next]_vars => TypeOK'
<1> SUFFICES ASSUME TypeOK, [Next]_vars PROVE TypeOK'
  OBVIOUS
<1> USE BoundsAssumption
<1>1. CASE WriteArrives
  <2>1. nW + 1 \in Writes /\ nW + 1 \in 0 .. MaxWrites
    BY <1>1 DEF WriteArrives, TypeOK, Writes
  <2> QED BY <1>1, <2>1 DEF WriteArrives, TypeOK, PushPc, WriteStatus, pullVars
<1>2. CASE PushRetrieve
  <2>1. ReadBufferQueue # << >> =>
          /\ Head(ReadBufferQueue) \in Reads
          /\ Tail(ReadBufferQueue) \in Seq(Reads)
    BY HeadTailProperties DEF TypeOK
  <2> QED BY <1>2, <2>1 DEF PushRetrieve, TypeOK, PushPc, ReadStatus, pullVars,
              PendedReadFound, RetrieveNextRequest
<1>3. CASE PushInsert
  <2>1. nW \in Writes
    BY <1>3 DEF PushInsert, TypeOK
  <2>2. InsertTailList(WriteBufferQueue, nW) \in Seq(Writes)
    BY <2>1, AppendProperties DEF TypeOK, InsertTailList
  <2> QED BY <1>3, <2>1, <2>2 DEF PushInsert, TypeOK, PushPc, WriteStatus, pullVars
<1>4. CASE PushMatch
  <2>1. nW \in Writes /\ matched \in Reads
    BY <1>4 DEF PushMatch, TypeOK
  <2>2. MINLEN(RLen[matched], WLen[nW]) \in Nat
    BY <2>1, LengthsAssumption, MINLENInNat
  <2>3. /\ rst' \in [Reads -> ReadStatus]
        /\ wst' \in [Writes -> WriteStatus]
    BY <1>4 DEF PushMatch, TypeOK, WriteStatus, ReadStatus
  <2>4. got' \in [Reads -> Writes \cup {0}]
    BY <1>4, <2>1 DEF PushMatch, TypeOK
  <2>5. bytes' \in [Reads -> Nat]
    BY <1>4, <2>1, <2>2 DEF PushMatch, TypeOK
  <2> QED BY <1>4, <2>1, <2>3, <2>4, <2>5 DEF PushMatch, TypeOK, PushPc, pullVars
<1>5. CASE ReadArrives
  <2>1. nR + 1 \in Reads /\ nR + 1 \in 0 .. MaxReads
    BY <1>5 DEF ReadArrives, TypeOK, Reads
  <2> QED BY <1>5, <2>1 DEF ReadArrives, TypeOK, PullPc, ReadStatus, pushVars
<1>6. CASE PullRemove
  <2>1. WriteBufferQueue # << >> =>
          /\ Head(WriteBufferQueue) \in Writes
          /\ Tail(WriteBufferQueue) \in Seq(Writes)
    BY HeadTailProperties DEF TypeOK
  <2> QED BY <1>6, <2>1 DEF PullRemove, TypeOK, PullPc, pushVars, RemoveHeadList
<1>7. CASE PullDeliver
  <2>1. nR \in Reads /\ held \in Writes
    BY <1>7 DEF PullDeliver, TypeOK
  <2>2. MINLEN(WLen[held], RLen[nR]) \in Nat
    BY <2>1, LengthsAssumption, MINLENInNat
  <2> QED BY <1>7, <2>1, <2>2 DEF PullDeliver, TypeOK, PullPc, ReadStatus, pushVars
<1>8. CASE PullForward
  <2>1. nR \in Reads
    BY <1>8 DEF PullForward, TypeOK
  <2>2. Append(ReadBufferQueue, nR) \in Seq(Reads)
    BY <2>1, AppendProperties DEF TypeOK
  <2> QED BY <1>8, <2>1, <2>2 DEF PullForward, TypeOK, PullPc, ReadStatus, pushVars
<1>9. CASE \E i \in DOMAIN ReadBufferQueue : CancelRead(i)
  <2> PICK i \in DOMAIN ReadBufferQueue : CancelRead(i)
    BY <1>9
  <2>1. ReadBufferQueue \in Seq(Reads)
    BY DEF TypeOK
  <2>2. RemoveAt(ReadBufferQueue, i) \in Seq(Reads)
    BY <2>1, RemoveAtProperties
  <2> QED BY <2>2 DEF CancelRead, TypeOK, ReadStatus, pushVars, pullVars
<1>10. CASE UNCHANGED vars
  BY <1>10 DEF TypeOK, vars
<1> QED
  BY <1>1, <1>2, <1>3, <1>4, <1>5, <1>6, <1>7, <1>8, <1>9, <1>10
     DEF Next, PushStep, PullStep

\* Every variable keeps its type; in particular a handler that is about to
\* complete a matched read, or to copy an unlinked entry, does have one.
THEOREM TypeCorrect == Spec => []TypeOK
  BY InitTypeOK, NextTypeOK, PTL DEF Spec

-----------------------------------------------------------------------------
(* Stranded data and stranded reads *)

\* What each handler decides is decided by looking at the other queue, so the
\* side that commits to waiting does so while the other side holds at most
\* what its own handler is committed to.
LEMMA NextOneStrandedPair ==
  TypeOK /\ OneStrandedPair /\ [Next]_vars => OneStrandedPair'
<1> SUFFICES ASSUME TypeOK, OneStrandedPair, [Next]_vars PROVE OneStrandedPair'
  OBVIOUS
<1>q. /\ WriteBufferQueue \in Seq(Writes)
      /\ ReadBufferQueue \in Seq(Reads)
      /\ Len(WriteBufferQueue) \in Nat
      /\ Len(ReadBufferQueue) \in Nat
  BY LenProperties DEF TypeOK
<1>1. CASE WriteArrives
  BY <1>1, <1>q DEF WriteArrives, OneStrandedPair, pullVars
<1>2. CASE PushRetrieve
  <2>1. CASE PendedReadFound
    <3>1. Len(Tail(ReadBufferQueue)) = Len(ReadBufferQueue) - 1
      BY <1>q, <2>1, HeadTailProperties DEF PendedReadFound
    <3> QED BY <1>2, <1>q, <2>1, <3>1
            DEF PushRetrieve, OneStrandedPair, pullVars, RetrieveNextRequest
  <2>2. CASE ~PendedReadFound
    <3>1. Len(ReadBufferQueue) = 0
      BY <2>2, EmptySeq DEF PendedReadFound
    <3> QED BY <1>2, <1>q, <2>2, <3>1 DEF PushRetrieve, OneStrandedPair, pullVars
  <2> QED BY <2>1, <2>2
<1>3. CASE PushInsert
  <2>1. nW \in Writes
    BY <1>3 DEF PushInsert, TypeOK
  <2>2. Len(InsertTailList(WriteBufferQueue, nW)) = Len(WriteBufferQueue) + 1
    BY <1>q, <2>1, AppendProperties DEF InsertTailList
  <2> QED BY <1>3, <1>q, <2>2 DEF PushInsert, OneStrandedPair, pullVars
<1>4. CASE PushMatch
  BY <1>4, <1>q DEF PushMatch, OneStrandedPair, pullVars
<1>5. CASE ReadArrives
  BY <1>5, <1>q DEF ReadArrives, OneStrandedPair, pushVars
<1>6. CASE PullRemove
  <2>1. CASE WriteBufferQueue # << >>
    <3>1. Len(Tail(WriteBufferQueue)) = Len(WriteBufferQueue) - 1
      BY <1>q, <2>1, HeadTailProperties
    <3> QED BY <1>6, <1>q, <2>1, <3>1
            DEF PullRemove, OneStrandedPair, pushVars, RemoveHeadList
  <2>2. CASE WriteBufferQueue = << >>
    <3>1. Len(WriteBufferQueue) = 0
      BY <2>2, EmptySeq
    <3> QED BY <1>6, <1>q, <2>2, <3>1 DEF PullRemove, OneStrandedPair, pushVars
  <2> QED BY <2>1, <2>2
<1>7. CASE PullDeliver
  BY <1>7, <1>q DEF PullDeliver, OneStrandedPair, pushVars
<1>8. CASE PullForward
  <2>1. nR \in Reads
    BY <1>8 DEF PullForward, TypeOK
  <2>2. Len(Append(ReadBufferQueue, nR)) = Len(ReadBufferQueue) + 1
    BY <1>q, <2>1, AppendProperties
  <2> QED BY <1>8, <1>q, <2>2 DEF PullForward, OneStrandedPair, pushVars
<1>9. CASE \E i \in DOMAIN ReadBufferQueue : CancelRead(i)
  <2> PICK i \in DOMAIN ReadBufferQueue : CancelRead(i)
    BY <1>9
  <2>1. Len(RemoveAt(ReadBufferQueue, i)) = Len(ReadBufferQueue) - 1
    BY <1>q, RemoveAtProperties
  <2> QED BY <1>q, <2>1 DEF CancelRead, OneStrandedPair, pushVars, pullVars
<1>10. CASE UNCHANGED vars
  BY <1>10 DEF OneStrandedPair, vars
<1> QED
  BY <1>1, <1>2, <1>3, <1>4, <1>5, <1>6, <1>7, <1>8, <1>9, <1>10
     DEF Next, PushStep, PullStep

\* The race between the two handlers strands at most one write or at most one
\* read, however long the queue has been in use.
THEOREM StrandingIsBounded == Spec => []OneStrandedPair
<1>1. Init => OneStrandedPair
  BY EmptySeq DEF Init, OneStrandedPair
<1> QED BY <1>1, InitTypeOK, NextTypeOK, NextOneStrandedPair, PTL DEF Spec

-----------------------------------------------------------------------------
(* Every request has one owner *)

LEMMA InitOwned == Init => RequestsOwnedOnce
<1> SUFFICES ASSUME Init PROVE RequestsOwnedOnce
  OBVIOUS
<1>1. Range(ReadBufferQueue) = {} /\ IsInjective(ReadBufferQueue)
  BY DEF Init, Range, IsInjective
<1> QED BY <1>1, BoundsAssumption
        DEF Init, RequestsOwnedOnce, WriteOwner, ReadOwner, Writes, Reads

LEMMA NextOwned ==
  TypeOK /\ RequestsOwnedOnce /\ [Next]_vars => RequestsOwnedOnce'
<1> SUFFICES ASSUME TypeOK, RequestsOwnedOnce, [Next]_vars
             PROVE  RequestsOwnedOnce'
  OBVIOUS
<1> USE BoundsAssumption
<1>q. /\ ReadBufferQueue \in Seq(Reads)
      /\ IsInjective(ReadBufferQueue)
      /\ 0 \notin Reads /\ 0 \notin Writes
  BY DEF TypeOK, RequestsOwnedOnce, Reads, Writes
<1>o. /\ \A w \in Writes : WriteOwner(w)
      /\ \A r \in Reads : ReadOwner(r)
      /\ matched # 0 <=> pushPc = "match"
      /\ held # 0 <=> pullPc = "deliver"
  BY DEF RequestsOwnedOnce
<1>u. /\ UNCHANGED <<wst, nW>> /\ (pushPc' = "idle" <=> pushPc = "idle")
        => \A w \in Writes : WriteOwner(w)'
      /\ UNCHANGED <<rst, nR, pullPc, ReadBufferQueue, matched>>
        => \A r \in Reads : ReadOwner(r)'
  BY <1>o DEF WriteOwner, ReadOwner
<1>1. CASE WriteArrives
  <2>1. nW + 1 \in Writes /\ \A w \in Writes : w > nW + 1 <=> (w > nW /\ w # nW + 1)
    BY <1>1 DEF WriteArrives, TypeOK, Writes
  <2>2. \A w \in Writes : WriteOwner(w)'
    BY <1>1, <1>o, <2>1 DEF WriteArrives, WriteOwner, TypeOK, Writes
  <2> QED BY <1>1, <1>q, <1>o, <1>u, <2>2
          DEF WriteArrives, RequestsOwnedOnce, pullVars
<1>2. CASE PushRetrieve
  <2>1. CASE PendedReadFound
    <3> DEFINE h == Head(ReadBufferQueue)
    <3>1. /\ h \in Reads
          /\ h \in Range(ReadBufferQueue)
          /\ Range(Tail(ReadBufferQueue)) = Range(ReadBufferQueue) \ {h}
          /\ IsInjective(Tail(ReadBufferQueue))
      BY <1>q, <2>1, TailRange, HeadTailProperties DEF PendedReadFound
    <3>2. /\ matched' = h
          /\ ReadBufferQueue' = Tail(ReadBufferQueue)
          /\ rst' = [rst EXCEPT ![h] = "matched"]
          /\ pushPc = "push" /\ pushPc' = "match"
          /\ UNCHANGED <<nW, nR, pullPc, held, wst>>
      BY <1>2, <2>1 DEF PushRetrieve, RetrieveNextRequest, pullVars
    <3> HIDE DEF h
    <3>3. matched = 0
      BY <1>o, <3>2
    <3>4. \A r \in Reads : ReadOwner(r)'
      BY <1>q, <1>o, <3>1, <3>2, <3>3 DEF ReadOwner, TypeOK
    <3> QED BY <1>q, <1>o, <1>u, <3>1, <3>2, <3>4 DEF RequestsOwnedOnce
  <2>2. CASE ~PendedReadFound
    BY <1>2, <1>q, <1>o, <1>u, <2>2 DEF PushRetrieve, RequestsOwnedOnce, pullVars
  <2> QED BY <2>1, <2>2
<1>3. CASE PushInsert
  <2>1. nW \in Writes /\ pushPc # "idle" /\ pushPc # "match"
    BY <1>3 DEF PushInsert, TypeOK
  <2>2. \A w \in Writes : WriteOwner(w)'
    BY <1>3, <1>o, <2>1 DEF PushInsert, WriteOwner, TypeOK, Writes
  <2> QED BY <1>3, <1>q, <1>o, <1>u, <2>1, <2>2
          DEF PushInsert, RequestsOwnedOnce, pullVars
<1>4. CASE PushMatch
  <2>1. nW \in Writes /\ pushPc # "idle" /\ matched \in Reads
    BY <1>4 DEF PushMatch, TypeOK
  <2>2. \A w \in Writes : WriteOwner(w)'
    BY <1>4, <1>o, <2>1 DEF PushMatch, WriteOwner, TypeOK, Writes
  <2>3. \A r \in Reads : ReadOwner(r)'
    <3>1. /\ matched' = 0
          /\ rst' = [rst EXCEPT ![matched] = "success"]
             \/ rst' = [rst EXCEPT ![matched] = "error"]
          /\ UNCHANGED <<nR, pullPc, ReadBufferQueue>>
      BY <1>4 DEF PushMatch, pullVars
    <3> QED BY <1>q, <1>o, <2>1, <3>1 DEF ReadOwner, TypeOK
  <2> QED BY <1>4, <1>q, <1>o, <2>2, <2>3
          DEF PushMatch, RequestsOwnedOnce, pullVars
<1>5. CASE ReadArrives
  <2>1. nR + 1 \in Reads /\ \A r \in Reads : r > nR + 1 <=> (r > nR /\ r # nR + 1)
    BY <1>5 DEF ReadArrives, TypeOK, Reads
  <2>2. \A r \in Reads : r = nR + 1 => r > nR /\ r # nR
    BY DEF TypeOK, Reads
  <2>3. ASSUME NEW r \in Reads PROVE ReadOwner(r)'
    <3>1. ReadOwner(r)
      BY <1>o
    <3>2. /\ pullPc = "idle" /\ nR' = nR + 1
          /\ \/ pullPc' = "pull" /\ rst' = [rst EXCEPT ![nR + 1] = "handling"]
             \/ pullPc' = "stuck" /\ rst' = [rst EXCEPT ![nR + 1] = "leaked"]
          /\ UNCHANGED <<ReadBufferQueue, matched>>
      BY <1>5 DEF ReadArrives, pushVars
    <3> QED BY <2>1, <2>2, <3>1, <3>2 DEF ReadOwner, TypeOK
  <2>4. UNCHANGED <<wst, nW, pushPc, matched, held, ReadBufferQueue>>
        /\ pullPc # "deliver" /\ pullPc' # "deliver"
    BY <1>5 DEF ReadArrives, pushVars
  <2> QED BY <1>q, <1>o, <1>u, <2>3, <2>4 DEF RequestsOwnedOnce
<1>6. CASE PullRemove
  <2>1. \A r \in Reads : ReadOwner(r)'
    BY <1>6, <1>o DEF PullRemove, ReadOwner, pushVars
  <2>2. held' # 0 <=> pullPc' = "deliver"
    BY <1>6, <1>q, <1>o, HeadTailProperties DEF PullRemove, TypeOK
  <2> QED BY <1>6, <1>q, <1>o, <1>u, <2>1, <2>2
          DEF PullRemove, RequestsOwnedOnce, pushVars
<1>7. CASE PullDeliver
  <2>1. \A r \in Reads : ReadOwner(r)'
    BY <1>7, <1>o DEF PullDeliver, ReadOwner, pushVars, TypeOK
  <2> QED BY <1>7, <1>q, <1>o, <1>u, <2>1
          DEF PullDeliver, RequestsOwnedOnce, pushVars
<1>8. CASE PullForward
  <2>1. nR \in Reads /\ rst[nR] = "handling"
    BY <1>8, <1>o DEF PullForward, TypeOK, ReadOwner
  <2>2. nR \notin Range(ReadBufferQueue)
    BY <1>o, <2>1 DEF ReadOwner
  <2>3. /\ Range(Append(ReadBufferQueue, nR)) = Range(ReadBufferQueue) \cup {nR}
        /\ IsInjective(Append(ReadBufferQueue, nR))
    BY <1>q, <2>1, <2>2, AppendRange
  <2>4. \A r \in Reads : ReadOwner(r)'
    BY <1>8, <1>o, <2>1, <2>3 DEF PullForward, ReadOwner, pushVars, TypeOK
  <2> QED BY <1>8, <1>q, <1>o, <1>u, <2>3, <2>4
          DEF PullForward, RequestsOwnedOnce, pushVars
<1>9. CASE \E i \in DOMAIN ReadBufferQueue : CancelRead(i)
  <2> PICK i \in DOMAIN ReadBufferQueue : CancelRead(i)
    BY <1>9
  <2> DEFINE c == ReadBufferQueue[i]
  <2>1. /\ Range(RemoveAt(ReadBufferQueue, i)) = Range(ReadBufferQueue) \ {c}
        /\ IsInjective(RemoveAt(ReadBufferQueue, i))
    BY <1>q, RemoveAtRange
  <2>2. c \in Range(ReadBufferQueue) /\ c \in Reads
    BY <1>q, ElementOfSeq, LenProperties DEF Range
  <2>3. /\ ReadBufferQueue' = RemoveAt(ReadBufferQueue, i)
        /\ rst' = [rst EXCEPT ![c] = "cancelled"]
        /\ UNCHANGED <<nW, pushPc, matched, nR, pullPc, held, wst>>
    BY DEF CancelRead, pushVars, pullVars
  <2> HIDE DEF c
  <2>4. \A r \in Reads : ReadOwner(r)'
    BY <1>o, <2>1, <2>2, <2>3 DEF ReadOwner, TypeOK
  <2> QED BY <1>o, <1>u, <2>1, <2>3, <2>4 DEF RequestsOwnedOnce
<1>10. CASE UNCHANGED vars
  BY <1>10, <1>q, <1>o, <1>u DEF RequestsOwnedOnce, vars
<1> QED
  BY <1>1, <1>2, <1>3, <1>4, <1>5, <1>6, <1>7, <1>8, <1>9, <1>10
     DEF Next, PushStep, PullStep

\* No request is ever owned by two parties, and none is forgotten: the ones
\* that leave the model's books are exactly the leaked ones.
THEOREM OneOwner == Spec => []RequestsOwnedOnce
  BY InitOwned, NextOwned, InitTypeOK, NextTypeOK, PTL DEF Spec

-----------------------------------------------------------------------------
(* No data is lost or duplicated *)

LEMMA MINLENBounds ==
  \A a, b \in Nat : MINLEN(a, b) <= a /\ MINLEN(a, b) <= b
  BY DEF MINLEN

\* Completing a read r with the data of write w adds r to the served reads and
\* w to the delivered writes.
LEMMA ServeOne ==
  ASSUME TypeOK, NEW r \in Reads, NEW w \in Writes, NEW n,
         rst[r] # "success",
         rst' = [rst EXCEPT ![r] = "success"],
         got' = [got EXCEPT ![r] = w],
         bytes' = [bytes EXCEPT ![r] = n]
  PROVE  /\ Served' = Served \cup {r}
         /\ Delivered' = Delivered \cup {w}
         /\ r \notin Served
         /\ got'[r] = w /\ bytes'[r] = n
         /\ \A s \in Served : got'[s] = got[s] /\ bytes'[s] = bytes[s]
<1>1. Served' = Served \cup {r} /\ r \notin Served
  BY DEF Served, TypeOK
<1>2. /\ got'[r] = w /\ bytes'[r] = n
      /\ \A s \in Served : got'[s] = got[s] /\ bytes'[s] = bytes[s]
  BY <1>1 DEF TypeOK, Served
<1>3. Delivered' = Delivered \cup {w}
  BY <1>1, <1>2 DEF Delivered
<1> QED BY <1>1, <1>2, <1>3

LEMMA InitConserved == Init => NothingLostOrDuplicated
<1> SUFFICES ASSUME Init PROVE NothingLostOrDuplicated
  OBVIOUS
<1>1. Buffered = {} /\ IsInjective(WriteBufferQueue)
  BY DEF Init, Buffered, Range, IsInjective
<1>2. Accepted = {} /\ Served = {} /\ Delivered = {} /\ InHand = {}
  BY DEF Init, Accepted, Served, Delivered, InHand
<1> QED BY <1>1, <1>2 DEF NothingLostOrDuplicated

LEMMA NextConserved ==
  TypeOK /\ RequestsOwnedOnce /\ NothingLostOrDuplicated /\ [Next]_vars
    => NothingLostOrDuplicated'
<1> SUFFICES ASSUME TypeOK, RequestsOwnedOnce, NothingLostOrDuplicated, [Next]_vars
             PROVE  NothingLostOrDuplicated'
  OBVIOUS
<1> USE BoundsAssumption
<1>q. /\ WriteBufferQueue \in Seq(Writes)
      /\ IsInjective(WriteBufferQueue)
      /\ 0 \notin Reads /\ 0 \notin Writes
  BY DEF TypeOK, NothingLostOrDuplicated, Reads, Writes
<1>c. /\ Accepted = Buffered \cup InHand \cup Delivered
      /\ Buffered \cap InHand = {}
      /\ (Buffered \cup InHand) \cap Delivered = {}
      /\ \A r, s \in Served : got[r] = got[s] => r = s
      /\ \A r \in Served : bytes[r] <= RLen[r] /\ bytes[r] <= WLen[got[r]]
  BY DEF NothingLostOrDuplicated
<1>h. pushPc # "idle" => nW \in Writes /\ nW \notin Accepted
  BY DEF TypeOK, RequestsOwnedOnce, WriteOwner, Accepted
<1>w. UNCHANGED WriteBufferQueue => UNCHANGED Buffered
  BY DEF Buffered
<1>i. UNCHANGED held => UNCHANGED InHand
  BY DEF InHand
<1>d. UNCHANGED got /\ UNCHANGED Served => UNCHANGED Delivered
  BY DEF Delivered
<1>s. ASSUME UNCHANGED <<Accepted, Buffered, InHand, Served, WriteBufferQueue,
                         got, bytes>>
      PROVE  NothingLostOrDuplicated'
  BY <1>q, <1>c, <1>d, <1>s DEF NothingLostOrDuplicated
<1>1. CASE WriteArrives
  <2>1. UNCHANGED Accepted
    <3>1. nW + 1 \in Writes /\ wst[nW + 1] = "none"
      BY <1>1 DEF WriteArrives, TypeOK, Writes, RequestsOwnedOnce, WriteOwner
    <3> QED BY <1>1, <3>1 DEF WriteArrives, Accepted, TypeOK
  <2> QED BY <1>1, <1>w, <1>i, <1>s, <2>1 DEF WriteArrives, pullVars, Served
<1>2. CASE PushRetrieve
  <2>1. UNCHANGED Served
    <3>1. ReadBufferQueue # << >> =>
            /\ Head(ReadBufferQueue) \in Reads
            /\ rst[Head(ReadBufferQueue)] = "pended"
      BY TailRange, HeadTailProperties DEF TypeOK, RequestsOwnedOnce, ReadOwner
    <3> QED BY <1>2, <3>1 DEF PushRetrieve, PendedReadFound, Served, TypeOK
  <2> QED BY <1>2, <1>w, <1>i, <1>s, <2>1 DEF PushRetrieve, pullVars, Accepted
<1>3. CASE PushInsert
  <2>0. nW \in Writes /\ nW \notin Accepted
    BY <1>3, <1>h DEF PushInsert
  <2>u. UNCHANGED <<InHand, Served, Delivered, got, bytes>>
    BY <1>3, <1>i, <1>d DEF PushInsert, pullVars, Served
  <2>1. CASE wst' = [wst EXCEPT ![nW] = "success"]
             /\ WriteBufferQueue' = InsertTailList(WriteBufferQueue, nW)
    <3>1. Accepted' = Accepted \cup {nW}
      BY <2>0, <2>1 DEF Accepted, TypeOK
    <3>2. /\ Buffered' = Buffered \cup {nW}
          /\ IsInjective(WriteBufferQueue')
      BY <1>q, <1>c, <2>0, <2>1, AppendRange DEF Buffered, InsertTailList
    <3> QED BY <1>c, <2>0, <2>u, <3>1, <3>2 DEF NothingLostOrDuplicated
  <2>2. CASE wst' = [wst EXCEPT ![nW] = "error"] /\ UNCHANGED WriteBufferQueue
    <3>1. UNCHANGED Accepted
      BY <2>0, <2>2 DEF Accepted, TypeOK
    <3> QED BY <1>w, <1>s, <2>2, <2>u, <3>1
  <2> QED BY <1>3, <2>1, <2>2 DEF PushInsert
<1>4. CASE PushMatch
  <2>0. /\ nW \in Writes /\ nW \notin Accepted
        /\ matched \in Reads /\ rst[matched] = "matched"
    BY <1>4, <1>h DEF PushMatch, TypeOK, RequestsOwnedOnce, ReadOwner
  <2>u. UNCHANGED <<InHand, Buffered, WriteBufferQueue>>
    BY <1>4, <1>i, <1>w DEF PushMatch, pullVars
  <2>1. CASE /\ rst' = [rst EXCEPT ![matched] = "success"]
             /\ got' = [got EXCEPT ![matched] = nW]
             /\ bytes' = [bytes EXCEPT ![matched] = MINLEN(RLen[matched], WLen[nW])]
             /\ wst' = [wst EXCEPT ![nW] = "success"]
    <3>1. Accepted' = Accepted \cup {nW}
      BY <2>0, <2>1 DEF Accepted, TypeOK
    <3>2. /\ Served' = Served \cup {matched}
          /\ Delivered' = Delivered \cup {nW}
          /\ matched \notin Served
          /\ got'[matched] = nW
          /\ bytes'[matched] = MINLEN(RLen[matched], WLen[nW])
          /\ \A r \in Served : got'[r] = got[r] /\ bytes'[r] = bytes[r]
      BY <2>0, <2>1, ServeOne
    <3>3. \A r \in Served : got[r] # nW
      BY <1>c, <2>0 DEF Delivered
    <3>4. \A r \in Served' : bytes'[r] <= RLen[r] /\ bytes'[r] <= WLen[got'[r]]
      BY <1>c, <2>0, <3>2, LengthsAssumption, MINLENBounds
    <3>5. \A r, s \in Served' : got'[r] = got'[s] => r = s
      BY <1>c, <3>2, <3>3
    <3> QED BY <1>q, <1>c, <2>0, <2>u, <3>1, <3>2, <3>4, <3>5
            DEF NothingLostOrDuplicated
  <2>2. CASE /\ rst' = [rst EXCEPT ![matched] = "error"]
             /\ wst' = [wst EXCEPT ![nW] = "error"]
             /\ UNCHANGED <<got, bytes>>
    <3>1. UNCHANGED Accepted
      BY <2>0, <2>2 DEF Accepted, TypeOK
    <3>2. UNCHANGED Served
      BY <2>0, <2>2 DEF Served, TypeOK
    <3> QED BY <1>s, <2>2, <2>u, <3>1, <3>2
  <2> QED BY <1>4, <2>1, <2>2 DEF PushMatch
<1>5. CASE ReadArrives
  <2>1. UNCHANGED Served
    <3>1. nR + 1 \in Reads /\ rst[nR + 1] = "none"
      BY <1>5 DEF ReadArrives, TypeOK, Reads, RequestsOwnedOnce, ReadOwner
    <3> QED BY <1>5, <3>1 DEF ReadArrives, Served, TypeOK
  <2> QED BY <1>5, <1>w, <1>i, <1>s, <2>1 DEF ReadArrives, pushVars, Accepted
<1>6. CASE PullRemove
  <2>u. UNCHANGED <<Accepted, Served, Delivered, got, bytes>>
    BY <1>6, <1>d DEF PullRemove, Accepted, Served
  <2>0. InHand = {}
    BY <1>6 DEF PullRemove, RequestsOwnedOnce, InHand
  <2>1. CASE WriteBufferQueue # << >>
    <3> DEFINE h == Head(WriteBufferQueue)
    <3>1. /\ h \in Writes
          /\ h \in Range(WriteBufferQueue)
          /\ Range(Tail(WriteBufferQueue)) = Range(WriteBufferQueue) \ {h}
          /\ IsInjective(Tail(WriteBufferQueue))
      BY <1>q, <2>1, TailRange, HeadTailProperties
    <3>2. held' = h /\ WriteBufferQueue' = Tail(WriteBufferQueue)
      BY <1>6, <2>1 DEF PullRemove, RemoveHeadList
    <3> HIDE DEF h
    <3>3. /\ Buffered' = Buffered \ {h} /\ h \in Buffered
          /\ InHand' = {h}
      BY <1>q, <3>1, <3>2 DEF Buffered, InHand
    <3> QED BY <1>c, <2>u, <2>0, <3>1, <3>2, <3>3 DEF NothingLostOrDuplicated
  <2>2. CASE WriteBufferQueue = << >>
    BY <1>6, <1>w, <1>i, <1>s, <2>2, <2>u DEF PullRemove
  <2> QED BY <2>1, <2>2
<1>7. CASE PullDeliver
  <2>0. /\ held \in Writes /\ InHand = {held} /\ InHand' = {}
        /\ nR \in Reads /\ rst[nR] = "handling"
    BY <1>7, <1>q DEF PullDeliver, TypeOK, InHand, RequestsOwnedOnce, ReadOwner
  <2>u. UNCHANGED <<Accepted, Buffered, WriteBufferQueue>>
    BY <1>7, <1>w DEF PullDeliver, Accepted
  <2>1. /\ Served' = Served \cup {nR}
        /\ Delivered' = Delivered \cup {held}
        /\ nR \notin Served
        /\ got'[nR] = held
        /\ bytes'[nR] = MINLEN(WLen[held], RLen[nR])
        /\ \A r \in Served : got'[r] = got[r] /\ bytes'[r] = bytes[r]
    BY <1>7, <2>0, ServeOne DEF PullDeliver
  <2>2. \A r \in Served : got[r] # held
    BY <1>c, <2>0 DEF Delivered
  <2>3. \A r \in Served' : bytes'[r] <= RLen[r] /\ bytes'[r] <= WLen[got'[r]]
    BY <1>c, <2>0, <2>1, LengthsAssumption, MINLENBounds
  <2>4. \A r, s \in Served' : got'[r] = got'[s] => r = s
    BY <1>c, <2>1, <2>2
  <2> QED BY <1>q, <1>c, <2>0, <2>u, <2>1, <2>3, <2>4 DEF NothingLostOrDuplicated
<1>8. CASE PullForward
  <2>1. UNCHANGED Served
    <3>1. nR \in Reads /\ rst[nR] = "handling"
      BY <1>8 DEF PullForward, TypeOK, RequestsOwnedOnce, ReadOwner
    <3> QED BY <1>8, <3>1 DEF PullForward, Served, TypeOK
  <2> QED BY <1>8, <1>w, <1>i, <1>s, <2>1 DEF PullForward, Accepted
<1>9. CASE \E i \in DOMAIN ReadBufferQueue : CancelRead(i)
  <2> PICK i \in DOMAIN ReadBufferQueue : CancelRead(i)
    BY <1>9
  <2>1. UNCHANGED Served
    <3>1. ReadBufferQueue[i] \in Reads /\ rst[ReadBufferQueue[i]] = "pended"
      BY ElementOfSeq, LenProperties DEF TypeOK, RequestsOwnedOnce, ReadOwner, Range
    <3> QED BY <3>1 DEF CancelRead, Served, TypeOK
  <2> QED BY <1>w, <1>i, <1>s, <2>1 DEF CancelRead, pullVars, Accepted
<1>10. CASE UNCHANGED vars
  BY <1>10, <1>w, <1>i, <1>s DEF vars, Accepted, Served
<1> QED
  BY <1>1, <1>2, <1>3, <1>4, <1>5, <1>6, <1>7, <1>8, <1>9, <1>10
     DEF Next, PushStep, PullStep

\* An acknowledged write is in exactly one place until exactly one read has it,
\* whatever the interleaving of the handlers and whichever calls fail.
THEOREM Conservation == Spec => []NothingLostOrDuplicated
  BY InitTypeOK, NextTypeOK, InitOwned, NextOwned, InitConserved, NextConserved,
     PTL DEF Spec

-----------------------------------------------------------------------------
(* Completed requests stay completed *)

\* A step keeps what has been completed.
Final ==
  /\ \A r \in Reads : rst[r] \in ReadCompleted =>
       rst'[r] = rst[r] /\ got'[r] = got[r] /\ bytes'[r] = bytes[r]
  /\ \A w \in Writes : wst[w] \in WriteCompleted => wst'[w] = wst[w]

LEMMA NextIsFinal ==
  TypeOK /\ RequestsOwnedOnce /\ [Next]_vars => [Final]_vars
<1> SUFFICES ASSUME TypeOK, RequestsOwnedOnce, Next PROVE Final
  OBVIOUS
<1> USE BoundsAssumption DEF Final, ReadCompleted, WriteCompleted
<1>1. CASE WriteArrives
  <2>1. nW + 1 \in Writes /\ wst[nW + 1] = "none"
    BY <1>1 DEF WriteArrives, TypeOK, Writes, RequestsOwnedOnce, WriteOwner
  <2> QED BY <1>1, <2>1 DEF WriteArrives, TypeOK
<1>2. CASE PushRetrieve
  <2>1. ReadBufferQueue # << >> =>
          /\ Head(ReadBufferQueue) \in Reads
          /\ rst[Head(ReadBufferQueue)] = "pended"
    BY TailRange, HeadTailProperties DEF TypeOK, RequestsOwnedOnce, ReadOwner
  <2> QED BY <1>2, <2>1 DEF PushRetrieve, PendedReadFound, TypeOK
<1>3. CASE PushInsert
  <2>1. nW \in Writes /\ wst[nW] = "handling"
    BY <1>3 DEF PushInsert, TypeOK, RequestsOwnedOnce, WriteOwner
  <2> QED BY <1>3, <2>1 DEF PushInsert, TypeOK
<1>4. CASE PushMatch
  <2>1. /\ nW \in Writes /\ wst[nW] = "handling"
        /\ matched \in Reads /\ rst[matched] = "matched"
    BY <1>4 DEF PushMatch, TypeOK, RequestsOwnedOnce, WriteOwner, ReadOwner
  <2> QED BY <1>4, <2>1 DEF PushMatch, TypeOK
<1>5. CASE ReadArrives
  <2>1. nR + 1 \in Reads /\ rst[nR + 1] = "none"
    BY <1>5 DEF ReadArrives, TypeOK, Reads, RequestsOwnedOnce, ReadOwner
  <2> QED BY <1>5, <2>1 DEF ReadArrives, TypeOK
<1>6. CASE PullRemove
  BY <1>6 DEF PullRemove
<1>7. CASE PullDeliver
  <2>1. nR \in Reads /\ rst[nR] = "handling"
    BY <1>7 DEF PullDeliver, TypeOK, RequestsOwnedOnce, ReadOwner
  <2> QED BY <1>7, <2>1 DEF PullDeliver, TypeOK
<1>8. CASE PullForward
  <2>1. nR \in Reads /\ rst[nR] = "handling"
    BY <1>8 DEF PullForward, TypeOK, RequestsOwnedOnce, ReadOwner
  <2> QED BY <1>8, <2>1 DEF PullForward, TypeOK
<1>9. CASE \E i \in DOMAIN ReadBufferQueue : CancelRead(i)
  <2> PICK i \in DOMAIN ReadBufferQueue : CancelRead(i)
    BY <1>9
  <2>1. ReadBufferQueue[i] \in Reads /\ rst[ReadBufferQueue[i]] = "pended"
    BY ElementOfSeq, LenProperties DEF TypeOK, RequestsOwnedOnce, ReadOwner, Range
  <2> QED BY <2>1 DEF CancelRead, TypeOK
<1> QED
  BY <1>1, <1>2, <1>3, <1>4, <1>5, <1>6, <1>7, <1>8, <1>9
     DEF Next, PushStep, PullStep

\* Requests the driver has completed are not touched again.
THEOREM CompletionIsFinal == Spec => CompletedOnce
  BY NextIsFinal, InitTypeOK, NextTypeOK, InitOwned, NextOwned, PTL
     DEF Spec, CompletedOnce, Final

-----------------------------------------------------------------------------
(* Buffered data stays in order *)

LEMMA NextInOrder ==
  TypeOK /\ RequestsOwnedOnce /\ NothingLostOrDuplicated /\ BufferedInOrder
    /\ [Next]_vars => BufferedInOrder'
<1> SUFFICES ASSUME TypeOK, RequestsOwnedOnce, NothingLostOrDuplicated,
                    BufferedInOrder, [Next]_vars
             PROVE  BufferedInOrder'
  OBVIOUS
<1> USE BoundsAssumption
<1>q. /\ WriteBufferQueue \in Seq(Writes)
      /\ DOMAIN WriteBufferQueue = 1 .. Len(WriteBufferQueue)
      /\ Len(WriteBufferQueue) \in Nat
  BY LenProperties DEF TypeOK
<1>s. UNCHANGED <<WriteBufferQueue, held>> => BufferedInOrder'
  BY DEF BufferedInOrder, Buffered
<1>1. CASE PushInsert
  <2>1. nW \in Writes
    BY <1>1 DEF PushInsert, TypeOK
  <2>2. \A w \in Accepted : w < nW
    <3>1. \A w \in Accepted : w \in Writes /\ ~(w > nW) /\ w # nW
      BY <1>1 DEF PushInsert, RequestsOwnedOnce, WriteOwner, Accepted
    <3> QED BY <2>1, <3>1 DEF Writes
  <2>3. \A w \in Buffered \cup InHand : w < nW
    BY <2>2 DEF NothingLostOrDuplicated
  <2>4. CASE WriteBufferQueue' = InsertTailList(WriteBufferQueue, nW)
    <3> DEFINE n == Len(WriteBufferQueue)
    <3>1. /\ DOMAIN WriteBufferQueue' = 1 .. n + 1
          /\ \A i \in 1 .. n : WriteBufferQueue'[i] = WriteBufferQueue[i]
          /\ WriteBufferQueue'[n + 1] = nW
          /\ Buffered' = Buffered \cup {nW}
      BY <1>q, <2>1, <2>4, AppendProperties, AppendRange, LenProperties
         DEF InsertTailList, Buffered
    <3> HIDE DEF n
    <3>2. \A i \in 1 .. n : WriteBufferQueue[i] \in Buffered
      BY <1>q DEF Buffered, Range, n
    <3>3. ASSUME NEW i \in 1 .. n + 1, NEW j \in 1 .. n + 1, i < j
          PROVE  WriteBufferQueue'[i] < WriteBufferQueue'[j]
      <4>n. n \in Nat
        BY <1>q DEF n
      <4>1. i \in 1 .. n
        BY <3>3, <4>n
      <4>2. CASE j \in 1 .. n
        BY <1>q, <3>1, <3>3, <4>1, <4>2 DEF BufferedInOrder, n
      <4>3. CASE j = n + 1
        BY <2>3, <3>1, <3>2, <4>1, <4>3
      <4> QED BY <4>n, <4>2, <4>3
    <3>4. held' = held
      BY <1>1 DEF PushInsert, pullVars
    <3>5. held # 0 => \A w \in Buffered' : held < w
      BY <2>3, <3>1 DEF BufferedInOrder, InHand
    <3> QED BY <3>1, <3>3, <3>4, <3>5 DEF BufferedInOrder
  <2>5. CASE UNCHANGED WriteBufferQueue
    BY <1>1, <1>s, <2>5 DEF PushInsert, pullVars
  <2> QED BY <1>1, <2>4, <2>5 DEF PushInsert
<1>2. CASE PullRemove
  <2>1. CASE WriteBufferQueue # << >>
    <3> DEFINE n == Len(WriteBufferQueue)
    <3>1. /\ n \in Nat \ {0}
          /\ Head(WriteBufferQueue) = WriteBufferQueue[1]
          /\ WriteBufferQueue' = Tail(WriteBufferQueue)
          /\ held' = Head(WriteBufferQueue)
      BY <1>2, <1>q, <2>1, EmptySeq DEF PullRemove, RemoveHeadList
    <3>2. /\ Tail(WriteBufferQueue) \in Seq(Writes)
          /\ DOMAIN Tail(WriteBufferQueue) = 1 .. n - 1
          /\ \A i \in 1 .. n - 1 : Tail(WriteBufferQueue)[i] = WriteBufferQueue[i + 1]
      BY <1>q, <2>1, HeadTailProperties, LenProperties
    <3>3. \A i, j \in 1 .. n : i < j => WriteBufferQueue[i] < WriteBufferQueue[j]
      BY <1>q DEF BufferedInOrder
    <3> HIDE DEF n
    <3>4. \A i, j \in 1 .. n - 1 : i < j =>
            WriteBufferQueue'[i] < WriteBufferQueue'[j]
      BY <3>1, <3>2, <3>3
    <3>5. \A w \in Range(WriteBufferQueue') : held' < w
      <4>1. \A i \in 1 .. n - 1 : held' < WriteBufferQueue'[i]
        BY <3>1, <3>2, <3>3
      <4> QED BY <3>1, <3>2, <4>1 DEF Range
    <3> QED BY <3>1, <3>2, <3>4, <3>5 DEF BufferedInOrder, Buffered
  <2>2. CASE WriteBufferQueue = << >>
    BY <1>2, <1>s, <2>2 DEF PullRemove
  <2> QED BY <2>1, <2>2
<1>3. CASE PullDeliver
  BY <1>3 DEF PullDeliver, BufferedInOrder, Buffered
<1>4. CASE UNCHANGED <<WriteBufferQueue, held>>
  BY <1>4, <1>s
<1> QED
  BY <1>1, <1>2, <1>3, <1>4
     DEF Next, PushStep, PullStep, WriteArrives, PushRetrieve, PushMatch,
         ReadArrives, PullForward, CancelRead, pullVars, vars

\* Buffered writes leave the list in the order in which they were accepted.
THEOREM BufferIsFIFO == Spec => []BufferedInOrder
<1>1. Init => BufferedInOrder
  <2>1. Init => held = 0 /\ DOMAIN WriteBufferQueue = {}
    BY DEF Init
  <2> QED BY <2>1 DEF BufferedInOrder
<1> QED
  BY <1>1, InitTypeOK, NextTypeOK, InitOwned, NextOwned, InitConserved,
     NextConserved, NextInOrder, PTL DEF Spec

-----------------------------------------------------------------------------
(* The handlers implement the abstract pipe *)

LEMMA InitIsPipeInit == Init => Pipe!PipeInit
<1> SUFFICES ASSUME Init PROVE Pipe!PipeInit
  OBVIOUS
<1>1. Buffered \cup InHand = {}
  BY DEF Init, Buffered, InHand, Range
<1>2. Asked = [r \in Reads |-> "none"]
  BY DEF Init, Asked
<1> QED BY <1>1, <1>2 DEF Init, Pipe!PipeInit

\* How the interface of the pipe changes when the status of a read changes.
LEMMA AskedStep ==
  ASSUME TypeOK, NEW r \in Reads, NEW st, rst' = [rst EXCEPT ![r] = st]
  PROVE  Asked' = [Asked EXCEPT ![r] =
           IF st \in {"handling", "pended", "matched", "leaked"}
           THEN "waiting" ELSE st]
  BY DEF Asked, TypeOK

LEMMA StepIsPipeStep ==
  TypeOK /\ RequestsOwnedOnce /\ NothingLostOrDuplicated /\ [Next]_vars
    => [Pipe!PipeNext]_(Pipe!pipeVars)
<1> SUFFICES ASSUME TypeOK, RequestsOwnedOnce, NothingLostOrDuplicated, [Next]_vars
             PROVE  Pipe!PipeNext \/ UNCHANGED Pipe!pipeVars
  OBVIOUS
<1> USE BoundsAssumption
<1> DEFINE transit == Buffered \cup InHand
<1>t. UNCHANGED <<WriteBufferQueue, held>> => UNCHANGED transit
  BY DEF Buffered, InHand
<1>a. UNCHANGED rst => UNCHANGED Asked
  BY DEF Asked
<1>q. WriteBufferQueue \in Seq(Writes) /\ ReadBufferQueue \in Seq(Reads)
      /\ IsInjective(WriteBufferQueue) /\ 0 \notin Writes /\ 0 \notin Reads
  BY DEF TypeOK, NothingLostOrDuplicated, Writes, Reads
<1>1. CASE WriteArrives
  <2>1. nW + 1 \in Writes /\ wst[nW + 1] = "none"
    BY <1>1 DEF WriteArrives, TypeOK, Writes, RequestsOwnedOnce, WriteOwner
  <2>2. Pipe!Submit(nW + 1)
    BY <1>1, <1>t, <1>a, <2>1 DEF WriteArrives, pullVars, Pipe!Submit
  <2> QED BY <2>1, <2>2 DEF Pipe!PipeNext
<1>2. CASE PushRetrieve
  <2>1. UNCHANGED Asked
    <3>1. CASE PendedReadFound
      <4>1. /\ Head(ReadBufferQueue) \in Reads
            /\ rst[Head(ReadBufferQueue)] = "pended"
            /\ rst' = [rst EXCEPT ![Head(ReadBufferQueue)] = "matched"]
        BY <1>2, <3>1, TailRange, HeadTailProperties
           DEF PushRetrieve, PendedReadFound, TypeOK, RequestsOwnedOnce, ReadOwner
      <4> QED BY <4>1 DEF Asked, TypeOK
    <3>2. CASE ~PendedReadFound
      BY <1>2, <1>a, <3>2 DEF PushRetrieve
    <3> QED BY <3>1, <3>2
  <2> QED BY <1>2, <1>t, <2>1 DEF PushRetrieve, pullVars, Pipe!pipeVars
<1>3. CASE PushInsert
  <2>1. nW \in Writes /\ wst[nW] = "handling"
    BY <1>3 DEF PushInsert, TypeOK, RequestsOwnedOnce, WriteOwner
  <2>2. CASE wst' = [wst EXCEPT ![nW] = "success"]
             /\ WriteBufferQueue' = InsertTailList(WriteBufferQueue, nW)
    <3>1. transit' = transit \cup {nW}
      BY <1>3, <1>q, <2>1, <2>2, AppendRange
         DEF PushInsert, pullVars, Buffered, InHand, InsertTailList
    <3>2. Pipe!Accept(nW)
      BY <1>3, <1>a, <2>1, <2>2, <3>1 DEF PushInsert, Pipe!Accept
    <3> QED BY <2>1, <3>2 DEF Pipe!PipeNext
  <2>3. CASE wst' = [wst EXCEPT ![nW] = "error"] /\ UNCHANGED WriteBufferQueue
    <3>1. Pipe!Refuse(nW)
      BY <1>3, <1>a, <1>t, <2>1, <2>3 DEF PushInsert, pullVars, Pipe!Refuse
    <3> QED BY <2>1, <3>1 DEF Pipe!PipeNext
  <2> QED BY <1>3, <2>2, <2>3 DEF PushInsert
<1>4. CASE PushMatch
  <2>1. /\ nW \in Writes /\ wst[nW] = "handling"
        /\ matched \in Reads /\ rst[matched] = "matched"
        /\ Asked[matched] = "waiting"
    BY <1>4 DEF PushMatch, TypeOK, RequestsOwnedOnce, WriteOwner, ReadOwner, Asked
  <2>2. UNCHANGED transit
    BY <1>4, <1>t DEF PushMatch, pullVars
  <2>3. CASE /\ rst' = [rst EXCEPT ![matched] = "success"]
             /\ got' = [got EXCEPT ![matched] = nW]
             /\ wst' = [wst EXCEPT ![nW] = "success"]
    <3>1. Asked' = [Asked EXCEPT ![matched] = "success"]
      BY <2>1, <2>3, AskedStep
    <3>2. Pipe!PassThrough(nW, matched)
      BY <2>1, <2>2, <2>3, <3>1 DEF Pipe!PassThrough, Pipe!Answer
    <3> QED BY <2>1, <3>2 DEF Pipe!PipeNext
  <2>4. CASE /\ rst' = [rst EXCEPT ![matched] = "error"]
             /\ wst' = [wst EXCEPT ![nW] = "error"]
             /\ UNCHANGED got
    <3>1. Asked' = [Asked EXCEPT ![matched] = "error"]
      BY <2>1, <2>4, AskedStep
    <3>2. Pipe!FailBoth(nW, matched)
      BY <2>1, <2>2, <2>4, <3>1 DEF Pipe!FailBoth
    <3> QED BY <2>1, <3>2 DEF Pipe!PipeNext
  <2> QED BY <1>4, <2>3, <2>4 DEF PushMatch
<1>5. CASE ReadArrives
  <2>1. nR + 1 \in Reads /\ rst[nR + 1] = "none"
    BY <1>5 DEF ReadArrives, TypeOK, Reads, RequestsOwnedOnce, ReadOwner
  <2>2. Asked' = [Asked EXCEPT ![nR + 1] = "waiting"] /\ Asked[nR + 1] = "none"
    BY <1>5, <2>1, AskedStep DEF ReadArrives, Asked
  <2>3. Pipe!Ask(nR + 1)
    BY <1>5, <1>t, <2>2 DEF ReadArrives, Pipe!Ask
  <2> QED BY <2>1, <2>3 DEF Pipe!PipeNext
<1>6. CASE PullRemove
  <2>1. UNCHANGED transit
    <3>0. held = 0
      BY <1>6 DEF PullRemove, RequestsOwnedOnce
    <3>1. CASE WriteBufferQueue # << >>
      <4>1. /\ Head(WriteBufferQueue) \in Range(WriteBufferQueue)
            /\ Head(WriteBufferQueue) # 0
            /\ Range(Tail(WriteBufferQueue)) =
                 Range(WriteBufferQueue) \ {Head(WriteBufferQueue)}
        BY <1>q, <3>1, TailRange, HeadTailProperties
      <4> QED BY <1>6, <3>0, <3>1, <4>1 DEF PullRemove, RemoveHeadList, Buffered, InHand
    <3>2. CASE WriteBufferQueue = << >>
      BY <1>6, <1>t, <3>2 DEF PullRemove
    <3> QED BY <3>1, <3>2
  <2> QED BY <1>6, <1>a, <2>1 DEF PullRemove, Pipe!pipeVars
<1>7. CASE PullDeliver
  <2>1. /\ held \in Writes /\ held \in transit /\ transit' = transit \ {held}
        /\ nR \in Reads /\ Asked[nR] = "waiting"
    BY <1>7, <1>q DEF PullDeliver, TypeOK, InHand, Buffered, RequestsOwnedOnce,
         ReadOwner, NothingLostOrDuplicated, Asked
  <2>2. Asked' = [Asked EXCEPT ![nR] = "success"]
    BY <1>7, <2>1, AskedStep DEF PullDeliver
  <2>3. Pipe!Deliver(held, nR)
    BY <1>7, <2>1, <2>2 DEF PullDeliver, Pipe!Deliver, Pipe!Answer
  <2> QED BY <2>1, <2>3 DEF Pipe!PipeNext
<1>8. CASE PullForward
  <2>1. nR \in Reads /\ rst[nR] = "handling"
    BY <1>8 DEF PullForward, TypeOK, RequestsOwnedOnce, ReadOwner
  <2>2. UNCHANGED Asked
    BY <1>8, <2>1 DEF PullForward, Asked, TypeOK
  <2> QED BY <1>8, <1>t, <2>2 DEF PullForward, Pipe!pipeVars
<1>9. CASE \E i \in DOMAIN ReadBufferQueue : CancelRead(i)
  <2> PICK i \in DOMAIN ReadBufferQueue : CancelRead(i)
    BY <1>9
  <2> DEFINE c == ReadBufferQueue[i]
  <2>1. c \in Reads /\ rst[c] = "pended"
    BY ElementOfSeq, LenProperties DEF TypeOK, RequestsOwnedOnce, ReadOwner, Range
  <2>2. Asked' = [Asked EXCEPT ![c] = "cancelled"] /\ Asked[c] = "waiting"
    BY <2>1, AskedStep DEF CancelRead, Asked
  <2>3. Pipe!Cancel(c)
    BY <1>t, <2>2 DEF CancelRead, pullVars, Pipe!Cancel
  <2> QED BY <2>1, <2>3 DEF Pipe!PipeNext
<1>10. CASE UNCHANGED vars
  BY <1>10, <1>t, <1>a DEF vars, Pipe!pipeVars
<1> QED
  BY <1>1, <1>2, <1>3, <1>4, <1>5, <1>6, <1>7, <1>8, <1>9, <1>10
     DEF Next, PushStep, PullStep

\* WRQueuePushWrite and WRQueuePullRead with the handlers around them implement
\* MissionPipe: at most once, nothing invented, every answer final.
THEOREM ImplementsMissionPipe == Spec => IsAMissionPipe
  BY InitTypeOK, NextTypeOK, InitOwned, NextOwned, InitConserved, NextConserved,
     InitIsPipeInit, StepIsPipeStep, PTL
     DEF Spec, IsAMissionPipe, Pipe!PipeSpec

-----------------------------------------------------------------------------
(* What the clients of a queue may rely on *)

QueueInv == TypeOK /\ RequestsOwnedOnce /\ NothingLostOrDuplicated

LEMMA InitQueueInv == Init => QueueInv
  BY InitTypeOK, InitOwned, InitConserved DEF QueueInv

LEMMA NextQueueInv == QueueInv /\ [Next]_vars => QueueInv'
  BY NextTypeOK, NextOwned, NextConserved DEF QueueInv

\* A successful read has the data of a write that was dispatched, and no other
\* read has it.
LEMMA ServedOnce ==
  ASSUME QueueInv
  PROVE  /\ \A r \in Served : got[r] \in 1 .. nW
         /\ \A r, s \in Served : got[r] = got[s] => r = s
<1>1. ASSUME NEW r \in Served PROVE got[r] \in 1 .. nW
  <2>1. got[r] \in Writes /\ wst[got[r]] = "success"
    <3>1. got[r] \in Accepted
      BY DEF QueueInv, NothingLostOrDuplicated, Delivered
    <3> QED BY <3>1 DEF Accepted
  <2>2. ~(got[r] > nW)
    BY <2>1 DEF QueueInv, RequestsOwnedOnce, WriteOwner
  <2> QED BY <2>1, <2>2, BoundsAssumption DEF QueueInv, TypeOK, Writes
<1>2. \A r, s \in Served : got[r] = got[s] => r = s
  BY DEF QueueInv, NothingLostOrDuplicated
<1> QED BY <1>1, <1>2

\* What a read was served with stays, and requests are only added.
LEMMA ServedStays ==
  ASSUME QueueInv, [Next]_vars
  PROVE  /\ \A r \in Served : r \in Served' /\ got'[r] = got[r]
         /\ nW <= nW' /\ nR <= nR'
<1>1. \A r \in Served : r \in Served' /\ got'[r] = got[r]
  BY NextIsFinal DEF QueueInv, Final, Served, ReadCompleted, vars
<1>2. nW \in Nat /\ nR \in Nat
  BY BoundsAssumption DEF QueueInv, TypeOK
<1>3. nW <= nW' /\ nR <= nR'
  BY <1>2 DEF Next, WriteArrives, PushStep, PushRetrieve, PushInsert, PushMatch, ReadArrives,
     PullStep, PullRemove, PullDeliver, PullForward, CancelRead, pushVars, pullVars, vars
<1> QED BY <1>1, <1>3
==============================================================================
