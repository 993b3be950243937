------------------------ MODULE LoopbackFunctionProofs ------------------------
(***************************************************************************)
(* The options of the loopback function hold while functions exist, its    *)
(* requests are accounted for and its data comes back in order, for any    *)
(* number of functions, any values written to the attributes, any queue    *)
(* length, any number of messages and enables, and any failures.           *)
(***************************************************************************)
EXTENDS LoopbackFunction, FiniteSetTheorems, QueueLemmas

-----------------------------------------------------------------------------
(* The options *)

\* The functions that are counted are finite in number.
LEMMA CountedFinite ==
  /\ IsFiniteSet(Counted)
  /\ Cardinality(Counted) \in 0 .. Cardinality(Functions)
<1>1. Counted \subseteq Functions
  BY DEF Counted
<1>2. QED
  BY <1>1, FunctionsAssumption, FS_Subset, FS_CardinalityType

\* No attribute can be written while a function is counted.
LEMMA NoneCounted ==
  ASSUME CountExact, refcnt = 0
  PROVE  Counted = {}
BY CountedFinite, FS_EmptySet DEF CountExact

-----------------------------------------------------------------------------
(* The count *)

\* What each step does to the set of functions counted.
LEMMA CountedByStep ==
  ASSUME OptionsTypeOK
  PROVE  /\ \A a \in Attributes, num \in Numbers : Store(a, num) => Counted' = Counted
         /\ \A f \in Functions :
              /\ Alloc(f) \/ AllocBuflen(f) \/ AllocQlen(f) \/ FreeFunc(f) => Counted' = Counted
              /\ AllocCount(f) => f \notin Counted /\ Counted' = Counted \cup {f}
              /\ FreeCount(f) => f \in Counted /\ Counted' = Counted \ {f}
BY DEF OptionsTypeOK, Counted, Store, Alloc, AllocCount, AllocBuflen, AllocQlen, FreeCount,
       FreeFunc

LEMMA CountStep ==
  ASSUME OptionsTypeOK, CountExact, [OptionsNext]_optVars
  PROVE  CountExact'
<1>1. CASE UNCHANGED optVars
  BY <1>1 DEF CountExact, Counted, optVars
<1>2. ASSUME NEW a \in Attributes, NEW num \in Numbers, Store(a, num)
      PROVE  CountExact'
  BY <1>2, CountedByStep DEF CountExact, Store
<1>3. ASSUME NEW f \in Functions, Alloc(f) \/ AllocBuflen(f) \/ AllocQlen(f) \/ FreeFunc(f)
      PROVE  CountExact'
  BY <1>3, CountedByStep DEF CountExact, Alloc, AllocBuflen, AllocQlen, FreeFunc
<1>4. ASSUME NEW f \in Functions, AllocCount(f)
      PROVE  CountExact'
  <2>1. Cardinality(Counted \cup {f}) = Cardinality(Counted) + 1
    BY <1>4, CountedByStep, CountedFinite, FS_AddElement
  <2>2. QED
    BY <1>4, <2>1, CountedByStep DEF CountExact, AllocCount
<1>5. ASSUME NEW f \in Functions, FreeCount(f)
      PROVE  CountExact'
  <2>1. Cardinality(Counted \ {f}) = Cardinality(Counted) - 1
    BY <1>5, CountedByStep, CountedFinite, FS_RemoveElement
  <2>2. QED
    BY <1>5, <2>1, CountedByStep DEF CountExact, FreeCount
<1>6. QED
  BY <1>1, <1>2, <1>3, <1>4, <1>5 DEF OptionsNext

-----------------------------------------------------------------------------
(* Types *)

LEMMA TypeInit == OptionsInit => OptionsTypeOK /\ CountExact
<1>1. SUFFICES ASSUME OptionsInit PROVE OptionsTypeOK /\ CountExact
  OBVIOUS
<1>2. Counted = {}
  BY <1>1 DEF OptionsInit, Counted
<1>3. CountExact
  BY <1>1, <1>2, FS_EmptySet DEF OptionsInit, CountExact
<1>4. OptionsTypeOK
  BY <1>1, <1>3, DefaultsAssumption, ZeroQlenAssumption, CountedFinite
     DEF OptionsInit, OptionsTypeOK, Options, CountExact
<1>5. QED
  BY <1>3, <1>4

LEMMA TypeStep ==
  ASSUME OptionsTypeOK, CountExact, [OptionsNext]_optVars
  PROVE  OptionsTypeOK'
<1>1. refcnt' \in 0 .. Cardinality(Functions)
  <2>1. CountExact'
    BY CountStep
  <2>2. Counted' \subseteq Functions
    BY DEF Counted
  <2>3. QED
    BY <2>1, <2>2, FunctionsAssumption, FS_Subset, FS_CardinalityType DEF CountExact
<1>2. Qlen(opts["qlen"]) \in Numbers \cup {DEFAULTS[a] : a \in Attributes} \cup {ZeroQlen, 0}
  BY DEF OptionsTypeOK, Options, Qlen, Attributes
<1>3. CASE UNCHANGED optVars
  BY <1>3 DEF OptionsTypeOK, optVars
<1>4. ASSUME NEW a \in Attributes, NEW num \in Numbers, Store(a, num)
      PROVE  OptionsTypeOK'
  BY <1>1, <1>4 DEF OptionsTypeOK, Options, Store
<1>5. ASSUME NEW f \in Functions,
             Alloc(f) \/ AllocCount(f) \/ AllocBuflen(f) \/ AllocQlen(f) \/ FreeCount(f)
             \/ FreeFunc(f)
      PROVE  OptionsTypeOK'
  BY <1>1, <1>2, <1>5 DEF OptionsTypeOK, Options, Attributes, Alloc, AllocCount, AllocBuflen,
     AllocQlen, FreeCount, FreeFunc
<1>6. QED
  BY <1>3, <1>4, <1>5 DEF OptionsNext

-----------------------------------------------------------------------------
(* The options hold *)

\* The reference is counted before the options are read, and a store is -EBUSY
\* while anybody is counted: so every store finds no function in use.
LEMMA HoldStep ==
  ASSUME OptionsTypeOK, CountExact, OptionsHold, [OptionsNext]_optVars
  PROVE  OptionsHold'
<1>1. CASE UNCHANGED optVars
  BY <1>1 DEF OptionsHold, optVars, Qlen
<1>2. ASSUME NEW a \in Attributes, NEW num \in Numbers, Store(a, num)
      PROVE  OptionsHold'
  <2>1. \A f \in Functions : funcPc[f] \notin {"qlen", "live"}
    BY <1>2, NoneCounted DEF Store, Counted
  <2>2. QED
    BY <1>2, <2>1 DEF OptionsHold, Store
<1>3. ASSUME NEW f \in Functions,
             Alloc(f) \/ AllocCount(f) \/ AllocBuflen(f) \/ AllocQlen(f) \/ FreeCount(f)
             \/ FreeFunc(f)
      PROVE  OptionsHold'
  <2>1. opts' = opts
    BY <1>3 DEF Alloc, AllocCount, AllocBuflen, AllocQlen, FreeCount, FreeFunc
  <2>2. QED
    BY <1>3, <2>1 DEF OptionsHold, OptionsTypeOK, Options, Attributes, Qlen, Alloc, AllocCount,
       AllocBuflen, AllocQlen, FreeCount, FreeFunc
<1>4. QED
  BY <1>1, <1>2, <1>3 DEF OptionsNext

-----------------------------------------------------------------------------
\* The count of functions in f_lb_opts is exact.
THEOREM CountIsExact == OptionsSpec => [](OptionsTypeOK /\ CountExact)
<1>1. OptionsTypeOK /\ CountExact /\ [OptionsNext]_optVars => (OptionsTypeOK /\ CountExact)'
  BY CountStep, TypeStep
<1>2. QED
  BY <1>1, TypeInit, PTL DEF OptionsSpec

\* Every function keeps the options it was made from, and so do the attributes.
THEOREM OptionsAreStable == OptionsSpec => []OptionsHold
<1>1. OptionsInit => OptionsHold
  BY DEF OptionsInit, OptionsHold
<1>2. OptionsTypeOK /\ CountExact /\ OptionsHold /\ [OptionsNext]_optVars => OptionsHold'
  BY HoldStep
<1>3. QED
  BY <1>1, <1>2, CountIsExact, PTL DEF OptionsSpec

-----------------------------------------------------------------------------
(* The data *)

Entries == [pair : Pairs, msg : Messages]

PairsOf(q) == [k \in DOMAIN q |-> q[k].pair]
MsgsOf(q)  == [k \in DOMAIN q |-> q[k].msg]

-----------------------------------------------------------------------------
(* A queue of entries is a queue of pairs and one of messages *)

LEMMA EntriesSplit ==
  ASSUME NEW q \in Seq(Entries)
  PROVE  /\ PairsOf(q) \in Seq(Pairs) /\ MsgsOf(q) \in Seq(Messages)
         /\ DOMAIN PairsOf(q) = 1 .. Len(q) /\ DOMAIN MsgsOf(q) = 1 .. Len(q)
         /\ Len(PairsOf(q)) = Len(q) /\ Len(MsgsOf(q)) = Len(q)
<1>1. Len(q) \in Nat /\ q \in [1 .. Len(q) -> Entries] /\ DOMAIN q = 1 .. Len(q)
  BY LenProperties
<1>2. PairsOf(q) \in [1 .. Len(q) -> Pairs] /\ MsgsOf(q) \in [1 .. Len(q) -> Messages]
  <2>1. \A e \in Entries : e.pair \in Pairs /\ e.msg \in Messages
    BY DEF Entries
  <2>2. \A k \in 1 .. Len(q) : q[k] \in Entries
    BY <1>1
  <2>3. QED
    BY <1>1, <2>1, <2>2 DEF PairsOf, MsgsOf
<1>3. PairsOf(q) \in Seq(Pairs) /\ MsgsOf(q) \in Seq(Messages)
  <2>1. \A S : \A n \in Nat : \A f \in [1 .. n -> S] : f \in Seq(S)
    BY SeqDef
  <2>2. QED
    BY <1>1, <1>2, <2>1
<1>4. Len(PairsOf(q)) = Len(q) /\ Len(MsgsOf(q)) = Len(q)
  <2>1. /\ Len(PairsOf(q)) \in Nat /\ 1 .. Len(PairsOf(q)) = 1 .. Len(q)
        /\ Len(MsgsOf(q)) \in Nat /\ 1 .. Len(MsgsOf(q)) = 1 .. Len(q)
    BY <1>2, <1>3, LenProperties
  <2>2. QED
    BY <1>1, <2>1
<1>5. QED
  BY <1>1, <1>2, <1>3, <1>4

LEMMA EntriesTail ==
  ASSUME NEW q \in Seq(Entries), q # << >>
  PROVE  /\ Head(q) \in Entries
         /\ PairsOf(q) # << >> /\ MsgsOf(q) # << >>
         /\ Head(PairsOf(q)) = Head(q).pair /\ PairsOf(Tail(q)) = Tail(PairsOf(q))
         /\ Head(MsgsOf(q)) = Head(q).msg /\ MsgsOf(Tail(q)) = Tail(MsgsOf(q))
<1>1. /\ Len(q) \in Nat \ {0}
      /\ DOMAIN q = 1 .. Len(q)
      /\ Head(q) = q[1] /\ q[1] \in Entries
      /\ Tail(q) \in Seq(Entries)
      /\ Len(Tail(q)) = Len(q) - 1
      /\ DOMAIN Tail(q) = 1 .. Len(q) - 1
      /\ \A k \in 1 .. Len(q) - 1 : Tail(q)[k] = q[k + 1]
  BY EmptySeq, LenProperties, HeadTailProperties, ElementOfSeq
<1>2. \A k \in 1 .. Len(q) - 1 : k \in DOMAIN q /\ k + 1 \in DOMAIN q
  BY <1>1
<1>3. /\ PairsOf(q) \in Seq(Pairs) /\ Len(PairsOf(q)) = Len(q)
      /\ MsgsOf(q) \in Seq(Messages) /\ Len(MsgsOf(q)) = Len(q)
  BY EntriesSplit
<1>4. PairsOf(q) # << >> /\ MsgsOf(q) # << >>
  BY <1>1, <1>3, EmptySeq
<1>5. Head(PairsOf(q)) = q[1].pair /\ Head(MsgsOf(q)) = q[1].msg
  <2>1. 1 \in DOMAIN q
    BY <1>1
  <2>2. Head(PairsOf(q)) = PairsOf(q)[1] /\ Head(MsgsOf(q)) = MsgsOf(q)[1]
    BY <1>3, <1>4, HeadTailProperties
  <2>3. QED
    BY <2>1, <2>2 DEF PairsOf, MsgsOf
<1>6. /\ Tail(PairsOf(q)) \in Seq(Pairs) /\ Len(Tail(PairsOf(q))) = Len(q) - 1
      /\ Tail(MsgsOf(q)) \in Seq(Messages) /\ Len(Tail(MsgsOf(q))) = Len(q) - 1
      /\ \A k \in 1 .. Len(q) - 1 : /\ Tail(PairsOf(q))[k] = PairsOf(q)[k + 1]
                                    /\ Tail(MsgsOf(q))[k] = MsgsOf(q)[k + 1]
  BY <1>1, <1>3, <1>4, HeadTailProperties
<1>7. /\ PairsOf(Tail(q)) \in Seq(Pairs) /\ Len(PairsOf(Tail(q))) = Len(q) - 1
      /\ MsgsOf(Tail(q)) \in Seq(Messages) /\ Len(MsgsOf(Tail(q))) = Len(q) - 1
  BY <1>1, EntriesSplit
<1>8. \A k \in 1 .. Len(q) - 1 : /\ PairsOf(Tail(q))[k] = Tail(PairsOf(q))[k]
                                 /\ MsgsOf(Tail(q))[k] = Tail(MsgsOf(q))[k]
  BY <1>1, <1>2, <1>6 DEF PairsOf, MsgsOf
<1>9. PairsOf(Tail(q)) = Tail(PairsOf(q)) /\ MsgsOf(Tail(q)) = Tail(MsgsOf(q))
  BY <1>6, <1>7, <1>8, SeqEqual
<1>10. QED
  BY <1>1, <1>4, <1>5, <1>9

LEMMA EntriesAppend ==
  ASSUME NEW q \in Seq(Entries), NEW p \in Pairs, NEW m \in Messages
  PROVE  LET e == [pair |-> p, msg |-> m]
         IN  /\ Append(q, e) \in Seq(Entries)
             /\ PairsOf(Append(q, e)) = Append(PairsOf(q), p)
             /\ MsgsOf(Append(q, e)) = Append(MsgsOf(q), m)
<1> DEFINE e == [pair |-> p, msg |-> m]
<1>1. e \in Entries /\ e.pair = p /\ e.msg = m
  BY DEF Entries
<1> HIDE DEF e
<1>2. /\ Len(q) \in Nat
      /\ DOMAIN q = 1 .. Len(q)
      /\ Append(q, e) \in Seq(Entries)
      /\ Len(Append(q, e)) = Len(q) + 1
      /\ DOMAIN Append(q, e) = 1 .. Len(q) + 1
      /\ \A k \in 1 .. Len(q) : Append(q, e)[k] = q[k]
      /\ Append(q, e)[Len(q) + 1] = e
  BY <1>1, AppendProperties, LenProperties
<1>3. /\ PairsOf(q) \in Seq(Pairs) /\ Len(PairsOf(q)) = Len(q)
      /\ MsgsOf(q) \in Seq(Messages) /\ Len(MsgsOf(q)) = Len(q)
  BY EntriesSplit
<1>4. /\ Append(PairsOf(q), p) \in Seq(Pairs) /\ Len(Append(PairsOf(q), p)) = Len(q) + 1
      /\ Append(MsgsOf(q), m) \in Seq(Messages) /\ Len(Append(MsgsOf(q), m)) = Len(q) + 1
      /\ \A k \in 1 .. Len(q) : /\ Append(PairsOf(q), p)[k] = PairsOf(q)[k]
                                /\ Append(MsgsOf(q), m)[k] = MsgsOf(q)[k]
      /\ Append(PairsOf(q), p)[Len(q) + 1] = p
      /\ Append(MsgsOf(q), m)[Len(q) + 1] = m
  BY <1>3, AppendProperties
<1>5. /\ PairsOf(Append(q, e)) \in Seq(Pairs) /\ Len(PairsOf(Append(q, e))) = Len(q) + 1
      /\ MsgsOf(Append(q, e)) \in Seq(Messages) /\ Len(MsgsOf(Append(q, e))) = Len(q) + 1
  BY <1>2, EntriesSplit
<1>6. \A k \in 1 .. Len(q) + 1 : k \in 1 .. Len(q) \/ k = Len(q) + 1
  BY <1>2
<1>7. \A k \in 1 .. Len(q) + 1 : /\ PairsOf(Append(q, e))[k] = Append(PairsOf(q), p)[k]
                                 /\ MsgsOf(Append(q, e))[k] = Append(MsgsOf(q), m)[k]
  BY <1>1, <1>2, <1>4, <1>6 DEF PairsOf, MsgsOf
<1>8. PairsOf(Append(q, e)) = Append(PairsOf(q), p) /\ MsgsOf(Append(q, e)) = Append(MsgsOf(q), m)
  BY <1>4, <1>5, <1>7, SeqEqual
<1>9. QED
  BY <1>2, <1>8 DEF e

-----------------------------------------------------------------------------
(* The options *)

\* The function in use, and all others, are made from the options as
\* LoopbackOptions says.
THEOREM ImplementsOptions == Spec => OptionsSpec
<1>1. Init => OptionsInit
  BY DEF Init
<1>2. [Next]_vars => [OptionsNext]_optVars
  BY DEF Next, vars, OptionsStep, SetAlt, Disable, SetupStep, LbfnDisableIn, LbfnDisableOut,
     EnableIn, EnableOut, AllocPair, AllocFails, AllocReturns, FailOut, FailIn, OutComplete,
     InComplete, OutFails, InFails
<1>3. QED
  BY <1>1, <1>2, PTL DEF Spec, OptionsSpec

\* What LoopbackOptions proves holds here.
LEMMA OptionsHere == Spec => [](OptionsTypeOK /\ OptionsHold)
<1>1. Spec => [](OptionsTypeOK /\ CountExact)
  BY ImplementsOptions, CountIsExact
<1>2. Spec => []OptionsHold
  BY ImplementsOptions, OptionsAreStable
<1>3. QED
  BY <1>1, <1>2, PTL

-----------------------------------------------------------------------------
(* Types, and what is enabled and queued in each phase *)

\* Steps of set_alt and disable that touch no request.
Quiet == \/ SetAlt \/ Disable \/ EnableIn \/ EnableOut \/ AllocFails \/ AllocReturns

\* The function in use is not freed, so its queue length stays.
InUse == phase # "off" => funcPc[Used] = "live"

\* Between configurations nothing is queued, and an endpoint that is disabled
\* first stays empty while the other one is disabled.
Emptied ==
  /\ phase \in {"off", "enable_in"} => ~in_on /\ ~out_on
  /\ phase \in {"off", "enable_in", "enable_out"} => outQueue = << >> /\ inQueue = << >>
  /\ phase = "enable_out" => ~out_on
  /\ phase = "disable_out" => inQueue = << >> /\ ~in_on
  /\ phase = "fail_in" => outQueue = << >> /\ ~out_on

\* alloc_requests has made at most one pair for each turn of its loop.
Bounded == Len(outQueue) + Len(inQueue) <= IF phase = "alloc" THEN i ELSE qlen

Shape == TypeOK /\ InUse /\ Emptied /\ Bounded

LEMMA OptionsAreNumbers == ASSUME NEW o \in Options PROVE o["qlen"] \in Nat
<1> DEFINE V == Numbers \cup {DEFAULTS[a] : a \in Attributes} \cup {ZeroQlen, 0}
<1>1. V \subseteq Nat
  <2>1. \A a \in Attributes : DEFAULTS[a] \in Nat
    BY DefaultsAssumption
  <2>2. ASSUME NEW v \in V PROVE v \in Nat
    <3>1. v \in Numbers \/ (\E a \in Attributes : v = DEFAULTS[a]) \/ v = ZeroQlen \/ v = 0
      BY Zenon
    <3>2. QED
      BY <2>1, <3>1, NumbersAssumption, ZeroQlenAssumption
  <2>3. QED
    BY <2>2
<1>2. o \in [Attributes -> V]
  BY DEF Options
<1> HIDE DEF V
<1>3. "qlen" \in Attributes
  BY DEF Attributes
<1>4. QED
  BY <1>1, <1>2, <1>3

LEMMA QlenType == OptionsTypeOK => qlen \in Nat
<1>1. SUFFICES ASSUME OptionsTypeOK PROVE qlen \in Nat
  OBVIOUS
<1>2. loop[Used] \in Options
  BY <1>1, UsedAssumption DEF OptionsTypeOK
<1>3. QED
  BY <1>2, OptionsAreNumbers DEF qlen

LEMMA QlenTypeNext == OptionsTypeOK' => qlen' \in Nat
<1>1. SUFFICES ASSUME OptionsTypeOK' PROVE qlen' \in Nat
  OBVIOUS
<1>2. loop'[Used] \in Options
  BY <1>1, UsedAssumption DEF OptionsTypeOK
<1>3. QED
  BY <1>2, OptionsAreNumbers DEF qlen

LEMMA QlenStays ==
  ASSUME InUse, OptionsTypeOK, OptionsStep, phase # "off"
  PROVE  qlen' = qlen
<1>1. funcPc[Used] = "live" /\ funcPc'[Used] = "live"
  BY DEF InUse, OptionsStep
<1>2. CASE \E a \in Attributes, num \in Numbers : Store(a, num)
  BY <1>2 DEF Store, qlen
<1>3. ASSUME NEW f \in Functions, Alloc(f) \/ AllocCount(f) \/ FreeCount(f)
      PROVE  qlen' = qlen
  BY <1>3 DEF Alloc, AllocCount, FreeCount, qlen
<1>4. ASSUME NEW f \in Functions, AllocBuflen(f) \/ AllocQlen(f) \/ FreeFunc(f)
      PROVE  qlen' = qlen
  <2>1. f # Used
    BY <1>1, <1>4 DEF AllocBuflen, AllocQlen, FreeFunc
  <2>2. loop'[Used] = loop[Used]
    BY <1>4, <2>1, UsedAssumption DEF OptionsTypeOK, AllocBuflen, AllocQlen, FreeFunc
  <2>3. QED
    BY <2>2 DEF qlen
<1>5. QED
  BY <1>2, <1>3, <1>4 DEF OptionsStep, OptionsNext

LEMMA ShapeInit == Init /\ OptionsTypeOK => Shape
<1>1. SUFFICES ASSUME Init, OptionsTypeOK PROVE Shape
  OBVIOUS
<1>2. outQueue \in Seq(Pairs) /\ inQueue \in Seq(Entries) /\ received \in Seq(Messages)
  BY <1>1, EmptySeq DEF Init
<1>3. Len(outQueue) = 0 /\ Len(inQueue) = 0
  BY <1>1, EmptySeq DEF Init
<1>4. 0 \in 0 .. MaxEnables /\ 0 \in 0 .. MaxMessages
  BY BoundsAssumption
<1>5. TypeOK
  BY <1>1, <1>2, <1>4 DEF Init, TypeOK, Entries
<1>6. QED
  BY <1>1, <1>3, <1>5, QlenType DEF Shape, InUse, Emptied, Bounded, Init

LEMMA ShapeOptions ==
  ASSUME Shape, OptionsTypeOK', OptionsStep
  PROVE  Shape'
<1>1. UNCHANGED <<epVars, reqVars>>
  BY DEF OptionsStep
<1>2. qlen \in Nat /\ qlen' \in Nat
  BY QlenType, QlenTypeNext DEF Shape, TypeOK
<1>3. phase # "off" => qlen' = qlen
  BY QlenStays DEF Shape, TypeOK
<1>4. InUse'
  BY <1>1 DEF OptionsStep, InUse, epVars
<1>5. Emptied'
  BY <1>1 DEF Shape, Emptied, epVars, reqVars
<1>6. TypeOK'
  BY <1>1, <1>3 DEF Shape, TypeOK, epVars, reqVars, dataVars, Messages
<1>7. Bounded'
  <2>1. CASE phase = "off"
    <3>1. Len(outQueue') = 0 /\ Len(inQueue') = 0 /\ phase' = "off"
      BY <1>1, <2>1, EmptySeq DEF Shape, Emptied, epVars, reqVars
    <3>2. QED
      BY <1>2, <3>1 DEF Bounded
  <2>2. CASE phase # "off"
    BY <1>1, <1>3, <2>2 DEF Shape, Bounded, epVars, reqVars
  <2>3. QED
    BY <2>1, <2>2
<1>8. QED
  BY <1>4, <1>5, <1>6, <1>7 DEF Shape

LEMMA ShapeQuiet ==
  ASSUME Shape, OptionsTypeOK', Quiet
  PROVE  Shape' /\ UNCHANGED <<optVars, reqVars, nPairs>>
<1>1. UNCHANGED <<optVars, reqVars, nPairs>>
  BY DEF Quiet, SetAlt, Disable, EnableIn, EnableOut, AllocFails, AllocReturns, reqVars
<1>2. qlen' = qlen /\ qlen \in Nat
  BY <1>1, QlenType DEF Shape, TypeOK, qlen, optVars
<1>3. InUse'
  BY <1>1 DEF Shape, InUse, Quiet, SetAlt, Disable, EnableIn, EnableOut, AllocFails, AllocReturns,
     optVars
<1>4. Emptied'
  BY <1>1 DEF Shape, Emptied, Quiet, SetAlt, Disable, EnableIn, EnableOut, AllocFails,
     AllocReturns, reqVars
<1>5. /\ phase' \in {"off", "on", "disable_in", "disable_out", "enable_in", "enable_out",
                     "alloc", "fail_out", "fail_in"}
      /\ again' \in BOOLEAN /\ in_on' \in BOOLEAN /\ out_on' \in BOOLEAN
      /\ i' \in Nat /\ (phase' = "alloc" => i' <= qlen)
      /\ nEnables' \in 0 .. MaxEnables
  <2>1. /\ again' \in BOOLEAN /\ in_on' \in BOOLEAN /\ out_on' \in BOOLEAN
        /\ phase' \in {"off", "on", "disable_in", "disable_out", "enable_in", "enable_out",
                       "alloc", "fail_out", "fail_in"}
    BY Zenon DEF Shape, TypeOK, Quiet, SetAlt, Disable, EnableIn, EnableOut, AllocFails,
       AllocReturns
  <2>2. i' \in Nat /\ (phase' = "alloc" => i' <= qlen)
    <3>1. i \in Nat
      BY DEF Shape, TypeOK
    <3>2. CASE EnableOut
      BY <1>2, <3>1, <3>2 DEF EnableOut
    <3>3. CASE ~EnableOut
      BY <3>1, <3>3 DEF Quiet, SetAlt, Disable, EnableIn, AllocFails, AllocReturns
    <3>4. QED
      BY <3>2, <3>3
  <2>3. nEnables' \in 0 .. MaxEnables
    <3>1. nEnables \in 0 .. MaxEnables
      BY DEF Shape, TypeOK
    <3>2. nEnables' = nEnables \/ (nEnables < MaxEnables /\ nEnables' = nEnables + 1)
      BY DEF Quiet, SetAlt, Disable, EnableIn, EnableOut, AllocFails, AllocReturns
    <3>3. QED
      BY <3>1, <3>2, BoundsAssumption
  <2>4. QED
    BY <2>1, <2>2, <2>3
<1>6. TypeOK'
  BY <1>1, <1>2, <1>5 DEF Shape, TypeOK, reqVars, dataVars, Messages
<1>7. Bounded'
  <2>1. CASE phase = "enable_out"
    <3>1. Len(outQueue') = 0 /\ Len(inQueue') = 0
      BY <1>1, <2>1, EmptySeq DEF Shape, Emptied, reqVars
    <3>2. QED
      BY <1>2, <1>5, <3>1 DEF Bounded
  <2>2. CASE phase # "enable_out"
    <3>1. phase' # "alloc"
      BY <2>2 DEF Quiet, SetAlt, Disable, EnableIn, EnableOut, AllocFails, AllocReturns
    <3>2. Len(outQueue) + Len(inQueue) <= qlen
      <4>1. Len(outQueue) \in Nat /\ Len(inQueue) \in Nat
        BY LenProperties DEF Shape, TypeOK
      <4>2. QED
        BY <1>2, <4>1 DEF Shape, Bounded, TypeOK
    <3>3. QED
      BY <1>1, <1>2, <3>1, <3>2 DEF Bounded, reqVars
  <2>3. QED
    BY <2>1, <2>2
<1>8. QED
  BY <1>1, <1>3, <1>4, <1>6, <1>7 DEF Shape

\* A completion leaves the phase alone and adds to a queue at most what it took
\* from the other.
LEMMA ShapeComplete ==
  ASSUME Shape, UNCHANGED <<optVars, epVars>>,
         outQueue' \in Seq(Pairs), inQueue' \in Seq(Entries),
         alive' \in SUBSET (Pairs \X Parts), nSent' \in 0 .. MaxMessages,
         received' \in Seq(Messages), lost' \in SUBSET Messages, overfreed' \in BOOLEAN,
         outQueue # << >> \/ inQueue # << >>,
         inQueue = << >> /\ ~in_on => inQueue' = << >>,
         outQueue = << >> /\ ~out_on => outQueue' = << >>,
         Len(outQueue') + Len(inQueue') <= Len(outQueue) + Len(inQueue)
  PROVE  Shape'
<1>1. UNCHANGED <<phase, in_on, out_on, i, qlen>>
  BY DEF optVars, epVars, qlen
<1>2. TypeOK'
  BY <1>1 DEF Shape, TypeOK, OptionsTypeOK, optVars, epVars, Entries, Messages
<1>3. InUse'
  BY DEF Shape, InUse, optVars, epVars
<1>4. Emptied'
  BY <1>1 DEF Shape, Emptied
<1>5. Bounded'
  <2> DEFINE bound == IF phase = "alloc" THEN i ELSE qlen
  <2>1. bound' = bound
    BY <1>1
  <2>2. bound \in Nat
    BY QlenType DEF Shape, TypeOK
  <2>3. /\ Len(outQueue) \in Nat /\ Len(inQueue) \in Nat
        /\ Len(outQueue') \in Nat /\ Len(inQueue') \in Nat
    BY LenProperties DEF Shape, TypeOK
  <2>4. Len(outQueue) + Len(inQueue) <= bound
    BY DEF Shape, Bounded
  <2> HIDE DEF bound
  <2>5. Len(outQueue') + Len(inQueue') <= bound
    BY <2>2, <2>3, <2>4
  <2>6. QED
    BY <2>1, <2>5 DEF Bounded, bound
<1>6. QED
  BY <1>2, <1>3, <1>4, <1>5 DEF Shape

\* What each kind of completion does to the queues.
OutTaken == out_on /\ outQueue # << >> /\ outQueue' = Tail(outQueue)
InTaken  == in_on /\ inQueue # << >> /\ inQueue' = Tail(inQueue)

\* The kinds of completion: passed on, or freed with its pair.
OutPassed == /\ OutTaken /\ in_on /\ nSent < MaxMessages
             /\ nSent' = nSent + 1
             /\ inQueue' = Append(inQueue, [pair |-> Head(outQueue), msg |-> nSent + 1])
             /\ UNCHANGED <<alive, lost, overfreed, received>>

OutFreed == /\ OutTaken /\ UNCHANGED <<inQueue, received>>
            /\ FreePairs({Head(outQueue)})
            /\ \/ nSent < MaxMessages /\ nSent' = nSent + 1 /\ lost' = lost \cup {nSent + 1}
               \/ UNCHANGED <<nSent, lost>>

InPassed == /\ InTaken /\ out_on
            /\ outQueue' = Append(outQueue, Head(inQueue).pair)
            /\ received' = Append(received, Head(inQueue).msg)
            /\ UNCHANGED <<alive, overfreed, nSent, lost>>

InFreed == /\ InTaken /\ UNCHANGED <<outQueue, nSent>>
           /\ FreePairs({Head(inQueue).pair})
           /\ \/ received' = Append(received, Head(inQueue).msg) /\ UNCHANGED lost
              \/ lost' = lost \cup {Head(inQueue).msg} /\ UNCHANGED received

LEMMA CompletionKinds ==
  ASSUME OutComplete \/ InComplete \/ OutFails \/ InFails
  PROVE  /\ UNCHANGED <<optVars, epVars>>
         /\ OutPassed \/ OutFreed \/ InPassed \/ InFreed
<1>1. \A on : /\ TRUE \in QueueOutcomes(on) => on
              /\ \A queued \in QueueOutcomes(on) : queued \in BOOLEAN
  BY DEF QueueOutcomes
<1>2. CASE OutComplete
  BY <1>1, <1>2 DEF OutComplete, OutTaken, OutPassed, OutFreed, ToIn
<1>3. CASE InComplete
  BY <1>1, <1>3 DEF InComplete, InTaken, InPassed, InFreed
<1>4. CASE OutFails
  BY <1>4 DEF OutFails, OutTaken, OutFreed, dataVars
<1>5. CASE InFails
  BY <1>5 DEF InFails, InTaken, InFreed
<1>6. QED
  BY <1>2, <1>3, <1>4, <1>5

\* Freeing keeps the types of what it frees from.
LEMMA FreeTypes ==
  ASSUME TypeOK, NEW ps, FreePairs(ps)
  PROVE  alive' \in SUBSET (Pairs \X Parts) /\ overfreed' \in BOOLEAN
<1>1. alive' = alive \ (ps \X Parts)
  BY DEF FreePairs, Free
<1>2. overfreed' \in BOOLEAN
  BY Zenon DEF FreePairs, Free, TypeOK
<1>3. QED
  BY <1>1, <1>2 DEF TypeOK

\* Taking from either queue.
LEMMA Takes ==
  ASSUME TypeOK
  PROVE  /\ OutTaken => /\ Head(outQueue) \in Pairs
                        /\ outQueue' \in Seq(Pairs)
                        /\ Len(outQueue') = Len(outQueue) - 1
         /\ InTaken => /\ Head(inQueue) \in Entries
                       /\ Head(inQueue).pair \in Pairs /\ Head(inQueue).msg \in Messages
                       /\ inQueue' \in Seq(Entries)
                       /\ Len(inQueue') = Len(inQueue) - 1
<1>1. outQueue \in Seq(Pairs) /\ inQueue \in Seq(Entries)
  BY DEF TypeOK, Entries
<1>2. OutTaken => /\ Head(outQueue) \in Pairs
                  /\ outQueue' \in Seq(Pairs)
                  /\ Len(outQueue') = Len(outQueue) - 1
  BY <1>1, HeadTailProperties DEF OutTaken
<1>3. InTaken => /\ Head(inQueue) \in Entries
                 /\ inQueue' \in Seq(Entries)
                 /\ Len(inQueue') = Len(inQueue) - 1
  BY <1>1, HeadTailProperties DEF InTaken
<1>4. \A e \in Entries : e.pair \in Pairs /\ e.msg \in Messages
  BY DEF Entries
<1>5. QED
  BY <1>2, <1>3, <1>4

LEMMA ShapeCompletion ==
  ASSUME Shape, OutComplete \/ InComplete \/ OutFails \/ InFails
  PROVE  Shape'
<1>1. TypeOK /\ UNCHANGED <<optVars, epVars>>
  BY CompletionKinds DEF Shape
<1>2. /\ outQueue \in Seq(Pairs) /\ inQueue \in Seq(Entries)
      /\ Len(outQueue) \in Nat /\ Len(inQueue) \in Nat
      /\ alive \in SUBSET (Pairs \X Parts) /\ overfreed \in BOOLEAN
      /\ nSent \in 0 .. MaxMessages /\ received \in Seq(Messages) /\ lost \in SUBSET Messages
  BY <1>1, LenProperties DEF TypeOK, Entries
<1>3. nSent < MaxMessages => nSent + 1 \in 0 .. MaxMessages /\ nSent + 1 \in Messages
  BY <1>2, BoundsAssumption DEF Messages
<1>4. CASE OutPassed
  <2>1. /\ inQueue' \in Seq(Entries) /\ Len(inQueue') = Len(inQueue) + 1
        /\ outQueue' \in Seq(Pairs) /\ Len(outQueue') = Len(outQueue) - 1
    BY <1>1, <1>2, <1>3, <1>4, Takes, EntriesAppend, AppendProperties DEF OutPassed, Entries
  <2>2. Len(outQueue') + Len(inQueue') <= Len(outQueue) + Len(inQueue)
    BY <1>2, <2>1
  <2>3. QED
    BY <1>1, <1>2, <1>3, <1>4, <2>1, <2>2, ShapeComplete DEF OutPassed, OutTaken
<1>5. CASE OutFreed
  <2>1. outQueue' \in Seq(Pairs) /\ Len(outQueue') = Len(outQueue) - 1 /\ inQueue' = inQueue
    BY <1>1, <1>5, Takes DEF OutFreed
  <2>2. Len(outQueue') + Len(inQueue') <= Len(outQueue) + Len(inQueue)
    BY <1>2, <2>1
  <2>3. alive' \in SUBSET (Pairs \X Parts) /\ overfreed' \in BOOLEAN
    BY <1>1, <1>5, FreeTypes DEF OutFreed
  <2>4. nSent' \in 0 .. MaxMessages /\ lost' \in SUBSET Messages /\ received' = received
    BY <1>2, <1>3, <1>5 DEF OutFreed
  <2>5. QED
    BY <1>1, <1>2, <1>5, <2>1, <2>2, <2>3, <2>4, ShapeComplete DEF OutFreed, OutTaken
<1>6. CASE InPassed
  <2>1. /\ outQueue' \in Seq(Pairs) /\ Len(outQueue') = Len(outQueue) + 1
        /\ inQueue' \in Seq(Entries) /\ Len(inQueue') = Len(inQueue) - 1
        /\ received' \in Seq(Messages)
    BY <1>1, <1>2, <1>6, Takes, AppendProperties DEF InPassed
  <2>2. Len(outQueue') + Len(inQueue') <= Len(outQueue) + Len(inQueue)
    BY <1>2, <2>1
  <2>3. QED
    BY <1>1, <1>2, <1>6, <2>1, <2>2, ShapeComplete DEF InPassed, InTaken
<1>7. CASE InFreed
  <2>1. /\ inQueue' \in Seq(Entries) /\ Len(inQueue') = Len(inQueue) - 1
        /\ outQueue' = outQueue /\ nSent' = nSent
    BY <1>1, <1>7, Takes DEF InFreed
  <2>2. Len(outQueue') + Len(inQueue') <= Len(outQueue) + Len(inQueue)
    BY <1>2, <2>1
  <2>3. alive' \in SUBSET (Pairs \X Parts) /\ overfreed' \in BOOLEAN
    BY <1>1, <1>7, FreeTypes DEF InFreed
  <2>4. received' \in Seq(Messages) /\ lost' \in SUBSET Messages
    <3>1. Head(inQueue).msg \in Messages
      BY <1>1, <1>7, Takes DEF InFreed
    <3>2. Append(received, Head(inQueue).msg) \in Seq(Messages)
      BY <1>2, <3>1, AppendProperties
    <3>3. QED
      BY <1>2, <1>7, <3>1, <3>2 DEF InFreed
  <2>5. QED
    BY <1>1, <1>2, <1>7, <2>1, <2>2, <2>3, <2>4, ShapeComplete DEF InFreed, InTaken
<1>8. QED
  BY <1>4, <1>5, <1>6, <1>7, CompletionKinds

\* usb_ep_disable and a turn of alloc_requests.
DisableStep == \/ LbfnDisableIn \/ FailIn \/ LbfnDisableOut \/ FailOut

LEMMA ShapeDisable ==
  ASSUME Shape, DisableStep
  PROVE  Shape'
<1>1. UNCHANGED <<optVars, again, i, nPairs, nEnables, nSent, received>>
  BY DEF DisableStep, LbfnDisableIn, FailIn, LbfnDisableOut, FailOut, DisableIn, DisableOut,
     dataVars
<1>2. TypeOK /\ qlen' = qlen /\ qlen \in Nat
  BY <1>1, QlenType DEF Shape, TypeOK, qlen, optVars
<1>3. /\ outQueue \in Seq(Pairs) /\ inQueue \in Seq(Entries)
      /\ Len(outQueue) \in Nat /\ Len(inQueue) \in Nat
      /\ << >> \in Seq(Pairs) /\ << >> \in Seq(Entries) /\ Len(<< >>) = 0
  BY <1>2, LenProperties, EmptySeq DEF TypeOK, Entries
<1>4. \/ outQueue' = outQueue /\ inQueue' = << >>
      \/ outQueue' = << >> /\ inQueue' = inQueue
  BY DEF DisableStep, LbfnDisableIn, FailIn, LbfnDisableOut, FailOut, DisableIn, DisableOut
<1>5. alive' \in SUBSET (Pairs \X Parts) /\ overfreed' \in BOOLEAN
  BY <1>2, FreeTypes DEF DisableStep, LbfnDisableIn, FailIn, LbfnDisableOut, FailOut, DisableIn,
     DisableOut
<1>6. lost' \in SUBSET Messages
  <2>1. InMsgs \subseteq Messages
    <3>1. \A e \in Entries : e.msg \in Messages
      BY DEF Entries
    <3>2. QED
      BY <1>3, <3>1, LenProperties, ElementOfSeq DEF InMsgs
  <2>2. lost' = lost \/ lost' = lost \cup InMsgs
    BY DEF DisableStep, LbfnDisableIn, FailIn, LbfnDisableOut, FailOut, DisableIn, DisableOut,
       dataVars
  <2>3. QED
    BY <1>2, <2>1, <2>2 DEF TypeOK
<1>7. /\ phase' \in {"disable_out", "enable_in", "off", "fail_in"}
      /\ in_on' \in BOOLEAN /\ out_on' \in BOOLEAN
      /\ phase' # "off" => phase # "off"
  BY <1>2, Zenon DEF TypeOK, DisableStep, LbfnDisableIn, FailIn, LbfnDisableOut, FailOut,
     DisableIn, DisableOut
<1>8. TypeOK'
  BY <1>1, <1>2, <1>3, <1>4, <1>5, <1>6, <1>7 DEF TypeOK, OptionsTypeOK, optVars, Entries, Messages
<1>9. InUse'
  BY <1>1, <1>7 DEF Shape, InUse, optVars
<1>10. Emptied'
  BY DEF Shape, Emptied, DisableStep, LbfnDisableIn, FailIn, LbfnDisableOut, FailOut, DisableIn,
     DisableOut
<1>11. Bounded'
  <2>1. Len(outQueue) + Len(inQueue) <= qlen
    <3>1. phase # "alloc"
      BY DEF DisableStep, LbfnDisableIn, FailIn, LbfnDisableOut, FailOut
    <3>2. QED
      BY <3>1 DEF Shape, Bounded
  <2>2. Len(outQueue') + Len(inQueue') <= qlen
    BY <1>2, <1>3, <1>4, <2>1
  <2>3. phase' # "alloc"
    BY <1>7
  <2>4. QED
    BY <1>2, <2>2, <2>3 DEF Bounded
<1>12. QED
  BY <1>8, <1>9, <1>10, <1>11 DEF Shape

LEMMA ShapeAlloc ==
  ASSUME Shape, AllocPair
  PROVE  Shape'
<1>1. UNCHANGED <<optVars, phase, again, in_on, out_on, nEnables, inQueue, dataVars, overfreed>>
  BY DEF AllocPair
<1>2. /\ phase = "alloc" /\ i < qlen /\ i' = i + 1 /\ nPairs' = nPairs + 1
      /\ alive' = alive \cup ({nPairs + 1} \X Parts)
      /\ outQueue' = Append(outQueue, nPairs + 1)
  <2>1. i \in Nat /\ qlen \in Nat
    BY QlenType DEF Shape, TypeOK
  <2>2. QED
    BY <2>1 DEF AllocPair, AllocDone
<1>3. /\ TypeOK /\ qlen' = qlen /\ qlen \in Nat /\ i \in Nat /\ nPairs \in Nat
      /\ outQueue \in Seq(Pairs) /\ inQueue \in Seq(Entries)
      /\ Len(outQueue) \in Nat /\ Len(inQueue) \in Nat
  BY <1>1, QlenType, LenProperties DEF Shape, TypeOK, qlen, optVars, Entries
<1>4. nPairs + 1 \in Pairs
  BY <1>3 DEF Pairs
<1>5. outQueue' \in Seq(Pairs) /\ Len(outQueue') = Len(outQueue) + 1
  BY <1>2, <1>3, <1>4, AppendProperties
<1>6. alive' \in SUBSET (Pairs \X Parts)
  BY <1>2, <1>3, <1>4 DEF TypeOK
<1>7. i' \in Nat /\ i' <= qlen' /\ nPairs' \in Nat
  BY <1>2, <1>3
<1>8. TypeOK'
  BY <1>1, <1>3, <1>5, <1>6, <1>7 DEF TypeOK, OptionsTypeOK, optVars, Entries, Messages, dataVars
<1>9. InUse' /\ Emptied'
  BY <1>1, <1>2 DEF Shape, InUse, Emptied, optVars
<1>10. Bounded'
  <2>1. Len(outQueue) + Len(inQueue) <= i
    BY <1>2 DEF Shape, Bounded
  <2>2. Len(outQueue') + Len(inQueue') <= i'
    BY <1>1, <1>2, <1>3, <1>5, <2>1
  <2>3. QED
    BY <1>1, <1>2, <2>2 DEF Bounded
<1>11. QED
  BY <1>8, <1>9, <1>10 DEF Shape

LEMMA ShapeStep ==
  ASSUME Shape, OptionsTypeOK', [Next]_vars
  PROVE  Shape'
<1>1. CASE UNCHANGED vars
  BY <1>1 DEF vars, optVars, epVars, reqVars, dataVars, Shape, TypeOK, OptionsTypeOK, InUse,
     Emptied, Bounded, Messages, qlen
<1>2. CASE Next
  BY <1>2, ShapeOptions, ShapeQuiet, ShapeDisable, ShapeAlloc, ShapeCompletion
     DEF Next, SetupStep, Quiet, DisableStep
<1>3. QED
  BY <1>1, <1>2

\* Types hold for any number of functions, messages and selections of the
\* interface, and any queue length.
THEOREM TypeCorrect == Spec => []TypeOK
<1>1. Init /\ OptionsTypeOK => Shape
  BY ShapeInit
<1>2. Shape /\ OptionsTypeOK' /\ [Next]_vars => Shape'
  BY ShapeStep
<1>3. Shape => TypeOK
  BY DEF Shape
<1>4. QED
  BY <1>1, <1>2, <1>3, OptionsHere, PTL DEF Spec

\* No more pairs circulate than the attribute shows, at any moment: the options
\* cannot change while the function lives, and nothing is queued when it is
\* enabled again.
THEOREM QlenIsTheLimit == Spec => []AtMostQlen
<1>1. Shape /\ OptionsHold => AtMostQlen
  <2>1. SUFFICES ASSUME Shape, OptionsHold PROVE AtMostQlen
    OBVIOUS
  <2>2. CASE phase = "off"
    <3>1. Len(outQueue) = 0 /\ Len(inQueue) = 0
      BY <2>1, <2>2, EmptySeq DEF Shape, Emptied
    <3>2. Qlen(opts["qlen"]) \in Nat
      BY <2>1, OptionsAreNumbers, ZeroQlenAssumption DEF Shape, TypeOK, OptionsTypeOK, Qlen
    <3>3. QED
      BY <3>1, <3>2 DEF AtMostQlen
  <2>3. CASE phase # "off"
    <3>1. qlen = Qlen(opts["qlen"])
      BY <2>1, <2>3, UsedAssumption DEF Shape, InUse, OptionsHold, qlen
    <3>2. Len(outQueue) \in Nat /\ Len(inQueue) \in Nat /\ i \in Nat /\ qlen \in Nat
      BY <2>1, LenProperties, QlenType DEF Shape, TypeOK
    <3>3. Len(outQueue) + Len(inQueue) <= qlen
      BY <2>1, <3>2 DEF Shape, Bounded, TypeOK
    <3>4. QED
      BY <3>1, <3>3 DEF AtMostQlen
  <2>4. QED
    BY <2>2, <2>3
<1>2. Init /\ OptionsTypeOK => Shape
  BY ShapeInit
<1>3. Shape /\ OptionsTypeOK' /\ [Next]_vars => Shape'
  BY ShapeStep
<1>4. QED
  BY <1>1, <1>2, <1>3, OptionsHere, PTL DEF Spec

-----------------------------------------------------------------------------
(* Pairs *)

OutPairs == Range(outQueue)

\* PairsAccounted, and that a new pair is new.
Kept ==
  /\ alive = (OutPairs \cup Range(PairsOf(inQueue))) \X Parts
  /\ OutPairs \cap Range(PairsOf(inQueue)) = {}
  /\ IsInjective(outQueue)
  /\ IsInjective(PairsOf(inQueue))
  /\ ~overfreed
  /\ \A p \in OutPairs \cup Range(PairsOf(inQueue)) : p <= nPairs

LEMMA InPairsRange ==
  ASSUME TypeOK
  PROVE  /\ Range(PairsOf(inQueue)) = InPairs
         /\ Range(MsgsOf(inQueue)) = InMsgs
BY DEF PairsOf, MsgsOf, Range, InPairs, InMsgs

LEMMA NothingInRange == Range(<< >>) = {} /\ IsInjective(<< >>)
<1>1. DOMAIN << >> = {}
  OBVIOUS
<1>2. QED
  BY <1>1 DEF Range, IsInjective

LEMMA NoPairs == PairsOf(<< >>) = << >> /\ MsgsOf(<< >>) = << >>
<1>1. << >> \in Seq(Entries) /\ Len(<< >>) = 0
  BY EmptySeq
<1>2. /\ PairsOf(<< >>) \in Seq(Pairs) /\ Len(PairsOf(<< >>)) = 0
      /\ MsgsOf(<< >>) \in Seq(Messages) /\ Len(MsgsOf(<< >>)) = 0
  BY <1>1, EntriesSplit
<1>3. QED
  BY <1>2, EmptySeq

\* Freeing pairs that circulate.
LEMMA FreeKeeps ==
  ASSUME NEW ps, NEW all, ps \subseteq all, alive = all \X Parts, ~overfreed, FreePairs(ps)
  PROVE  alive' = (all \ ps) \X Parts /\ ~overfreed'
<1>1. alive' = alive \ (ps \X Parts) /\ (overfreed' = (overfreed \/ ~(ps \X Parts \subseteq alive)))
  BY DEF FreePairs, Free
<1>2. ps \X Parts \subseteq alive
  OBVIOUS
<1>3. (all \X Parts) \ (ps \X Parts) = (all \ ps) \X Parts
  OBVIOUS
<1>4. QED
  BY <1>1, <1>2, <1>3

LEMMA KeptCompletion ==
  ASSUME TypeOK, Kept, UNCHANGED nPairs, OutPassed \/ OutFreed \/ InPassed \/ InFreed
  PROVE  Kept'
<1> DEFINE inPairs == Range(PairsOf(inQueue))
<1>1. /\ outQueue \in Seq(Pairs) /\ inQueue \in Seq(Entries) /\ PairsOf(inQueue) \in Seq(Pairs)
  BY EntriesSplit DEF TypeOK, Entries
<1>2. OutTaken => /\ Head(outQueue) \in OutPairs /\ Head(outQueue) \in Pairs
                  /\ OutPairs' = OutPairs \ {Head(outQueue)}
                  /\ IsInjective(outQueue')
  BY <1>1, TailRange, Takes DEF Kept, OutPairs, OutTaken
<1>3. InTaken => /\ Head(inQueue).pair \in inPairs /\ Head(inQueue).pair \in Pairs
                 /\ inPairs' = inPairs \ {Head(inQueue).pair}
                 /\ IsInjective(PairsOf(inQueue'))
  <2>1. SUFFICES ASSUME InTaken
                 PROVE  /\ Head(inQueue).pair \in inPairs /\ Head(inQueue).pair \in Pairs
                        /\ inPairs' = inPairs \ {Head(inQueue).pair}
                        /\ IsInjective(PairsOf(inQueue'))
    OBVIOUS
  <2>2. inQueue # << >> /\ PairsOf(inQueue') = Tail(PairsOf(inQueue))
    BY <1>1, <2>1, EntriesTail DEF InTaken
  <2>3. PairsOf(inQueue) # << >> /\ Head(PairsOf(inQueue)) = Head(inQueue).pair
    BY <1>1, <2>2, EntriesTail
  <2>4. /\ Head(inQueue).pair \in inPairs
        /\ Range(Tail(PairsOf(inQueue))) = inPairs \ {Head(inQueue).pair}
        /\ IsInjective(Tail(PairsOf(inQueue)))
    BY <1>1, <2>3, TailRange DEF Kept
  <2>5. QED
    BY <2>1, <2>2, <2>4, Takes
<1>4. /\ alive = (OutPairs \cup inPairs) \X Parts /\ OutPairs \cap inPairs = {} /\ ~overfreed
      /\ IsInjective(outQueue) /\ IsInjective(PairsOf(inQueue))
      /\ \A p \in OutPairs \cup inPairs : p <= nPairs
  BY DEF Kept
<1>5. CASE OutPassed
  <2> DEFINE p == Head(outQueue)
  <2>1. p \in OutPairs /\ p \in Pairs /\ OutPairs' = OutPairs \ {p} /\ IsInjective(outQueue')
    BY <1>2, <1>5 DEF OutPassed
  <2>2. nSent + 1 \in Messages
    BY <1>5, BoundsAssumption DEF OutPassed, TypeOK, Messages
  <2>3. PairsOf(inQueue') = Append(PairsOf(inQueue), p)
    BY <1>1, <1>5, <2>1, <2>2, EntriesAppend DEF OutPassed
  <2>4. inPairs' = inPairs \cup {p} /\ IsInjective(PairsOf(inQueue'))
    BY <1>1, <1>4, <2>1, <2>3, AppendRange
  <2>5. UNCHANGED <<alive, overfreed>>
    BY <1>5 DEF OutPassed
  <2> HIDE DEF p
  <2>6. QED
    BY <1>4, <2>1, <2>4, <2>5 DEF Kept
<1>6. CASE OutFreed
  <2> DEFINE p == Head(outQueue)
  <2>1. p \in OutPairs /\ OutPairs' = OutPairs \ {p} /\ IsInjective(outQueue')
    BY <1>2, <1>6 DEF OutFreed
  <2>2. UNCHANGED inQueue /\ FreePairs({p})
    BY <1>6 DEF OutFreed
  <2> HIDE DEF p
  <2>3. alive' = ((OutPairs \cup inPairs) \ {p}) \X Parts /\ ~overfreed'
    <3>1. {p} \subseteq OutPairs \cup inPairs
      BY <2>1
    <3>2. alive = (OutPairs \cup inPairs) \X Parts /\ ~overfreed /\ FreePairs({p})
      BY <1>4, <2>2
    <3> HIDE DEF inPairs
    <3>3. QED
      BY <3>1, <3>2, FreeKeeps
  <2>4. (OutPairs \cup inPairs) \ {p} = OutPairs' \cup inPairs'
    BY <1>4, <2>1, <2>2
  <2>5. QED
    BY <1>4, <2>1, <2>2, <2>3, <2>4 DEF Kept
<1>7. CASE InPassed
  <2> DEFINE p == Head(inQueue).pair
  <2>1. p \in inPairs /\ p \in Pairs /\ inPairs' = inPairs \ {p} /\ IsInjective(PairsOf(inQueue'))
    BY <1>3, <1>7 DEF InPassed
  <2>2. outQueue' = Append(outQueue, p) /\ UNCHANGED <<alive, overfreed>>
    BY <1>7 DEF InPassed
  <2> HIDE DEF p
  <2>3. OutPairs' = OutPairs \cup {p} /\ IsInjective(outQueue')
    BY <1>1, <1>4, <2>1, <2>2, AppendRange DEF OutPairs
  <2>4. QED
    BY <1>4, <2>1, <2>2, <2>3 DEF Kept
<1>8. CASE InFreed
  <2> DEFINE p == Head(inQueue).pair
  <2>1. p \in inPairs /\ inPairs' = inPairs \ {p} /\ IsInjective(PairsOf(inQueue'))
    BY <1>3, <1>8 DEF InFreed
  <2>2. UNCHANGED outQueue /\ OutPairs' = OutPairs /\ FreePairs({p})
    BY <1>8 DEF InFreed, OutPairs
  <2> HIDE DEF p
  <2>3. alive' = ((OutPairs \cup inPairs) \ {p}) \X Parts /\ ~overfreed'
    <3>1. {p} \subseteq OutPairs \cup inPairs
      BY <2>1
    <3>2. alive = (OutPairs \cup inPairs) \X Parts /\ ~overfreed /\ FreePairs({p})
      BY <1>4, <2>2
    <3> HIDE DEF inPairs
    <3>3. QED
      BY <3>1, <3>2, FreeKeeps
  <2>4. (OutPairs \cup inPairs) \ {p} = OutPairs' \cup inPairs'
    BY <1>4, <2>1, <2>2
  <2>5. QED
    BY <1>4, <2>1, <2>2, <2>3, <2>4 DEF Kept
<1>9. QED
  BY <1>5, <1>6, <1>7, <1>8

LEMMA KeptDisable ==
  ASSUME TypeOK, Kept, DisableStep
  PROVE  Kept'
<1> DEFINE inPairs == Range(PairsOf(inQueue))
<1>1. /\ inPairs = InPairs /\ nPairs' = nPairs
      /\ OutPairs \cap inPairs = {} /\ IsInjective(outQueue) /\ IsInjective(PairsOf(inQueue))
      /\ \A p \in OutPairs \cup inPairs : p <= nPairs
  BY InPairsRange DEF Kept, DisableStep, LbfnDisableIn, FailIn, LbfnDisableOut, FailOut
<1>2. CASE inQueue' = << >> /\ UNCHANGED outQueue /\ FreePairs(InPairs)
  <2>1. inPairs' = {} /\ OutPairs' = OutPairs /\ IsInjective(PairsOf(inQueue'))
    BY <1>2, NoPairs, NothingInRange DEF OutPairs
  <2>2. alive' = ((OutPairs \cup inPairs) \ inPairs) \X Parts /\ ~overfreed'
    <3>1. /\ inPairs \subseteq OutPairs \cup inPairs /\ FreePairs(inPairs)
          /\ alive = (OutPairs \cup inPairs) \X Parts /\ ~overfreed
      BY <1>1, <1>2 DEF Kept
    <3> HIDE DEF inPairs
    <3>2. QED
      BY <3>1, FreeKeeps
  <2>3. (OutPairs \cup inPairs) \ inPairs = OutPairs' \cup inPairs'
    BY <1>1, <2>1
  <2>4. QED
    BY <1>1, <1>2, <2>1, <2>2, <2>3 DEF Kept
<1>3. CASE outQueue' = << >> /\ UNCHANGED inQueue /\ FreePairs(OutPairs)
  <2>1. OutPairs' = {} /\ inPairs' = inPairs /\ IsInjective(outQueue')
    BY <1>3, NothingInRange DEF OutPairs
  <2>2. alive' = ((OutPairs \cup inPairs) \ OutPairs) \X Parts /\ ~overfreed'
    <3>1. /\ OutPairs \subseteq OutPairs \cup inPairs /\ FreePairs(OutPairs)
          /\ alive = (OutPairs \cup inPairs) \X Parts /\ ~overfreed
      BY <1>1, <1>3 DEF Kept
    <3> HIDE DEF inPairs
    <3>2. QED
      BY <3>1, FreeKeeps
  <2>3. (OutPairs \cup inPairs) \ OutPairs = OutPairs' \cup inPairs'
    BY <1>1, <2>1
  <2>4. QED
    BY <1>1, <1>3, <2>1, <2>2, <2>3 DEF Kept
<1>4. QED
  BY <1>2, <1>3 DEF DisableStep, LbfnDisableIn, FailIn, LbfnDisableOut, FailOut, DisableIn,
     DisableOut, OutPairs

LEMMA KeptAlloc ==
  ASSUME TypeOK, Kept, AllocPair
  PROVE  Kept'
<1> DEFINE inPairs == Range(PairsOf(inQueue))
<1>1. /\ nPairs' = nPairs + 1 /\ inPairs' = inPairs /\ overfreed' = overfreed
      /\ PairsOf(inQueue') = PairsOf(inQueue)
      /\ alive' = alive \cup ({nPairs + 1} \X Parts)
      /\ outQueue' = Append(outQueue, nPairs + 1)
  BY DEF AllocPair
<1>2. nPairs \in Nat /\ nPairs + 1 \in Pairs /\ outQueue \in Seq(Pairs) /\ inQueue \in Seq(Entries)
  BY DEF TypeOK, Pairs, Entries
<1>3. OutPairs \subseteq Pairs /\ inPairs \subseteq Pairs
  <2>1. PairsOf(inQueue) \in Seq(Pairs)
    BY <1>2, EntriesSplit
  <2>2. QED
    BY <1>2, <2>1, LenProperties, ElementOfSeq DEF Range, OutPairs
<1>4. nPairs + 1 \notin OutPairs \cup inPairs
  BY <1>2, <1>3 DEF Kept, Pairs
<1>5. OutPairs' = OutPairs \cup {nPairs + 1} /\ IsInjective(outQueue')
  BY <1>1, <1>2, <1>4, AppendRange DEF Kept, OutPairs
<1>6. \A p \in OutPairs' \cup inPairs' : p <= nPairs'
  <2>1. \A p \in OutPairs \cup inPairs : p \in Nat /\ p <= nPairs
    BY <1>3 DEF Kept, Pairs
  <2>2. QED
    BY <1>1, <1>2, <1>5, <2>1
<1>7. alive' = (OutPairs' \cup inPairs') \X Parts
  BY <1>1, <1>5 DEF Kept
<1>8. OutPairs' \cap inPairs' = {}
  BY <1>1, <1>4, <1>5 DEF Kept
<1>9. QED
  BY <1>1, <1>5, <1>6, <1>7, <1>8 DEF Kept

LEMMA KeptStep ==
  ASSUME Shape, OptionsTypeOK', Kept, [Next]_vars
  PROVE  Kept'
<1>1. TypeOK
  BY DEF Shape
<1>2. CASE UNCHANGED <<outQueue, inQueue, alive, overfreed, nPairs>>
  BY <1>2 DEF Kept, OutPairs
<1>3. CASE DisableStep
  BY <1>1, <1>3, KeptDisable
<1>4. CASE AllocPair
  BY <1>1, <1>4, KeptAlloc
<1>5. CASE OutComplete \/ InComplete \/ OutFails \/ InFails
  <2>1. UNCHANGED nPairs /\ (OutPassed \/ OutFreed \/ InPassed \/ InFreed)
    BY <1>5, CompletionKinds DEF epVars
  <2>2. QED
    BY <1>1, <2>1, KeptCompletion
<1>6. CASE Quiet
  BY <1>2, <1>6, ShapeQuiet DEF reqVars
<1>7. CASE OptionsStep
  BY <1>2, <1>7 DEF OptionsStep, epVars, reqVars
<1>8. CASE UNCHANGED vars
  BY <1>2, <1>8 DEF vars, epVars, reqVars
<1>9. QED
  BY <1>3, <1>4, <1>5, <1>6, <1>7, <1>8 DEF Next, SetupStep, Quiet, DisableStep

\* Nothing but the queues of the endpoints records a pair, and that is enough:
\* whatever fails, no request or buffer is lost or freed twice.
THEOREM NothingLeaks == Spec => []PairsAccounted
<1>1. Init => Kept
  <2>1. SUFFICES ASSUME Init PROVE Kept
    OBVIOUS
  <2>2. OutPairs = {} /\ Range(PairsOf(inQueue)) = {} /\ IsInjective(PairsOf(inQueue))
    BY <2>1, NoPairs, NothingInRange DEF Init, OutPairs
  <2>3. QED
    BY <2>1, <2>2, NothingInRange DEF Init, Kept
<1>2. Shape /\ OptionsTypeOK' /\ Kept /\ [Next]_vars => Kept'
  BY KeptStep
<1>3. Shape /\ Kept => PairsAccounted
  <2>1. SUFFICES ASSUME TypeOK, Kept PROVE PairsAccounted
    BY DEF Shape
  <2>2. inQueue \in Seq(Entries) /\ InPairs = Range(PairsOf(inQueue))
    BY <2>1, InPairsRange DEF TypeOK, Entries
  <2>3. \A j, k \in DOMAIN inQueue : j # k => inQueue[j].pair # inQueue[k].pair
    BY <2>1, <2>2 DEF Kept, PairsOf, IsInjective
  <2>4. QED
    BY <2>1, <2>2, <2>3 DEF Kept, PairsAccounted, OutPairs
<1>4. Init /\ OptionsTypeOK => Shape
  BY ShapeInit
<1>5. Shape /\ OptionsTypeOK' /\ [Next]_vars => Shape'
  BY ShapeStep
<1>6. QED
  BY <1>1, <1>2, <1>3, <1>4, <1>5, OptionsHere, PTL DEF Spec

-----------------------------------------------------------------------------
(* Messages *)

Increasing(q) == \A j, k \in DOMAIN q : j < k => q[j] < q[k]

LEMMA IncreasingTail ==
  ASSUME NEW q \in Seq(Nat), q # << >>, Increasing(q)
  PROVE  /\ Increasing(Tail(q)) /\ IsInjective(q)
         /\ \A m \in Range(Tail(q)) : Head(q) < m
<1>1. /\ Len(q) \in Nat \ {0} /\ DOMAIN q = 1 .. Len(q) /\ Head(q) = q[1]
      /\ DOMAIN Tail(q) = 1 .. Len(q) - 1
      /\ \A k \in 1 .. Len(q) - 1 : Tail(q)[k] = q[k + 1]
      /\ \A k \in 1 .. Len(q) : q[k] \in Nat
  BY EmptySeq, LenProperties, HeadTailProperties, ElementOfSeq
<1>2. \A k \in 1 .. Len(q) - 1 : k + 1 \in 1 .. Len(q) /\ 1 < k + 1
  BY <1>1
<1>3. Increasing(Tail(q))
  <2>1. SUFFICES ASSUME NEW j \in 1 .. Len(q) - 1, NEW k \in 1 .. Len(q) - 1, j < k
                 PROVE  Tail(q)[j] < Tail(q)[k]
    BY <1>1 DEF Increasing
  <2>2. j + 1 \in DOMAIN q /\ k + 1 \in DOMAIN q /\ j + 1 < k + 1
    BY <1>1, <1>2, <2>1
  <2>3. q[j + 1] < q[k + 1]
    BY <2>2 DEF Increasing
  <2>4. QED
    BY <1>1, <2>3
<1>4. \A m \in Range(Tail(q)) : Head(q) < m
  <2>1. SUFFICES ASSUME NEW k \in 1 .. Len(q) - 1 PROVE Head(q) < Tail(q)[k]
    BY <1>1 DEF Range
  <2>2. 1 \in DOMAIN q /\ k + 1 \in DOMAIN q /\ 1 < k + 1
    BY <1>1, <1>2
  <2>3. q[1] < q[k + 1]
    BY <2>2 DEF Increasing
  <2>4. QED
    BY <1>1, <2>3
<1>5. IsInjective(q)
  <2>1. \A j, k \in 1 .. Len(q) : j < k => q[j] # q[k]
    BY <1>1 DEF Increasing
  <2>2. \A j, k \in 1 .. Len(q) : j = k \/ j < k \/ k < j
    BY <1>1
  <2>3. QED
    BY <1>1, <2>1, <2>2 DEF IsInjective
<1>6. QED
  BY <1>3, <1>4, <1>5

LEMMA IncreasingAppend ==
  ASSUME NEW q \in Seq(Nat), NEW m \in Nat, Increasing(q), \A n \in Range(q) : n < m
  PROVE  Increasing(Append(q, m))
<1>1. /\ Len(q) \in Nat /\ DOMAIN q = 1 .. Len(q)
      /\ Append(q, m) \in Seq(Nat) /\ Len(Append(q, m)) = Len(q) + 1
      /\ \A k \in 1 .. Len(q) : Append(q, m)[k] = q[k]
      /\ Append(q, m)[Len(q) + 1] = m
  BY LenProperties, AppendProperties
<1>2. DOMAIN Append(q, m) = 1 .. Len(q) + 1
  BY <1>1, LenProperties
<1>3. \A k \in 1 .. Len(q) : q[k] < m
  BY <1>1 DEF Range
<1>4. ASSUME NEW j \in 1 .. Len(q) + 1, NEW k \in 1 .. Len(q) + 1, j < k
      PROVE  Append(q, m)[j] < Append(q, m)[k]
  <2>1. j \in 1 .. Len(q)
    BY <1>1, <1>4
  <2>2. CASE k \in 1 .. Len(q)
    BY <1>1, <1>4, <2>1, <2>2 DEF Increasing
  <2>3. CASE k = Len(q) + 1
    BY <1>1, <1>3, <2>1, <2>3
  <2>4. QED
    BY <1>1, <2>2, <2>3
<1>5. QED
  BY <1>2, <1>4 DEF Increasing

\* LoopsInOrder, queue by queue.
InOrder ==
  /\ Increasing(received) /\ Increasing(MsgsOf(inQueue))
  /\ \A m \in Range(received), n \in Range(MsgsOf(inQueue)) : m < n
  /\ Range(received) \cup Range(MsgsOf(inQueue)) \cup lost = 1 .. nSent
  /\ (Range(received) \cup Range(MsgsOf(inQueue))) \cap lost = {}

LEMMA InOrderCompletion ==
  ASSUME TypeOK, InOrder, OutPassed \/ OutFreed \/ InPassed \/ InFreed
  PROVE  InOrder'
<1> DEFINE inMsgs == Range(MsgsOf(inQueue))
           back == Range(received)
<1>1. /\ inQueue \in Seq(Entries)
      /\ MsgsOf(inQueue) \in Seq(Messages) /\ received \in Seq(Messages)
      /\ MsgsOf(inQueue) \in Seq(Nat) /\ received \in Seq(Nat)
      /\ nSent \in Nat
  <2>1. Messages \subseteq Nat
    BY BoundsAssumption DEF Messages
  <2>2. /\ inQueue \in Seq(Entries) /\ received \in Seq(Messages) /\ nSent \in Nat
        /\ MsgsOf(inQueue) \in Seq(Messages)
    <3>1. inQueue \in Seq(Entries) /\ received \in Seq(Messages)
      BY DEF TypeOK, Entries
    <3>2. nSent \in Nat
      BY BoundsAssumption DEF TypeOK
    <3>3. MsgsOf(inQueue) \in Seq(Messages)
      BY <3>1, EntriesSplit
    <3>4. QED
      BY <3>1, <3>2, <3>3
  <2>3. QED
    BY <2>1, <2>2, SeqMonotonic
<1>2. /\ Increasing(received) /\ Increasing(MsgsOf(inQueue))
      /\ \A m \in back, n \in inMsgs : m < n
      /\ back \cup inMsgs \cup lost = 1 .. nSent /\ (back \cup inMsgs) \cap lost = {}
  BY DEF InOrder
<1>3. 1 .. nSent + 1 = (1 .. nSent) \cup {nSent + 1} /\ nSent + 1 \notin 1 .. nSent
      /\ \A m \in 1 .. nSent : m < nSent + 1
  BY <1>1
<1>4. InTaken => /\ Head(inQueue).msg \in inMsgs /\ Head(inQueue).msg \in Messages
                 /\ inMsgs' = inMsgs \ {Head(inQueue).msg}
                 /\ Increasing(MsgsOf(inQueue'))
                 /\ \A n \in inMsgs' : Head(inQueue).msg < n
  <2>1. SUFFICES ASSUME InTaken
                 PROVE  /\ Head(inQueue).msg \in inMsgs /\ Head(inQueue).msg \in Messages
                        /\ inMsgs' = inMsgs \ {Head(inQueue).msg}
                        /\ Increasing(MsgsOf(inQueue'))
                        /\ \A n \in inMsgs' : Head(inQueue).msg < n
    OBVIOUS
  <2>2. inQueue # << >> /\ MsgsOf(inQueue') = Tail(MsgsOf(inQueue))
    BY <1>1, <2>1, EntriesTail DEF InTaken
  <2>3. MsgsOf(inQueue) # << >> /\ Head(MsgsOf(inQueue)) = Head(inQueue).msg
    BY <1>1, <2>2, EntriesTail
  <2>4. /\ Increasing(Tail(MsgsOf(inQueue))) /\ IsInjective(MsgsOf(inQueue))
        /\ \A m \in Range(Tail(MsgsOf(inQueue))) : Head(inQueue).msg < m
    BY <1>1, <1>2, <2>3, IncreasingTail
  <2>5. /\ Head(inQueue).msg \in inMsgs
        /\ Range(Tail(MsgsOf(inQueue))) = inMsgs \ {Head(inQueue).msg}
    BY <1>1, <2>3, <2>4, TailRange
  <2>6. QED
    BY <2>1, <2>2, <2>4, <2>5, Takes
<1>5. CASE OutPassed
  <2>1. /\ nSent' = nSent + 1 /\ received' = received /\ lost' = lost
        /\ nSent + 1 \in Messages /\ nSent + 1 \in Nat
    <3>1. nSent < MaxMessages /\ MaxMessages \in Nat
      BY <1>5, BoundsAssumption DEF OutPassed
    <3>2. nSent + 1 \in Messages /\ nSent + 1 \in Nat
      BY <1>1, <3>1 DEF Messages
    <3>3. QED
      BY <1>5, <3>2 DEF OutPassed
  <2>2. MsgsOf(inQueue') = Append(MsgsOf(inQueue), nSent + 1)
    <3>1. Head(outQueue) \in Pairs
      BY <1>5, Takes DEF OutPassed
    <3>2. QED
      BY <1>1, <1>5, <2>1, <3>1, EntriesAppend DEF OutPassed
  <2>3. \A n \in inMsgs : n < nSent + 1
    BY <1>2, <1>3
  <2>4. Increasing(MsgsOf(inQueue'))
    BY <1>1, <1>2, <2>1, <2>2, <2>3, IncreasingAppend
  <2>5. inMsgs' = inMsgs \cup {nSent + 1} /\ back' = back
    BY <1>1, <2>1, <2>2, AppendRange
  <2> HIDE DEF inMsgs, back
  <2>6. \A m \in back', n \in inMsgs' : m < n
    BY <1>2, <1>3, <2>5
  <2>7. back' \cup inMsgs' \cup lost' = 1 .. nSent'
    BY <1>2, <1>3, <2>1, <2>5
  <2>8. (back' \cup inMsgs') \cap lost' = {}
    BY <1>2, <1>3, <2>1, <2>5
  <2>9. QED
    BY <1>2, <2>1, <2>4, <2>6, <2>7, <2>8 DEF InOrder, inMsgs, back
<1>6. CASE OutFreed
  <2>1. inMsgs' = inMsgs /\ back' = back /\ MsgsOf(inQueue') = MsgsOf(inQueue)
        /\ received' = received
    BY <1>6 DEF OutFreed
  <2>2. \/ nSent' = nSent + 1 /\ lost' = lost \cup {nSent + 1}
        \/ UNCHANGED <<nSent, lost>>
    BY <1>6 DEF OutFreed
  <2> HIDE DEF inMsgs, back
  <2>3. back' \cup inMsgs' \cup lost' = 1 .. nSent' /\ (back' \cup inMsgs') \cap lost' = {}
    BY <1>2, <1>3, <2>1, <2>2
  <2>4. QED
    BY <1>2, <2>1, <2>3 DEF InOrder, inMsgs, back
<1>7. CASE InTaken /\ nSent' = nSent /\ lost' = lost
           /\ received' = Append(received, Head(inQueue).msg)
  <2> DEFINE h == Head(inQueue).msg
  <2>1. /\ h \in inMsgs /\ h \in Messages /\ inMsgs' = inMsgs \ {h}
        /\ Increasing(MsgsOf(inQueue')) /\ \A n \in inMsgs' : h < n
    BY <1>4, <1>7
  <2>2. received' = Append(received, h) /\ nSent' = nSent /\ lost' = lost
    BY <1>7
  <2> HIDE DEF h
  <2>3. h \in Nat /\ \A m \in back : m < h
    BY <1>2, <2>1, BoundsAssumption DEF Messages
  <2>4. back' = back \cup {h} /\ Increasing(received')
    BY <1>1, <1>2, <2>1, <2>2, <2>3, AppendRange, IncreasingAppend
  <2> HIDE DEF inMsgs, back
  <2>5. \A m \in back', n \in inMsgs' : m < n
    BY <1>2, <2>1, <2>4
  <2>6. back' \cup inMsgs' = back \cup inMsgs
    BY <2>1, <2>4
  <2>7. QED
    BY <1>2, <2>1, <2>2, <2>4, <2>5, <2>6 DEF InOrder, inMsgs, back
<1>8. CASE InTaken /\ UNCHANGED <<nSent, received>>
           /\ lost' = lost \cup {Head(inQueue).msg}
  <2> DEFINE h == Head(inQueue).msg
  <2>1. /\ h \in inMsgs /\ inMsgs' = inMsgs \ {h} /\ Increasing(MsgsOf(inQueue'))
    BY <1>4, <1>8
  <2>2. received' = received /\ back' = back /\ nSent' = nSent /\ lost' = lost \cup {h}
    BY <1>8
  <2>3. h \in Nat /\ \A m \in back : m < h
    BY <1>1, <1>2, <1>4, <1>8, BoundsAssumption DEF Messages
  <2> HIDE DEF h, inMsgs, back
  <2>4. h \notin back
    BY <2>3
  <2>5. back' \cup inMsgs' \cup lost' = 1 .. nSent' /\ (back' \cup inMsgs') \cap lost' = {}
    BY <1>2, <2>1, <2>2, <2>4
  <2>6. QED
    BY <1>2, <2>1, <2>2, <2>5 DEF InOrder, inMsgs, back
<1>9. QED
  BY <1>5, <1>6, <1>7, <1>8 DEF InPassed, InFreed

LEMMA InOrderStep ==
  ASSUME Shape, OptionsTypeOK', InOrder, [Next]_vars
  PROVE  InOrder'
<1>1. TypeOK
  BY DEF Shape
<1>2. CASE UNCHANGED <<inQueue, received, lost, nSent>>
  BY <1>2 DEF InOrder
<1>3. CASE inQueue' = << >> /\ UNCHANGED <<received, nSent>> /\ lost' = lost \cup InMsgs
  <2>1. Range(MsgsOf(inQueue)) = InMsgs
    BY <1>1, InPairsRange
  <2>2. Range(MsgsOf(inQueue')) = {} /\ MsgsOf(inQueue') = << >>
    BY <1>3, NoPairs, NothingInRange
  <2>3. Increasing(MsgsOf(inQueue'))
    <3>1. DOMAIN << >> = {}
      OBVIOUS
    <3>2. QED
      BY <2>2, <3>1 DEF Increasing
  <2>4. Range(received) \cap InMsgs = {}
    <3>1. \A m \in Range(received) : m \in Nat
      <4>1. received \in Seq(Messages) /\ Messages \subseteq Nat
        BY <1>1, BoundsAssumption DEF TypeOK, Messages
      <4>2. QED
        BY <4>1, LenProperties, ElementOfSeq DEF Range
    <3>2. \A m \in Range(received), n \in InMsgs : m < n
      BY <2>1 DEF InOrder
    <3>3. QED
      BY <3>1, <3>2
  <2>5. /\ Range(received') \cup Range(MsgsOf(inQueue')) \cup lost' = 1 .. nSent'
        /\ (Range(received') \cup Range(MsgsOf(inQueue'))) \cap lost' = {}
    BY <1>3, <2>1, <2>2, <2>4 DEF InOrder
  <2>6. QED
    BY <1>3, <2>2, <2>3, <2>5 DEF InOrder
<1>4. CASE DisableStep
  BY <1>2, <1>3, <1>4 DEF DisableStep, LbfnDisableIn, FailIn, LbfnDisableOut, FailOut, DisableIn,
     DisableOut, dataVars
<1>5. CASE AllocPair
  BY <1>2, <1>5 DEF AllocPair, dataVars
<1>6. CASE OutComplete \/ InComplete \/ OutFails \/ InFails
  BY <1>1, <1>6, CompletionKinds, InOrderCompletion
<1>7. CASE Quiet
  BY <1>2, <1>7, ShapeQuiet DEF reqVars, dataVars
<1>8. CASE OptionsStep \/ UNCHANGED vars
  BY <1>2, <1>8 DEF OptionsStep, vars, epVars, reqVars, dataVars
<1>9. QED
  BY <1>4, <1>5, <1>6, <1>7, <1>8 DEF Next, SetupStep, Quiet, DisableStep

\* What the host reads back is a subsequence of what it wrote, and what is
\* missing was freed with its pair, across selections and failures.
THEOREM DataLoopsInOrder == Spec => []LoopsInOrder
<1>1. Init => InOrder
  <2>1. SUFFICES ASSUME Init PROVE InOrder
    OBVIOUS
  <2>2. /\ Range(received) = {} /\ Range(MsgsOf(inQueue)) = {}
        /\ DOMAIN received = {} /\ DOMAIN MsgsOf(inQueue) = {}
    BY <2>1, NoPairs, NothingInRange DEF Init
  <2>3. lost = {} /\ 1 .. nSent = {}
    BY <2>1 DEF Init
  <2>4. QED
    BY <2>2, <2>3 DEF InOrder, Increasing
<1>2. Shape /\ OptionsTypeOK' /\ InOrder /\ [Next]_vars => InOrder'
  BY InOrderStep
<1>3. Shape /\ InOrder => LoopsInOrder
  <2>1. SUFFICES ASSUME TypeOK, InOrder PROVE LoopsInOrder
    BY DEF Shape
  <2> DEFINE msgs == MsgsOf(inQueue)
             back == received \o msgs
  <2>2. received \in Seq(Messages) /\ msgs \in Seq(Messages)
    BY <2>1, EntriesSplit DEF TypeOK, Entries
  <2>3. /\ Len(received) \in Nat /\ DOMAIN received = 1 .. Len(received)
        /\ Len(msgs) \in Nat /\ DOMAIN msgs = 1 .. Len(msgs)
        /\ back \in Seq(Messages) /\ DOMAIN back = 1 .. Len(received) + Len(msgs)
        /\ \A k \in 1 .. Len(received) + Len(msgs) :
             back[k] = IF k <= Len(received) THEN received[k] ELSE msgs[k - Len(received)]
    BY <2>2, LenProperties, ConcatProperties
  <2>4. back = received \o [k \in DOMAIN inQueue |-> inQueue[k].msg]
    BY DEF MsgsOf
  <2> HIDE DEF msgs, back
  <2>5. \A k \in DOMAIN back :
          \/ k \in DOMAIN received /\ back[k] = received[k]
          \/ /\ k - Len(received) \in DOMAIN msgs /\ ~(k <= Len(received))
             /\ back[k] = msgs[k - Len(received)]
    BY <2>3
  <2>6. ASSUME NEW j \in DOMAIN back, NEW k \in DOMAIN back, j < k
        PROVE  back[j] < back[k]
    <3>1. j \in Nat /\ k \in Nat
      BY <2>3
    <3>2. CASE k \in DOMAIN received
      <4>1. j \in DOMAIN received /\ back[j] = received[j] /\ back[k] = received[k]
        <5>1. j \in 1 .. Len(received) /\ k \in 1 .. Len(received)
          <6>1. j >= 1 /\ k <= Len(received) /\ k >= 1
            BY <2>3, <3>2
          <6>2. QED
            BY <2>3, <2>6, <3>1, <6>1
        <5>2. back[j] = received[j] /\ back[k] = received[k]
          BY <2>3, <5>1
        <5>3. QED
          BY <2>3, <5>1, <5>2
      <4>2. QED
        <5>1. Increasing(received)
          BY <2>1 DEF InOrder
        <5>2. QED
          BY <2>6, <3>2, <4>1, <5>1 DEF Increasing
    <3>3. CASE k \notin DOMAIN received /\ j \in DOMAIN received
      <4>1. back[j] \in Range(received) /\ back[k] \in Range(msgs)
        BY <2>3, <2>5, <3>3 DEF Range
      <4>2. QED
        BY <2>1, <4>1 DEF InOrder, msgs
    <3>4. CASE k \notin DOMAIN received /\ j \notin DOMAIN received
      <4>1. /\ j - Len(received) \in DOMAIN msgs /\ k - Len(received) \in DOMAIN msgs
            /\ j - Len(received) < k - Len(received)
            /\ back[j] = msgs[j - Len(received)] /\ back[k] = msgs[k - Len(received)]
        <5>1. /\ j - Len(received) \in DOMAIN msgs /\ back[j] = msgs[j - Len(received)]
              /\ k - Len(received) \in DOMAIN msgs /\ back[k] = msgs[k - Len(received)]
          BY <2>5, <3>4
        <5>2. j - Len(received) < k - Len(received)
          BY <2>3, <2>6, <3>1
        <5>3. QED
          BY <5>1, <5>2
      <4>2. QED
        BY <2>1, <4>1 DEF InOrder, Increasing, msgs
    <3>5. QED
      BY <3>2, <3>3, <3>4
  <2>7. Range(back) = Range(received) \cup Range(msgs)
    <3>1. \A k \in DOMAIN received : k \in DOMAIN back /\ back[k] = received[k]
      BY <2>3
    <3>2. \A k \in DOMAIN msgs : /\ Len(received) + k \in DOMAIN back
                                 /\ back[Len(received) + k] = msgs[k]
      BY <2>3
    <3>3. QED
      BY <2>5, <3>1, <3>2 DEF Range
  <2>8. QED
    BY <2>1, <2>4, <2>6, <2>7 DEF InOrder, LoopsInOrder, msgs
<1>4. Init /\ OptionsTypeOK => Shape
  BY ShapeInit
<1>5. Shape /\ OptionsTypeOK' /\ [Next]_vars => Shape'
  BY ShapeStep
<1>6. QED
  BY <1>1, <1>2, <1>3, <1>4, <1>5, OptionsHere, PTL DEF Spec
================================================================================
