--------------------------- MODULE LoopbackOptions ---------------------------
(***************************************************************************)
(* The configfs options of the loopback function (rpi/source/simpleufn/    *)
(* f_one.c): struct f_lb_opts and the functions made from it.              *)
(*                                                                         *)
(* Attributes may be written by any process at any time.  A function that  *)
(* is made from the instance counts itself in refcnt under the mutex and   *)
(* reads the options after it has let go of it.                            *)
(***************************************************************************)
EXTENDS Naturals, FiniteSets

CONSTANTS
  Functions,  \* the functions made from one instance
  Numbers,    \* what may be written to an attribute
  DEFAULTS,   \* F_ONE_DEFAULT_QLEN and F_ONE_DEFAULT_BULK_BUFLEN
  ZeroQlen    \* what a qlen of 0 stands for: 32 in the code

Attributes == {"qlen", "bulk_buflen"}

ASSUME FunctionsAssumption == IsFiniteSet(Functions)
ASSUME NumbersAssumption   == Numbers \subseteq Nat
ASSUME ZeroQlenAssumption  == ZeroQlen \in Nat
ASSUME DefaultsAssumption  == DEFAULTS \in [Attributes -> Nat]

VARIABLES
  opts,    \* the attributes of f_lb_opts
  refcnt,  \* functions counted
  funcPc,  \* where each loopback_alloc is
  loop     \* what each function took from the options

optVars == <<opts, refcnt, funcPc, loop>>

Options == [Attributes -> Numbers \cup {DEFAULTS[a] : a \in Attributes} \cup {ZeroQlen, 0}]

OptionsTypeOK ==
  /\ opts \in Options
  /\ refcnt \in 0 .. Cardinality(Functions)
  /\ funcPc \in [Functions -> {"none", "alloc", "buflen", "qlen", "live", "freeing"}]
  /\ loop \in [Functions -> Options]

\* loopback_alloc_instance
OptionsInit ==
  /\ opts = DEFAULTS
  /\ refcnt = 0
  /\ funcPc = [f \in Functions |-> "none"]
  /\ loop = [f \in Functions |-> [a \in Attributes |-> 0]]

\* Faulty variant, used to test the properties: functions are not looked for.
Store_IgnoresRefcnt(a, num) ==
  /\ opts' = [opts EXCEPT ![a] = num]
  /\ UNCHANGED <<refcnt, funcPc, loop>>

\* f_lb_opts_qlen_store and f_lb_opts_bulk_buflen_store, under the mutex; it
\* is -EBUSY while functions exist.
Store(a, num) ==
  /\ refcnt = 0
  /\ opts' = [opts EXCEPT ![a] = num]
  /\ UNCHANGED <<refcnt, funcPc, loop>>

\* loopback_alloc: kzalloc, which may fail, ...
Alloc(f) ==
  /\ funcPc[f] = "none"
  /\ funcPc' = [funcPc EXCEPT ![f] = "alloc"]
  /\ UNCHANGED <<opts, refcnt, loop>>

\* ... the count, under the mutex, ...
AllocCount(f) ==
  /\ funcPc[f] = "alloc"
  /\ refcnt' = refcnt + 1
  /\ funcPc' = [funcPc EXCEPT ![f] = "buflen"]
  /\ UNCHANGED <<opts, loop>>

\* ... and the options, without it.
AllocBuflen(f) ==
  /\ funcPc[f] = "buflen"
  /\ loop' = [loop EXCEPT ![f]["bulk_buflen"] = opts["bulk_buflen"]]
  /\ funcPc' = [funcPc EXCEPT ![f] = "qlen"]
  /\ UNCHANGED <<opts, refcnt>>

Qlen(n) == IF n = 0 THEN ZeroQlen ELSE n

AllocQlen(f) ==
  /\ funcPc[f] = "qlen"
  /\ loop' = [loop EXCEPT ![f]["qlen"] = Qlen(opts["qlen"])]
  /\ funcPc' = [funcPc EXCEPT ![f] = "live"]
  /\ UNCHANGED <<opts, refcnt>>

\* lb_free_func: the count goes down under the mutex, the function after it.
FreeCount(f) ==
  /\ funcPc[f] = "live"
  /\ refcnt' = refcnt - 1
  /\ funcPc' = [funcPc EXCEPT ![f] = "freeing"]
  /\ UNCHANGED <<opts, loop>>

FreeFunc(f) ==
  /\ funcPc[f] = "freeing"
  /\ funcPc' = [funcPc EXCEPT ![f] = "none"]
  /\ loop' = [loop EXCEPT ![f] = [a \in Attributes |-> 0]]
  /\ UNCHANGED <<opts, refcnt>>

OptionsNext ==
  \/ \E a \in Attributes, num \in Numbers : Store(a, num)
  \/ \E f \in Functions : \/ Alloc(f) \/ AllocCount(f) \/ AllocBuflen(f)
                          \/ AllocQlen(f) \/ FreeCount(f) \/ FreeFunc(f)

OptionsSpec == OptionsInit /\ [][OptionsNext]_optVars

\* The functions that have counted themselves and not yet uncounted.
Counted == {f \in Functions : funcPc[f] \in {"buflen", "qlen", "live"}}

\* While a function is in use the options stay what it was made from, though
\* it read them one by one and without the mutex: attributes show the truth,
\* and all functions of an instance have the same queue length and buffers.
OptionsHold ==
  \A f \in Functions :
    /\ funcPc[f] = "live" => loop[f]["qlen"] = Qlen(opts["qlen"])
    /\ funcPc[f] \in {"qlen", "live"} => loop[f]["bulk_buflen"] = opts["bulk_buflen"]

\* The count is exact, so the options can be written again once the last
\* function is gone, and not before.
CountExact == refcnt = Cardinality(Counted)
==============================================================================
