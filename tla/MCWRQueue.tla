------------------------------ MODULE MCWRQueue ------------------------------
(***************************************************************************)
(* WRQueue for TLC: a handful of writes and reads of different lengths.    *)
(***************************************************************************)
EXTENDS WRQueue

\* Shorter and longer writes than reads, so that copies are cut either way.
MCWLen == [w \in 1 .. MaxWrites |-> 1 + (w % 3)]
MCRLen == [r \in 1 .. MaxReads |-> 1 + ((2 * r) % 3)]

AllFaults == FaultKinds
==============================================================================
