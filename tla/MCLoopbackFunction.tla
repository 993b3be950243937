-------------------------- MODULE MCLoopbackFunction --------------------------
(* A small instance of LoopbackFunction for TLC. *)
EXTENDS LoopbackFunction

CONSTANTS f1, f2

TwoFunctions == {f1, f2}
MCDefaults == [qlen |-> 1, bulk_buflen |-> 1]
AllFaults == FaultKinds
===============================================================================
