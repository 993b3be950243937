----------------------------- MODULE MCHostDevice -----------------------------
(* Small instances of HostDevice for TLC. *)
EXTENDS HostDevice

CONSTANTS k1, k2

TwoResets == {k1, k2}

AllFaults == FaultKinds
===============================================================================
