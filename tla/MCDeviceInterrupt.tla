-------------------------- MODULE MCDeviceInterrupt --------------------------
(***************************************************************************)
(* DeviceInterrupt for TLC: the host's two URBs and a cache that overflows *)
(* after two updates instead of a hundred.                                 *)
(***************************************************************************)
EXTENDS DeviceInterrupt

CONSTANTS u1, u2

TwoUrbs == {u1, u2}

AllFaults == FaultKinds
==============================================================================
