--------------------------- MODULE MCHostInterrupt ---------------------------
(* Small instances of HostInterrupt for TLC. *)
EXTENDS HostInterrupt

CONSTANTS r1, r2

\* "By defaut, framework queues two requests to the target endpoint."
TwoReaders == {r1, r2}

AllFaults == FaultKinds
NoFaults  == {}
==============================================================================
