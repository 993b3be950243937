------------------------ MODULE MCControllerLifecycle -------------------------
(* Small instances of ControllerLifecycle for TLC. *)
EXTENDS ControllerLifecycle

AllFaults   == ControllerFaultKinds
NoFaults    == {}
===============================================================================
