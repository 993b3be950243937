---------------------------- MODULE MCMissionTrip ----------------------------
(* Small instances of MissionTrip for TLC. *)
EXTENDS MissionTrip

AllFaults == FaultKinds
==============================================================================
