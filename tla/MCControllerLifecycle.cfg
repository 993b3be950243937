CONSTANTS
  MaxStarts = 1
  ControllerFaults <- AllFaults
SPECIFICATION ControllerSpec
CHECK_DEADLOCK FALSE
INVARIANTS
  ControllerTypeOK
  NoInvalidUse
  OnlyIntrLockLeaks
  PluggedHasQueues
