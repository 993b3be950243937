CONSTANTS
  MaxStarts = 2
  ControllerFaults <- NoFaults
SPECIFICATION ControllerSpec
CHECK_DEADLOCK FALSE
INVARIANT AssertHolds
