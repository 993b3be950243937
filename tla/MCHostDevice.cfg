CONSTANTS
  MaxTransfers = 2
  MaxStarts = 2
  k1 = k1
  k2 = k2
  Resets <- TwoResets
  Faults <- AllFaults
SPECIFICATION Spec
CHECK_DEADLOCK FALSE
INVARIANTS
  TypeOK
  PortResetQuiet
  TransfersCompletedOnce
  RunningUnlessReported
PROPERTY ResetsReturn
