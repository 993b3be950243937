CONSTANTS
  MaxInterrupts = 3
  MaxIoctls = 3
  MaxOutstanding = 3
  r1 = r1
  r2 = r2
  Readers <- TwoReaders
  MAX_CACHED_INTR_UPDATES = 2
  Faults <- AllFaults
SPECIFICATION Spec
CHECK_DEADLOCK FALSE
INVARIANTS
  TypeOK
  EveryInterruptAccounted
  IoctlsOwnedOnce
  RemovalDrains
PROPERTY WaitersAnswered
