CONSTANTS
  MaxInterrupts = 2
  MaxIoctls = 1
  MaxOutstanding = 1
  r1 = r1
  r2 = r2
  Readers <- TwoReaders
  MAX_CACHED_INTR_UPDATES = 2
  Faults <- NoFaults
SPECIFICATION Spec
CHECK_DEADLOCK FALSE
INVARIANT ClearedIsConsumed
