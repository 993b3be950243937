SPECIFICATION Spec
CONSTANTS
  u1 = u1
  u2 = u2
  Urbs <- TwoUrbs
  MaxRaises = 5
  INTR_STATE_MAX_CACHED_UPDATES = 2
  Faults <- AllFaults
INVARIANTS
  TypeOK
  StalenessBounded
  UrbsOwnedOnce
  NothingParkedAsleep
PROPERTIES
  RemoteWakeup
  IsAnInterruptChannel
