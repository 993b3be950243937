CONSTANTS
  MaxTrips = 3
  MaxBotReads = 3
  MaxResponses = 3
  MaxStrays = 1
  Faults <- AllFaults
SPECIFICATION Spec
CHECK_DEADLOCK FALSE
INVARIANTS
  TypeOK
  OwnResponse
PROPERTY ToldGetsResponse
