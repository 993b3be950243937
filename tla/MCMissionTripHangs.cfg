CONSTANTS
  MaxTrips = 2
  MaxBotReads = 3
  MaxResponses = 2
  MaxStrays = 0
  Faults = {}
SPECIFICATION Spec
CHECK_DEADLOCK FALSE
PROPERTY TripEnds
