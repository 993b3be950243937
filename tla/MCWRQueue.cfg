SPECIFICATION Spec
CONSTANTS
  MaxWrites = 4
  MaxReads = 4
  WLen <- MCWLen
  RLen <- MCRLen
  Faults <- AllFaults
INVARIANTS
  TypeOK
  NothingLostOrDuplicated
  RequestsOwnedOnce
  OneStrandedPair
  BufferedInOrder
PROPERTIES
  WritesAlwaysComplete
  IsAMissionPipe
CHECK_DEADLOCK FALSE
