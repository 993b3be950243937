CONSTANTS
  f1 = f1
  f2 = f2
  Functions <- TwoFunctions
  Used = f1
  Numbers = {0, 1}
  DEFAULTS <- MCDefaults
  ZeroQlen = 2
  MaxMessages = 4
  MaxEnables = 2
  Faults <- AllFaults
SPECIFICATION Spec
CHECK_DEADLOCK FALSE
INVARIANTS
  TypeOK
  PairsAccounted
  AtMostQlen
  LoopsInOrder
  OptionsHold
