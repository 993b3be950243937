CONSTANTS
  MaxBinds = 3
  UINT = 6500
  Params <- MCParams
  Faults <- AllFaults
SPECIFICATION Spec
CHECK_DEADLOCK FALSE
INVARIANTS
  TypeOK
  TimerWithinBind
  NothingHeldUnbound
  DelayWithinParams
PROPERTY WakesHost
