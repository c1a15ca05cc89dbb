\* The system may stop: when nothing is due, no event is left and the clock
\* stands at MaxTime.
SPECIFICATION RecoverySpec
CONSTANTS
  TicksPerHour = 1
  HoursPerDay = 4
  NoOrder = NoOrder
  NoPayer = NoPayer
  NoEntity = NoEntity
  TouchWindow = 1
  Events <- TwoOrders
  Times = {0}
  Settings <- ShortDays
  Dispatchers = {d1, d2}
  MaxAttempts = 2
  MaxTime = 2
  BaseDelay = 1
  MaxDelay = 1
SYMMETRY AnyDispatcher
INVARIANTS
  RecoveryTypeOK
  LinksHeldGuardrails
  CapExceededByOverlapOnly
  AuditExplainsOutreach
CHECK_DEADLOCK FALSE
