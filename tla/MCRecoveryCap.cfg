SPECIFICATION RecoverySpec
CONSTANTS
  TicksPerHour = 1
  HoursPerDay = 4
  NoOrder = NoOrder
  NoPayer = NoPayer
  NoEntity = NoEntity
  TouchWindow = 1
  Events <- TwoOrders
  Times = {0}
  Settings <- ShortDays
  Dispatchers = {d1}
  MaxAttempts = 2
  MaxTime = 1
  BaseDelay = 1
  MaxDelay = 1
INVARIANT TouchCapHolds
CHECK_DEADLOCK FALSE
