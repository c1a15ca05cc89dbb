SPECIFICATION FairSpec
CONSTANTS
  TicksPerHour = 1
  HoursPerDay = 24
  NoOrder = NoOrder
  NoPayer = NoPayer
  NoEntity = NoEntity
  TouchWindow = 168
  Events <- Contended
  Times = {12}
  Settings <- DaySettings
  Workers = {w1, w2}
  Free = Free
  MaxFaults = 2
INVARIANTS
  TypeOK
  EffectOnce
  AuditExplainsPayments
PROPERTIES
  ActsAtomically
  PaidIsFinal
  EveryEventAcknowledged
